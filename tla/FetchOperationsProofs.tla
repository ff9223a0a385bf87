------------------------ MODULE FetchOperationsProofs ------------------------
(***************************************************************************)
(* Proofs about FetchOperations: its types, that no item reaches the phone *)
(* more often than the ids were lost, that what is answered was saved      *)
(* before, that hold slots are accounted for, and that the proxy is a      *)
(* Mailbox, for any number of connections, items, losses, failed saves and *)
(* restarts.                                                               *)
(***************************************************************************)
EXTENDS FetchOperations, TLAPS, FiniteSetTheorems

(* The ids of a whole file are also in memory once memory is loaded, and a  *)
(* write has failed only while memory is.                                   *)
IdsInv ==
    /\ loaded /\ ~torn => deliveredDisk \subseteq deliveredMem
    /\ unsaved => loaded

(* What a thread carries was claimed in memory by this incarnation, is on   *)
(* disk once the save is over unless that failed, is carried by no other    *)
(* thread, and the phone does not have it since the last lapse.             *)
ClaimInv ==
    /\ \A c \in Conns :
         /\ conn[c].phase \in {"save", "saving"} => loaded
         /\ conn[c].items # {} => loaded
         /\ conn[c].items \subseteq deliveredMem
         /\ conn[c].phase \notin {"save", "saving"} =>
               unsaved \/ conn[c].items \subseteq deliveredDisk
         /\ \A i \in conn[c].items : copies[i] <= lapses
         /\ \A d \in Conns \ {c} : conn[c].items \cap conn[d].items = {}

(* What the phone got since the last lapse it got once; its id is one no    *)
(* drain takes again, and on disk unless the last write failed.             *)
GotInv ==
    \A i \in Items :
        /\ copies[i] <= 1 + lapses
        /\ copies[i] > lapses => i \in Delivered /\ (unsaved \/ i \in deliveredDisk)

MailboxInv == TypeOK /\ IdsInv /\ ClaimInv /\ GotInv

(* The number of any set of a drain's ops is a natural number.             *)
LEMMA SubsetCardinality ==
    ASSUME NEW S, IsFiniteSet(S), NEW T \in SUBSET S
    PROVE  Cardinality(T) \in Nat
BY FS_Subset, FS_CardinalityType

(* The answered revision is a natural number.                              *)
LEMMA AnsweredRevisionType ==
    ASSUME NEW r \in Nat, NEW n \in Nat
    PROVE  AnsweredRevision(r, n) \in Nat
BY DEF AnsweredRevision

(* After a drain a thread is in one of the phases of a thread.             *)
LEMMA AfterDrainType ==
    ASSUME NEW s
    PROVE  AfterDrain(s) \in {"release", "reply", "hold", "wait"}
BY DEF AfterDrain

(* A connection without a thread is well typed.                            *)
LEMMA IdleType == IdleConn \in Thread
BY DEF IdleConn, Thread, Phases

(* A drain leaves every thread well typed.                                 *)
LEMMA DrainType ==
    ASSUME TypeOK, NEW c \in Conns, Drain(c)
    PROVE  TypeOK'
<1> USE FetchAssumption
<1> DEFINE s == conn[c]
           new == outbox \ Delivered
           ops == new \ Silent
<1>1. s \in Thread
  BY DEF TypeOK
<1>2. Delivered \in SUBSET Items /\ new \in SUBSET Items /\ ops \in SUBSET Items
  BY DEF TypeOK, Delivered
<1>3. Cardinality(ops) \in Nat /\ Cardinality(pendingOps) \in Nat
  BY <1>2, SubsetCardinality DEF TypeOK
<1>4. PICK k \in 0..Cardinality(ops) :
        LET n == Cardinality(pendingOps) + Cardinality(ops) + k
            t == [s EXCEPT !.items = ops, !.confirms = pendingOps,
                           !.xlor = AnsweredRevision(s.localRev, n),
                           !.ticks = TicksLeft(s)]
        IN conn' = [conn EXCEPT ![c] = [t EXCEPT
                      !.phase = IF MustSave(new) THEN "save" ELSE AfterDrain(t)]]
  BY DEF Drain
<1> DEFINE n == Cardinality(pendingOps) + Cardinality(ops) + k
           x == AnsweredRevision(s.localRev, n)
           tk == TicksLeft(s)
           t == [s EXCEPT !.items = ops, !.confirms = pendingOps,
                          !.xlor = x, !.ticks = tk]
           p == IF MustSave(new) THEN "save" ELSE AfterDrain(t)
<1>5. n \in Nat
  BY <1>3
<1>6. x \in Nat
  BY <1>1, <1>5, AnsweredRevisionType DEF Thread
<1>7. tk \in Nat
  BY <1>1 DEF Drain, MayDrain, TicksLeft, Thread
<1>8. p \in Phases
  BY AfterDrainType DEF Phases
<1>9. pendingOps \in SUBSET Confirms
  BY DEF TypeOK
<1> HIDE DEF x, tk, n
<1>10. t \in Thread
  BY <1>1, <1>2, <1>6, <1>7, <1>9 DEF Thread
<1>11. conn' = [conn EXCEPT ![c] = [t EXCEPT !.phase = p]]
  BY <1>4 DEF x, tk, n
<1> HIDE DEF p, t
<1>12. [t EXCEPT !.phase = p] \in Thread
  BY <1>8, <1>10 DEF Thread
<1>13. conn' \in [Conns -> Thread]
  BY <1>11, <1>12 DEF TypeOK
<1>14. QED
  BY <1>2, <1>13 DEF TypeOK, Drain, MustSave, phoneVars, markerVars, faultVars

(* The initial state is well typed.                                         *)
LEMMA TypeInit == Init => TypeOK
<1> USE FetchAssumption
<1> SUFFICES ASSUME Init PROVE TypeOK
  OBVIOUS
<1>1. conn \in [Conns -> Thread] /\ copies \in [Items -> Nat]
  BY IdleType DEF Init
<1>2. loaded \in BOOLEAN /\ torn \in BOOLEAN /\ marker \in BOOLEAN
  BY DEF Init
<1>3. QED
  BY <1>1, <1>2 DEF Init, TypeOK

(* Every variable keeps its type, for any number of connections and items. *)
THEOREM TypeCorrect == Spec => []TypeOK
<1> USE FetchAssumption
<1>2. TypeOK /\ [Next]_vars => TypeOK'
  <2> SUFFICES ASSUME TypeOK, [Next]_vars PROVE TypeOK'
    OBVIOUS
  <2>1. ASSUME NEW i \in Items, PostItem(i) PROVE TypeOK'
    BY <2>1 DEF TypeOK, PostItem, idVars, phoneVars, markerVars, faultVars
  <2>2. ASSUME NEW o \in Confirms, RequestConfirm(o) PROVE TypeOK'
    BY <2>2 DEF TypeOK, RequestConfirm, idVars, phoneVars, markerVars, faultVars
  <2>3. CASE DropMarker
    BY <2>3 DEF TypeOK, DropMarker, queueVars, idVars, phoneVars, faultVars
  <2>4. ASSUME NEW c \in Conns, Poll(c) PROVE TypeOK'
    <3>1. ASSUME NEW p \in Phases, NEW r \in Nat, NEW x \in Nat
          PROVE  [IdleConn EXCEPT !.phase = p, !.localRev = r, !.xlor = x] \in Thread
      BY <3>1, IdleType DEF Thread
    <3>2. conn' \in [Conns -> Thread]
      <4>1. devRev \in Nat /\ "drain" \in Phases /\ "reply" \in Phases
        BY DEF TypeOK, Phases
      <4>2. \A st \in 0..1 : devRev + st \in Nat
        BY <4>1
      <4>3. \E p \in Phases, r \in Nat, x \in Nat :
              conn' = [conn EXCEPT ![c] = [IdleConn EXCEPT
                          !.phase = p, !.localRev = r, !.xlor = x]]
        BY <2>4, <4>1, <4>2, Zenon DEF Poll
      <4>4. PICK t \in Thread : conn' = [conn EXCEPT ![c] = t]
        BY <3>1, <4>3, Zenon
      <4>5. QED
        BY <4>4 DEF TypeOK
    <3>3. marker' \in BOOLEAN /\ resyncs' \in Nat
      <4>1. \/ marker' = marker /\ resyncs' = resyncs
            \/ marker' = FALSE /\ resyncs' = resyncs + 1
        BY <2>4, Zenon DEF Poll
      <4>2. marker \in BOOLEAN /\ resyncs \in Nat
        BY DEF TypeOK
      <4>3. marker' \in BOOLEAN
        BY <4>1, <4>2, Zenon
      <4>4. resyncs' \in Nat
        BY <4>1, <4>2, SMT
      <4>5. QED
        BY <4>3, <4>4
    <3>4. QED
      BY <2>4, <3>2, <3>3 DEF TypeOK, Poll, queueVars, idVars, phoneVars, faultVars
  <2>5. ASSUME NEW c \in Conns, Serve(c) PROVE TypeOK'
    <3>1. conn[c] \in Thread
      BY DEF TypeOK
    <3>2. CASE Drain(c)
      BY <3>2, DrainType
    <3>3. CASE SaveOpen(c)
      BY <3>1, <3>3 DEF TypeOK, SaveOpen, Thread, Phases, queueVars, phoneVars,
                        markerVars, faultVars
    <3>4. CASE SaveWrite(c)
      <4>1. [conn[c] EXCEPT !.phase = AfterDrain(conn[c])] \in Thread
        BY <3>1, AfterDrainType DEF Thread, Phases
      <4>2. QED
        BY <3>4, <4>1 DEF TypeOK, SaveWrite, queueVars, phoneVars, markerVars, faultVars
    <3>4a. CASE SaveFails(c)
      <4>1. [conn[c] EXCEPT !.phase = AfterDrain(conn[c])] \in Thread
        BY <3>1, AfterDrainType DEF Thread, Phases
      <4>2. QED
        BY <3>4a, <4>1 DEF TypeOK, SaveFails, queueVars, phoneVars, markerVars
    <3>5. CASE AcquireHold(c)
      <4>1. ASSUME NEW h \in {"mini", "slot"}, NEW k \in Nat
            PROVE  [conn[c] EXCEPT !.phase = "wait", !.held = h, !.ticks = k] \in Thread
        BY <3>1 DEF Thread, Phases
      <4>2. PICK t \in Thread : conn' = [conn EXCEPT ![c] = t]
        BY <3>5, <4>1 DEF AcquireHold
      <4>3. conn' \in [Conns -> Thread] /\ holding' \in Nat
        BY <3>5, <4>2 DEF TypeOK, AcquireHold
      <4>4. QED
        BY <3>5, <4>3 DEF TypeOK, AcquireHold, queueVars, idVars, phoneVars,
                          markerVars, faultVars
    <3>6. CASE Expire(c)
      BY <3>1, <3>6 DEF TypeOK, Expire, Thread, Phases, queueVars, idVars, phoneVars,
                        markerVars, faultVars
    <3>7. CASE ReleaseHold(c)
      <4>1. [conn[c] EXCEPT !.phase = "reply", !.held = "no"] \in Thread
        BY <3>1 DEF Thread, Phases
      <4>2. conn' \in [Conns -> Thread] /\ holding' \in Nat
        BY <3>7, <4>1 DEF TypeOK, ReleaseHold
      <4>3. QED
        BY <3>7, <4>2 DEF TypeOK, ReleaseHold, queueVars, idVars, phoneVars,
                          markerVars, faultVars
    <3>8. CASE Reply(c)
      <4>1. conn' \in [Conns -> Thread]
        BY <3>8, IdleType DEF TypeOK, Reply
      <4>2. copies' \in [Items -> Nat] /\ devRev' \in Nat /\ confirmed' \subseteq Confirms
        BY <3>1, <3>8 DEF TypeOK, Reply, Thread, phoneVars
      <4>3. QED
        BY <3>8, <4>1, <4>2 DEF TypeOK, Reply, queueVars, idVars, markerVars, faultVars
    <3>9. QED
      BY <2>5, <3>2, <3>3, <3>4, <3>4a, <3>5, <3>6, <3>7, <3>8 DEF Serve
  <2>6. ASSUME NEW c \in Conns, Disconnect(c) PROVE TypeOK'
    <3>1. [conn[c] EXCEPT !.alive = FALSE] \in Thread
      BY DEF TypeOK, Thread
    <3>2. QED
      BY <2>6, <3>1 DEF TypeOK, Disconnect, queueVars, idVars, phoneVars, markerVars
  <2>7. CASE Restart
    <3>1. conn' \in [Conns -> Thread] /\ loaded' \in BOOLEAN
      BY <2>7, IdleType DEF Restart
    <3>2. lapses' \in Nat
      BY <2>7 DEF Restart, TypeOK
    <3>3. unsaved' \in BOOLEAN /\ torn' \in BOOLEAN
      BY <2>7 DEF Restart, TypeOK
    <3>4. QED
      BY <2>7, <3>1, <3>2, <3>3 DEF TypeOK, Restart, phoneVars, markerVars
  <2>8. CASE UNCHANGED vars
    BY <2>8 DEF TypeOK, vars, queueVars, idVars, phoneVars, markerVars, faultVars
  <2>9. QED
    BY <2>1, <2>2, <2>3, <2>4, <2>5, <2>6, <2>7, <2>8 DEF Next
<1>3. QED
  BY TypeInit, <1>2, PTL DEF Spec

(* A thread that only drops what it carries, or saves it, keeps ClaimInv:   *)
(* every step of the fetch handler except Drain, Reply and Restart.         *)
LEMMA ThreadStep ==
    ASSUME TypeOK, ClaimInv, NEW c \in Conns, NEW t,
           conn' = [conn EXCEPT ![c] = t],
           t.items \subseteq conn[c].items,
           t.phase \in {"save", "saving"} => loaded,
           t.phase \notin {"save", "saving"} =>
               unsaved' \/ t.items \subseteq deliveredDisk',
           loaded' = loaded, deliveredMem' = deliveredMem, copies' = copies,
           lapses' = lapses,
           \/ deliveredDisk' = deliveredDisk /\ (unsaved => unsaved')
           \/ deliveredDisk' = deliveredMem
    PROVE  ClaimInv'
<1>1. conn'[c] = t /\ \A d \in Conns \ {c} : conn'[d] = conn[d]
  BY DEF TypeOK
<1>2. \A d \in Conns : conn'[d].items \subseteq conn[d].items
  BY <1>1
<1>3. ASSUME NEW d \in Conns
      PROVE  /\ conn'[d].phase \in {"save", "saving"} => loaded
             /\ conn'[d].items # {} => loaded
             /\ conn'[d].phase \notin {"save", "saving"}
                    => unsaved' \/ conn'[d].items \subseteq deliveredDisk'
  BY <1>1, <1>2 DEF ClaimInv
<1>4. \A d \in Conns : /\ conn'[d].items \subseteq deliveredMem
                       /\ \A i \in conn'[d].items : copies[i] <= lapses
                       /\ \A e \in Conns \ {d} : conn'[d].items \cap conn'[e].items = {}
  BY <1>2 DEF ClaimInv
<1>5. QED
  BY <1>3, <1>4 DEF ClaimInv

(* The wait for the next drain disturbs no claim.                            *)
LEMMA WaitStep ==
    ASSUME MailboxInv, NEW c \in Conns, NEW t,
           conn' = [conn EXCEPT ![c] = t],
           t.items = conn[c].items, t.phase \notin {"save", "saving"},
           conn[c].phase \notin {"save", "saving"},
           UNCHANGED <<idVars, copies, lapses>>
    PROVE  IdsInv' /\ ClaimInv' /\ GotInv'
<1>1. unsaved \/ t.items \subseteq deliveredDisk
  BY DEF MailboxInv, ClaimInv
<1>2. ClaimInv'
  BY <1>1, ThreadStep DEF MailboxInv, idVars
<1>3. QED
  BY <1>2 DEF MailboxInv, IdsInv, GotInv, Delivered, idVars

(* The claim itself: the new ops are nobody else's and the phone has none.  *)
LEMMA DrainClaims ==
    ASSUME MailboxInv, NEW c \in Conns, Drain(c)
    PROVE  IdsInv' /\ ClaimInv' /\ GotInv'
<1> DEFINE new == outbox \ Delivered
           ops == new \ Silent
<1>1. /\ ~torn => deliveredDisk \subseteq Delivered
      /\ \A d \in Conns : conn[d].items \subseteq Delivered
  BY DEF MailboxInv, IdsInv, ClaimInv, Delivered
<1>2. loaded' = TRUE /\ deliveredMem' = Delivered \cup new
      /\ deliveredDisk' = deliveredDisk /\ torn' = torn /\ unsaved' = unsaved
      /\ copies' = copies /\ lapses' = lapses
  BY Zenon DEF Drain, phoneVars, faultVars
<1>3. /\ conn'[c].items = ops
      /\ conn'[c].phase = "save" \/ new = {}
      /\ \A d \in Conns \ {c} : conn'[d] = conn[d]
  <2>1. PICK t : /\ conn' = [conn EXCEPT ![c] = t]
                 /\ t.items = ops
                 /\ t.phase = "save" \/ new = {}
    <3>1. conn[c] \in Thread
      BY DEF MailboxInv, TypeOK
    <3>2. PICK k \in 0..Cardinality(ops) :
            LET n == Cardinality(pendingOps) + Cardinality(ops) + k
                s == conn[c]
                t == [s EXCEPT !.items = ops, !.confirms = pendingOps,
                               !.xlor = AnsweredRevision(s.localRev, n),
                               !.ticks = TicksLeft(s)]
            IN conn' = [conn EXCEPT ![c] = [t EXCEPT
                          !.phase = IF MustSave(new) THEN "save" ELSE AfterDrain(t)]]
      BY DEF Drain
    <3> DEFINE n == Cardinality(pendingOps) + Cardinality(ops) + k
               s == conn[c]
               t == [s EXCEPT !.items = ops, !.confirms = pendingOps,
                              !.xlor = AnsweredRevision(s.localRev, n),
                              !.ticks = TicksLeft(s)]
               u == [t EXCEPT !.phase = IF MustSave(new) THEN "save" ELSE AfterDrain(t)]
    <3>3. conn' = [conn EXCEPT ![c] = u]
      BY <3>2
    <3>4. u.items = ops
      BY <3>1 DEF Thread
    <3>5. u.phase = "save" \/ new = {}
      BY <3>1 DEF Thread, MustSave
    <3> HIDE DEF u
    <3>6. QED
      BY <3>3, <3>4, <3>5
  <2>2. QED
    BY <2>1 DEF MailboxInv, TypeOK
<1>4. \A i \in ops : copies[i] <= lapses
  <2>1. \A i \in ops : i \in Items /\ i \notin Delivered
    BY DEF MailboxInv, TypeOK
  <2>2. \A i \in Items : copies[i] \in Nat /\ lapses \in Nat
    BY DEF MailboxInv, TypeOK
  <2>3. QED
    BY <2>1, <2>2 DEF MailboxInv, GotInv
<1>5. \A d \in Conns \ {c} : conn'[d].items \cap ops = {}
  BY <1>1, <1>3
<1>6. IdsInv'
  BY <1>1, <1>2 DEF MailboxInv, IdsInv
<1>7. GotInv'
  <2>1. Delivered \subseteq Delivered'
    BY <1>2 DEF Delivered
  <2>2. QED
    BY <1>2, <2>1 DEF MailboxInv, GotInv
<1>8. ClaimInv'
  <2>1. ASSUME NEW d \in Conns, d # c
        PROVE  /\ conn'[d].items \subseteq deliveredMem'
               /\ conn'[d].phase \notin {"save", "saving"}
                      => unsaved' \/ conn'[d].items \subseteq deliveredDisk'
               /\ \A i \in conn'[d].items : copies'[i] <= lapses'
               /\ \A e \in Conns \ {d} : conn'[d].items \cap conn'[e].items = {}
    <3>1. conn'[d] = conn[d]
      BY <1>3, <2>1
    <3>2. \A e \in Conns \ {d} : conn'[d].items \cap conn'[e].items = {}
      BY <1>3, <1>5, <2>1, <3>1 DEF MailboxInv, ClaimInv
    <3>3. QED
      BY <1>1, <1>2, <3>1, <3>2 DEF MailboxInv, ClaimInv
  <2>2. /\ conn'[c].items \subseteq deliveredMem'
        /\ conn'[c].phase \notin {"save", "saving"}
               => unsaved' \/ conn'[c].items \subseteq deliveredDisk'
        /\ \A i \in conn'[c].items : copies'[i] <= lapses'
        /\ \A e \in Conns \ {c} : conn'[c].items \cap conn'[e].items = {}
    BY <1>2, <1>3, <1>4, <1>5
  <2>3. QED
    BY <1>2, <2>1, <2>2 DEF ClaimInv
<1>9. QED
  BY <1>6, <1>7, <1>8

(* The answer: what the phone gets was carried by this thread alone.        *)
LEMMA ReplyReceives ==
    ASSUME MailboxInv, NEW c \in Conns, Reply(c)
    PROVE  ClaimInv' /\ GotInv'
<1>1. /\ conn'[c] = IdleConn
      /\ \A d \in Conns \ {c} : conn'[d] = conn[d]
      /\ IdleConn.items = {} /\ IdleConn.phase = "idle"
  BY DEF Reply, MailboxInv, TypeOK, IdleConn
<1>2. /\ loaded' = loaded /\ deliveredMem' = deliveredMem
      /\ deliveredDisk' = deliveredDisk /\ torn' = torn /\ unsaved' = unsaved
      /\ lapses' = lapses
  BY DEF Reply, idVars, faultVars
<1>3. /\ unsaved \/ conn[c].items \subseteq deliveredDisk
      /\ conn[c].items \subseteq deliveredMem
      /\ conn[c].items # {} => loaded
  BY DEF Reply, MailboxInv, ClaimInv
<1>4. \/ copies' = copies
      \/ copies' = [i \in Items |-> IF i \in conn[c].items THEN copies[i] + 1 ELSE copies[i]]
  BY DEF Reply, phoneVars
<1>5. \A i \in Items : \/ copies'[i] = copies[i]
                       \/ /\ i \in conn[c].items /\ copies[i] <= lapses
                          /\ copies'[i] = copies[i] + 1
  BY <1>4 DEF MailboxInv, ClaimInv, TypeOK
<1>6. GotInv'
  <2>1. ASSUME NEW i \in Items
        PROVE  /\ copies'[i] <= 1 + lapses
               /\ copies'[i] > lapses => i \in Delivered /\ (unsaved \/ i \in deliveredDisk)
    <3>1. copies[i] \in Nat /\ lapses \in Nat
      BY DEF MailboxInv, TypeOK
    <3>2. CASE copies'[i] = copies[i]
      BY <3>2 DEF MailboxInv, GotInv
    <3>3. CASE i \in conn[c].items /\ copies[i] <= lapses /\ copies'[i] = copies[i] + 1
      <4>1. i \in Delivered /\ (unsaved \/ i \in deliveredDisk)
        BY <1>3, <3>3 DEF Delivered
      <4>2. QED
        BY <3>1, <3>3, <4>1
    <3>4. QED
      BY <1>5, <3>2, <3>3
  <2>2. Delivered' = Delivered
    BY <1>2 DEF Delivered
  <2>3. QED
    BY <1>2, <2>1, <2>2 DEF GotInv
<1>7. \A d \in Conns \ {c} : \A i \in conn[d].items : copies'[i] <= lapses
  <2>1. \A d \in Conns : conn[d].items \subseteq Items
    BY DEF MailboxInv, TypeOK, Thread
  <2>2. QED
    BY <1>5, <2>1 DEF MailboxInv, ClaimInv
<1>8. ClaimInv'
  BY <1>1, <1>2, <1>7 DEF MailboxInv, ClaimInv
<1>9. QED
  BY <1>6, <1>8

(* The invariant holds whatever saves fail or are cut by a restart.         *)
LEMMA MailboxInvariant == Spec => []MailboxInv
<1>1. Init => MailboxInv
  <2> SUFFICES ASSUME Init PROVE MailboxInv
    OBVIOUS
  <2>1. TypeOK
    BY TypeInit
  <2>2. \A c \in Conns : conn[c].items = {} /\ conn[c].phase = "idle"
    BY DEF Init, IdleConn
  <2>3. QED
    BY <2>1, <2>2 DEF MailboxInv, IdsInv, ClaimInv, GotInv, Init
<1>2. MailboxInv /\ TypeOK' /\ [Next]_vars => MailboxInv'
  <2> SUFFICES ASSUME MailboxInv, TypeOK', [Next]_vars
               PROVE  IdsInv' /\ ClaimInv' /\ GotInv'
    BY DEF MailboxInv
  <2> USE DEF MailboxInv
  <2>1. CASE \/ \E i \in Items : PostItem(i)
             \/ \E o \in Confirms : RequestConfirm(o)
             \/ DropMarker
             \/ UNCHANGED vars
    <3>1. UNCHANGED <<idVars, conn, copies, lapses>>
      BY <2>1 DEF PostItem, RequestConfirm, DropMarker, vars, phoneVars, faultVars
    <3>2. QED
      BY <3>1 DEF IdsInv, ClaimInv, GotInv, Delivered, idVars
  <2>2. ASSUME NEW c \in Conns, Poll(c) \/ Disconnect(c)
        PROVE  IdsInv' /\ ClaimInv' /\ GotInv'
    <3>1. UNCHANGED <<idVars, copies, lapses>>
      BY <2>2 DEF Poll, Disconnect, phoneVars, faultVars
    <3>2. PICK t : /\ conn' = [conn EXCEPT ![c] = t]
                   /\ \/ t.items = {} /\ t.phase \notin {"save", "saving"}
                      \/ t.items = conn[c].items /\ t.phase = conn[c].phase
      <4>1. CASE Poll(c)
        <5>1. \A p, r, x : LET t == [IdleConn EXCEPT !.phase = p, !.localRev = r, !.xlor = x]
                           IN t.items = {} /\ t.phase = p
          BY DEF IdleConn
        <5>2. \E p \in {"drain", "reply"} : \E r, x :
                conn' = [conn EXCEPT ![c] =
                   [IdleConn EXCEPT !.phase = p, !.localRev = r, !.xlor = x]]
          BY <4>1, Zenon DEF Poll
        <5>3. PICK p \in {"drain", "reply"} : \E r, x :
                conn' = [conn EXCEPT ![c] =
                   [IdleConn EXCEPT !.phase = p, !.localRev = r, !.xlor = x]]
          BY <5>2, Zenon
        <5>4. PICK r, x :
                conn' = [conn EXCEPT ![c] =
                   [IdleConn EXCEPT !.phase = p, !.localRev = r, !.xlor = x]]
          BY <5>3, Zenon
        <5> DEFINE u == [IdleConn EXCEPT !.phase = p, !.localRev = r, !.xlor = x]
        <5>5. /\ u.items = {} /\ u.phase = p /\ p \in {"drain", "reply"}
              /\ conn' = [conn EXCEPT ![c] = u]
          BY <5>1, <5>4
        <5> HIDE DEF u
        <5>6. QED
          BY <5>5
      <4>2. CASE Disconnect(c)
        <5> DEFINE u == [conn[c] EXCEPT !.alive = FALSE]
        <5>1. /\ u.items = conn[c].items /\ u.phase = conn[c].phase
              /\ conn' = [conn EXCEPT ![c] = u]
          BY <4>2 DEF Disconnect, TypeOK, Thread
        <5> HIDE DEF u
        <5>2. QED
          BY <5>1
      <4>3. QED
        BY <2>2, <4>1, <4>2
    <3>3. ClaimInv'
      <4>1. /\ t.items \subseteq conn[c].items
            /\ t.phase \in {"save", "saving"} => loaded
            /\ t.phase \notin {"save", "saving"} =>
                  unsaved \/ t.items \subseteq deliveredDisk
        BY <3>2 DEF ClaimInv
      <4>2. QED
        BY <3>1, <3>2, <4>1, ThreadStep DEF idVars
    <3>4. QED
      BY <3>1, <3>3 DEF IdsInv, GotInv, Delivered, idVars
  <2>3. ASSUME NEW c \in Conns, Serve(c)
        PROVE  IdsInv' /\ ClaimInv' /\ GotInv'
    <3>1. CASE Drain(c)
      BY <3>1, DrainClaims
    <3>2. CASE SaveOpen(c)
      <4> DEFINE t == [conn[c] EXCEPT !.phase = "saving"]
      <4>1. /\ conn' = [conn EXCEPT ![c] = t]
            /\ t.items = conn[c].items /\ t.phase = "saving"
        BY <3>2 DEF SaveOpen, TypeOK, Thread
      <4> HIDE DEF t
      <4>2. /\ UNCHANGED <<loaded, deliveredMem, deliveredDisk, unsaved, copies, lapses>>
            /\ loaded /\ torn'
        BY <3>2 DEF SaveOpen, phoneVars, faultVars, ClaimInv
      <4>3. ClaimInv'
        BY <4>1, <4>2, ThreadStep
      <4>4. QED
        BY <4>2, <4>3 DEF IdsInv, GotInv, Delivered
    <3>3. CASE SaveWrite(c)
      <4> DEFINE t == [conn[c] EXCEPT !.phase = AfterDrain(conn[c])]
      <4>1. /\ conn' = [conn EXCEPT ![c] = t] /\ t.items = conn[c].items
            /\ t.phase \notin {"save", "saving"}
        BY <3>3, AfterDrainType DEF SaveWrite, TypeOK, Thread
      <4> HIDE DEF t
      <4>2. /\ UNCHANGED <<loaded, deliveredMem, copies, lapses>>
            /\ deliveredDisk' = deliveredMem /\ unsaved' = FALSE /\ loaded
        BY <3>3 DEF SaveWrite, phoneVars, faultVars, ClaimInv
      <4>3. t.items \subseteq deliveredDisk'
        BY <4>1, <4>2 DEF ClaimInv
      <4>4. ClaimInv'
        BY <4>1, <4>2, <4>3, ThreadStep
      <4>5. QED
        BY <4>2, <4>3, <4>4 DEF IdsInv, GotInv, Delivered
    <3>3a. CASE SaveFails(c)
      <4> DEFINE t == [conn[c] EXCEPT !.phase = AfterDrain(conn[c])]
      <4>1. /\ conn' = [conn EXCEPT ![c] = t] /\ t.items = conn[c].items
            /\ t.phase \notin {"save", "saving"}
        BY <3>3a, AfterDrainType DEF SaveFails, TypeOK, Thread
      <4> HIDE DEF t
      <4>2. /\ UNCHANGED <<loaded, deliveredMem, deliveredDisk, torn, copies, lapses>>
            /\ unsaved' = TRUE /\ loaded
        BY <3>3a DEF SaveFails, phoneVars, ClaimInv
      <4>3. ClaimInv'
        BY <4>1, <4>2, ThreadStep
      <4>4. QED
        BY <4>2, <4>3 DEF IdsInv, GotInv, Delivered
    <3>4. CASE AcquireHold(c)
      <4>1. ASSUME NEW h \in {"slot", "mini"}, NEW k \in Nat,
                   conn' = [conn EXCEPT ![c] =
                      [@ EXCEPT !.phase = "wait", !.held = h, !.ticks = k]]
            PROVE  IdsInv' /\ ClaimInv' /\ GotInv'
        <5> DEFINE t == [conn[c] EXCEPT !.phase = "wait", !.held = h, !.ticks = k]
        <5>1. t.items = conn[c].items /\ t.phase = "wait"
          BY DEF TypeOK, Thread
        <5>2. conn' = [conn EXCEPT ![c] = t]
          BY <4>1
        <5> HIDE DEF t
        <5>3. QED
          BY <3>4, <5>1, <5>2, WaitStep DEF AcquireHold, phoneVars, faultVars
      <4>2. QED
        BY <3>4, <4>1, FetchAssumption DEF AcquireHold
    <3>5. CASE Expire(c)
      <4> DEFINE p == IF conn[c].held = "slot" THEN "release" ELSE "reply"
                 t == [conn[c] EXCEPT !.phase = p]
      <4>1. t.items = conn[c].items /\ t.phase \in {"release", "reply"}
        BY DEF TypeOK, Thread
      <4>2. conn' = [conn EXCEPT ![c] = t]
        BY <3>5 DEF Expire
      <4> HIDE DEF t
      <4>3. QED
        BY <3>5, <4>1, <4>2, WaitStep DEF Expire, phoneVars, faultVars
    <3>6. CASE ReleaseHold(c)
      <4> DEFINE t == [conn[c] EXCEPT !.phase = "reply", !.held = "no"]
      <4>1. t.items = conn[c].items /\ t.phase = "reply"
        BY DEF TypeOK, Thread
      <4>2. conn' = [conn EXCEPT ![c] = t]
        BY <3>6 DEF ReleaseHold
      <4> HIDE DEF t
      <4>3. QED
        BY <3>6, <4>1, <4>2, WaitStep DEF ReleaseHold, phoneVars, faultVars
    <3>7. CASE Reply(c)
      BY <3>7, ReplyReceives DEF Reply, idVars, IdsInv
    <3>8. QED
      BY <2>3, <3>1, <3>2, <3>3, <3>3a, <3>4, <3>5, <3>6, <3>7 DEF Serve
  <2>4. CASE Restart
    <3>1. \A c \in Conns : conn'[c].items = {} /\ conn'[c].phase = "idle"
      BY <2>4 DEF Restart, IdleConn
    <3>2. IdsInv' /\ ClaimInv'
      BY <2>4, <3>1 DEF Restart, IdsInv, ClaimInv
    <3>3. ASSUME NEW i \in Items
          PROVE  /\ copies'[i] <= 1 + lapses'
                 /\ copies'[i] > lapses' =>
                       i \in Delivered' /\ (unsaved' \/ i \in deliveredDisk')
      <4>1. /\ copies' = copies /\ loaded' = FALSE /\ unsaved' = FALSE
            /\ deliveredDisk' = deliveredDisk /\ torn' = torn
            /\ lapses' = IF loaded /\ (torn \/ unsaved) THEN lapses + 1 ELSE lapses
        BY <2>4 DEF Restart, phoneVars
      <4>2. copies[i] \in Nat /\ lapses \in Nat
        BY DEF TypeOK
      <4>3. /\ copies[i] <= 1 + lapses
            /\ copies[i] > lapses => i \in Delivered /\ (unsaved \/ i \in deliveredDisk)
        BY DEF GotInv
      <4>4. CASE loaded /\ (torn \/ unsaved)
        BY <4>1, <4>2, <4>3, <4>4
      <4>5. CASE ~(loaded /\ (torn \/ unsaved))
        <5>1. i \in Delivered /\ (unsaved \/ i \in deliveredDisk) =>
                 i \in Delivered' /\ i \in deliveredDisk'
          BY <4>1, <4>5 DEF IdsInv, Delivered
        <5>2. QED
          BY <4>1, <4>3, <4>5, <5>1
      <4>6. QED
        BY <4>4, <4>5
    <3>4. QED
      BY <3>2, <3>3 DEF GotInv
  <2>5. QED
    BY <2>1, <2>2, <2>3, <2>4 DEF Next
<1>3. QED
  BY <1>1, <1>2, TypeCorrect, PTL DEF Spec

(* No item reaches the phone more often than once and once more per restart *)
(* that lost the ids, whatever connections are lost and whatever saves fail *)
(* or are cut.                                                              *)
THEOREM NeverTwice == Spec => []AtMostOnce
<1>1. MailboxInv => AtMostOnce
  BY DEF MailboxInv, GotInv, AtMostOnce
<1>2. QED
  BY <1>1, MailboxInvariant, PTL

(* What is answered, or about to be, was on disk before, unless the last    *)
(* write failed.                                                            *)
THEOREM AnswersAreSaved == Spec => []SavedBeforeAnswer
<1>1. MailboxInv => SavedBeforeAnswer
  BY DEF MailboxInv, GotInv, ClaimInv, SavedBeforeAnswer
<1>2. QED
  BY <1>1, MailboxInvariant, PTL

(* The proxy implements the mailbox: a post, a claim, a claim forgotten by  *)
(* a restart before it was saved, a lapse, a receipt; every other step      *)
(* stutters.                                                                *)
THEOREM ProxyIsMailbox == Spec => ImplementsMailbox
<1>1. Init => MB!Init
  BY DEF Init, MB!Init, Delivered
<1>2. MailboxInv /\ TypeOK' /\ [Next]_vars => [MB!Next]_(MB!mvars)
  <2> SUFFICES ASSUME MailboxInv, TypeOK', [Next]_vars
               PROVE  MB!Next \/ UNCHANGED MB!mvars
    OBVIOUS
  <2>1. ASSUME NEW i \in Items, PostItem(i) PROVE MB!Next
    <3>1. MB!Post(i)
      BY <2>1 DEF PostItem, idVars, phoneVars, faultVars, MB!Post, Delivered
    <3>2. QED
      BY <3>1 DEF MB!Next
  <2>2. CASE \/ \E o \in Confirms : RequestConfirm(o)
             \/ DropMarker
             \/ \E c \in Conns : Poll(c) \/ Disconnect(c) \/ AcquireHold(c)
                                 \/ Expire(c) \/ ReleaseHold(c)
             \/ UNCHANGED vars
    <3>1. UNCHANGED <<outbox, idVars, copies, lapses>>
      BY <2>2 DEF RequestConfirm, DropMarker, Poll, Disconnect, AcquireHold, Expire,
                  ReleaseHold, vars, queueVars, phoneVars, faultVars
    <3>2. QED
      BY <3>1 DEF idVars, MB!mvars, Delivered
  <2>3. ASSUME NEW c \in Conns, Drain(c) PROVE MB!Next
    <3>1. /\ loaded' = TRUE /\ deliveredMem' = Delivered \cup (outbox \ Delivered)
          /\ outbox' = outbox /\ copies' = copies /\ lapses' = lapses
      BY <2>3, Zenon DEF Drain, phoneVars, faultVars
    <3>2. MB!Take(outbox \ Delivered)
      BY <3>1 DEF MB!Take, Delivered
    <3>3. outbox \ Delivered \in SUBSET Items
      BY DEF MailboxInv, TypeOK
    <3>4. QED
      BY <3>2, <3>3 DEF MB!Next
  <2>4. ASSUME NEW c \in Conns, SaveOpen(c) \/ SaveWrite(c) \/ SaveFails(c)
        PROVE  UNCHANGED MB!mvars
    <3>1. UNCHANGED <<outbox, loaded, deliveredMem, copies, lapses>> /\ loaded
      BY <2>4 DEF SaveOpen, SaveWrite, SaveFails, queueVars, phoneVars, faultVars,
                  MailboxInv, ClaimInv
    <3>2. QED
      BY <3>1 DEF MB!mvars, Delivered
  <2>5. ASSUME NEW c \in Conns, Reply(c) PROVE MB!Next \/ UNCHANGED MB!mvars
    <3>1. UNCHANGED <<outbox, idVars, lapses>> /\ Delivered' = Delivered
      BY <2>5 DEF Reply, queueVars, idVars, faultVars, Delivered
    <3>2. CASE copies' = copies
      BY <3>1, <3>2 DEF MB!mvars
    <3>3. CASE copies' = [i \in Items |-> IF i \in conn[c].items THEN copies[i] + 1
                                                               ELSE copies[i]]
      <4>1. /\ conn[c].items \in SUBSET Items
            /\ conn[c].items \subseteq Delivered
            /\ \A i \in conn[c].items : ~(copies[i] > lapses)
        <5>1. \A i \in Items : copies[i] \in Nat /\ lapses \in Nat
          BY DEF MailboxInv, TypeOK
        <5>2. conn[c].items \in SUBSET Items
          BY DEF MailboxInv, TypeOK, Thread
        <5>3. QED
          BY <5>1, <5>2 DEF MailboxInv, ClaimInv, Delivered
      <4>3. MB!Receive(conn[c].items)
        BY <3>1, <3>3, <4>1 DEF MB!Receive, MB!Received
      <4>4. QED
        BY <4>1, <4>3 DEF MB!Next
    <3>4. QED
      BY <2>5, <3>2, <3>3 DEF Reply, phoneVars
  <2>6. ASSUME Restart PROVE MB!Next
    <3>1. /\ outbox' = outbox /\ copies' = copies /\ loaded' = FALSE
          /\ torn' = torn /\ deliveredDisk' = deliveredDisk
          /\ lapses' = IF loaded /\ (torn \/ unsaved) THEN lapses + 1 ELSE lapses
      BY <2>6 DEF Restart, phoneVars
    <3> DEFINE S == Delivered \ Delivered'
    <3>2. S \in SUBSET Items
      BY DEF MailboxInv, TypeOK, Delivered
    <3>3. Delivered' = Delivered \ S
      BY <3>1 DEF MailboxInv, IdsInv, Delivered
    <3>4. CASE loaded /\ (torn \/ unsaved)
      <4>1. MB!Lapse(S)
        BY <3>1, <3>3, <3>4 DEF MB!Lapse
      <4> HIDE DEF S
      <4>2. QED
        BY <3>2, <4>1 DEF MB!Next
    <3>5. CASE ~(loaded /\ (torn \/ unsaved))
      <4>1. \A i \in S : ~(copies[i] > lapses)
        <5>1. \A i \in S : i \in Items /\ i \in Delivered /\ i \notin deliveredDisk
          BY <3>1, <3>2, <3>5 DEF Delivered
        <5>2. ~unsaved
          BY <3>5 DEF MailboxInv, IdsInv
        <5>3. QED
          BY <5>1, <5>2 DEF MailboxInv, GotInv
      <4>2. MB!Untake(S)
        BY <3>1, <3>3, <3>5, <4>1 DEF MB!Untake, MB!Received
      <4> HIDE DEF S
      <4>3. QED
        BY <3>2, <4>2 DEF MB!Next
    <3>6. QED
      BY <3>4, <3>5
  <2>7. QED
    BY <2>1, <2>2, <2>3, <2>4, <2>5, <2>6 DEF Next, Serve
<1>3. QED
  BY <1>1, <1>2, TypeCorrect, MailboxInvariant, PTL DEF Spec, ImplementsMailbox, MB!Spec

-----------------------------------------------------------------------------
(* The threads that hold a slot.                                            *)
Holders == {c \in Conns : conn[c].held = "slot"}

(* Where a thread may hold a slot: never before it waits nor once it        *)
(* answers, and always when it is about to give one back.                   *)
Placed(s) ==
    /\ s.phase \in {"idle", "drain", "hold", "reply"} => s.held # "slot"
    /\ s.phase = "release" => s.held = "slot"

HoldInv ==
    /\ \A c \in Conns : Placed(conn[c])
    /\ IsFiniteSet(Holders)
    /\ holding = Cardinality(Holders) /\ holding <= MaxHold

(* A step of one thread that neither takes nor gives back a slot.           *)
LEMMA SameHolders ==
    ASSUME TypeOK, HoldInv, NEW c \in Conns, NEW t,
           conn' = [conn EXCEPT ![c] = t],
           (t.held = "slot") <=> (conn[c].held = "slot"),
           Placed(t), holding' = holding
    PROVE  HoldInv'
<1>1. conn'[c] = t /\ \A d \in Conns \ {c} : conn'[d] = conn[d]
  BY DEF TypeOK
<1>2. Holders' = Holders
  BY <1>1 DEF Holders
<1>3. \A d \in Conns : Placed(conn'[d])
  BY <1>1 DEF HoldInv
<1>4. QED
  BY <1>2, <1>3 DEF HoldInv, Placed

(* After a drain a thread with a slot waits on or is about to give it back. *)
LEMMA AfterDrainPlaced ==
    ASSUME NEW s \in Thread
    PROVE  Placed([s EXCEPT !.phase = AfterDrain(s)])
BY DEF Placed, AfterDrain, Thread

(* A drain leaves the slot of its thread alone.                             *)
LEMMA DrainHolds ==
    ASSUME TypeOK, HoldInv, NEW c \in Conns, Drain(c)
    PROVE  HoldInv'
<1> DEFINE s == conn[c]
           new == outbox \ Delivered
           ops == new \ Silent
<1>1. s \in Thread /\ Placed(s)
  BY DEF TypeOK, HoldInv
<1>2. PICK k \in 0..Cardinality(ops) :
        LET n == Cardinality(pendingOps) + Cardinality(ops) + k
            t == [s EXCEPT !.items = ops, !.confirms = pendingOps,
                           !.xlor = AnsweredRevision(s.localRev, n),
                           !.ticks = TicksLeft(s)]
        IN conn' = [conn EXCEPT ![c] = [t EXCEPT
                      !.phase = IF MustSave(new) THEN "save" ELSE AfterDrain(t)]]
  BY DEF Drain
<1> DEFINE n == Cardinality(pendingOps) + Cardinality(ops) + k
           x == AnsweredRevision(s.localRev, n)
           tk == TicksLeft(s)
           t == [s EXCEPT !.items = ops, !.confirms = pendingOps, !.xlor = x, !.ticks = tk]
           p == IF MustSave(new) THEN "save" ELSE AfterDrain(t)
           u == [t EXCEPT !.phase = p]
<1>3. conn' = [conn EXCEPT ![c] = u]
  BY <1>2
<1> HIDE DEF x, tk, n
<1>4. t.held = s.held
  BY <1>1 DEF Thread
<1>5. AfterDrain(t) \in {"release", "reply", "hold", "wait"}
      /\ (AfterDrain(t) \in {"hold", "reply"} => t.held # "slot")
      /\ (AfterDrain(t) = "release" => t.held = "slot")
  BY DEF AfterDrain
<1>6. u.held = s.held /\ u.phase = p
  BY <1>1 DEF Thread
<1> HIDE DEF t
<1>7. Placed(u)
  BY <1>4, <1>5, <1>6 DEF Placed
<1> HIDE DEF u
<1>8. QED
  BY <1>3, <1>6, <1>7, SameHolders DEF Drain

(* The counter is the number of slots held and never passes the limit, for  *)
(* any number of connections and whatever is lost or restarted.             *)
THEOREM SlotsAccounted == Spec => []HoldAccounting
<1> USE FetchAssumption
<1>1. Init => HoldInv
  <2> SUFFICES ASSUME Init PROVE HoldInv
    OBVIOUS
  <2>1. \A c \in Conns : conn[c].held = "no" /\ conn[c].phase = "idle"
    BY DEF Init, IdleConn
  <2>2. Holders = {}
    BY <2>1 DEF Holders
  <2>3. QED
    BY <2>1, <2>2, FS_EmptySet DEF HoldInv, Placed, Init
<1>2. TypeOK /\ HoldInv /\ [Next]_vars => HoldInv'
  <2> SUFFICES ASSUME TypeOK, HoldInv, [Next]_vars PROVE HoldInv'
    OBVIOUS
  <2>1. CASE \/ \E i \in Items : PostItem(i)
             \/ \E o \in Confirms : RequestConfirm(o)
             \/ DropMarker
             \/ UNCHANGED vars
    <3>1. UNCHANGED <<conn, holding>>
      BY <2>1 DEF PostItem, RequestConfirm, DropMarker, vars
    <3>2. QED
      BY <3>1 DEF HoldInv, Holders, Placed
  <2>2. ASSUME NEW c \in Conns, Poll(c) PROVE HoldInv'
    <3>1. \E p \in {"drain", "reply"} : \E r, x :
            conn' = [conn EXCEPT ![c] =
               [IdleConn EXCEPT !.phase = p, !.localRev = r, !.xlor = x]]
      BY <2>2, Zenon DEF Poll
    <3>2. PICK p \in {"drain", "reply"} : \E r, x :
            conn' = [conn EXCEPT ![c] =
               [IdleConn EXCEPT !.phase = p, !.localRev = r, !.xlor = x]]
      BY <3>1, Zenon
    <3>2a. PICK r, x :
            conn' = [conn EXCEPT ![c] =
               [IdleConn EXCEPT !.phase = p, !.localRev = r, !.xlor = x]]
      BY <3>2, Zenon
    <3> DEFINE u == [IdleConn EXCEPT !.phase = p, !.localRev = r, !.xlor = x]
    <3>3. u.held = "no" /\ u.phase = p /\ conn' = [conn EXCEPT ![c] = u]
      BY <3>2a DEF IdleConn
    <3>4. conn[c].held # "slot"
      BY <2>2 DEF Poll, Busy, HoldInv, Placed
    <3> HIDE DEF u
    <3>5. Placed(u)
      BY <3>3 DEF Placed
    <3>6. QED
      BY <2>2, <3>3, <3>4, <3>5, SameHolders DEF Poll
  <2>3. ASSUME NEW c \in Conns, Disconnect(c) PROVE HoldInv'
    <3> DEFINE u == [conn[c] EXCEPT !.alive = FALSE]
    <3>1. u.held = conn[c].held /\ u.phase = conn[c].phase /\ conn' = [conn EXCEPT ![c] = u]
      BY <2>3 DEF Disconnect, TypeOK, Thread
    <3> HIDE DEF u
    <3>2. Placed(u)
      BY <3>1 DEF Placed, HoldInv
    <3>3. QED
      BY <2>3, <3>1, <3>2, SameHolders DEF Disconnect
  <2>4. ASSUME NEW c \in Conns, Serve(c) PROVE HoldInv'
    <3>1. conn[c] \in Thread /\ Placed(conn[c])
      BY DEF TypeOK, HoldInv
    <3>2. CASE Drain(c)
      BY <3>2, DrainHolds
    <3>3. CASE SaveOpen(c) \/ SaveWrite(c) \/ SaveFails(c) \/ Expire(c)
      <4>1. PICK p : /\ conn' = [conn EXCEPT ![c].phase = p]
                     /\ Placed([conn[c] EXCEPT !.phase = p])
        <5>1. Placed([conn[c] EXCEPT !.phase = "saving"])
          BY <3>1 DEF Placed, Thread
        <5>2. Placed([conn[c] EXCEPT !.phase = AfterDrain(conn[c])])
          BY <3>1, AfterDrainPlaced
        <5>3. Placed([conn[c] EXCEPT !.phase =
                         IF conn[c].held = "slot" THEN "release" ELSE "reply"])
          BY <3>1 DEF Placed, Thread
        <5>4. QED
          BY <3>3, <5>1, <5>2, <5>3, Zenon DEF SaveOpen, SaveWrite, SaveFails, Expire
      <4> DEFINE u == [conn[c] EXCEPT !.phase = p]
      <4>2. conn' = [conn EXCEPT ![c] = u] /\ u.held = conn[c].held /\ Placed(u)
        BY <3>1, <4>1 DEF Thread
      <4>3. holding' = holding
        BY <3>3 DEF SaveOpen, SaveWrite, SaveFails, Expire
      <4> HIDE DEF u
      <4>4. QED
        BY <4>2, <4>3, SameHolders
    <3>4. CASE AcquireHold(c)
      <4>1. conn[c].held # "slot" /\ c \notin Holders
        BY <3>1, <3>4 DEF AcquireHold, Placed, Holders
      <4>2. CASE /\ holding < MaxHold /\ holding' = holding + 1
                 /\ conn' = [conn EXCEPT ![c] = [@ EXCEPT !.phase = "wait", !.held = "slot",
                                                          !.ticks = HoldTicks]]
        <5> DEFINE u == [conn[c] EXCEPT !.phase = "wait", !.held = "slot", !.ticks = HoldTicks]
        <5>1. u.held = "slot" /\ u.phase = "wait" /\ conn' = [conn EXCEPT ![c] = u]
          BY <3>1, <4>2 DEF Thread
        <5> HIDE DEF u
        <5>2. conn'[c] = u /\ \A d \in Conns \ {c} : conn'[d] = conn[d]
          BY <5>1 DEF TypeOK
        <5>3. Holders' = Holders \cup {c}
          BY <5>1, <5>2 DEF Holders
        <5>4. IsFiniteSet(Holders') /\ Cardinality(Holders') = Cardinality(Holders) + 1
          BY <4>1, <5>3, FS_AddElement DEF HoldInv
        <5>5. \A d \in Conns : Placed(conn'[d])
          BY <5>1, <5>2 DEF HoldInv, Placed
        <5>6. holding' = Cardinality(Holders') /\ holding' <= MaxHold
          BY <4>2, <5>4 DEF HoldInv, TypeOK
        <5>7. QED
          BY <5>4, <5>5, <5>6 DEF HoldInv, Placed
      <4>3. CASE /\ holding >= MaxHold /\ holding' = holding
                 /\ conn' = [conn EXCEPT ![c] = [@ EXCEPT !.phase = "wait", !.held = "mini",
                                                          !.ticks = MiniTicks]]
        <5> DEFINE u == [conn[c] EXCEPT !.phase = "wait", !.held = "mini", !.ticks = MiniTicks]
        <5>1. u.held = "mini" /\ u.phase = "wait" /\ conn' = [conn EXCEPT ![c] = u]
          BY <3>1, <4>3 DEF Thread
        <5> HIDE DEF u
        <5>2. Placed(u)
          BY <5>1 DEF Placed
        <5>3. QED
          BY <4>1, <4>3, <5>1, <5>2, SameHolders
      <4>4. QED
        BY <3>4, <4>2, <4>3, Zenon DEF AcquireHold
    <3>5. CASE ReleaseHold(c)
      <4> DEFINE u == [conn[c] EXCEPT !.phase = "reply", !.held = "no"]
      <4>1. u.held = "no" /\ u.phase = "reply" /\ conn' = [conn EXCEPT ![c] = u]
        BY <3>1, <3>5 DEF ReleaseHold, Thread
      <4> HIDE DEF u
      <4>2. conn'[c] = u /\ \A d \in Conns \ {c} : conn'[d] = conn[d]
        BY <4>1 DEF TypeOK
      <4>3. c \in Holders
        BY <3>1, <3>5 DEF ReleaseHold, Placed, Holders
      <4>4. Holders' = Holders \ {c}
        BY <4>1, <4>2 DEF Holders
      <4>5. IsFiniteSet(Holders') /\ Cardinality(Holders') = Cardinality(Holders) - 1
        BY <4>3, <4>4, FS_RemoveElement DEF HoldInv
      <4>6. Cardinality(Holders) # 0
        BY <4>3, FS_EmptySet DEF HoldInv
      <4>7. holding' = Cardinality(Holders') /\ holding' <= MaxHold
        BY <3>5, <4>5, <4>6 DEF ReleaseHold, HoldInv, TypeOK
      <4>8. \A d \in Conns : Placed(conn'[d])
        BY <4>1, <4>2 DEF HoldInv, Placed
      <4>9. QED
        BY <4>5, <4>7, <4>8 DEF HoldInv, Placed
    <3>6. CASE Reply(c)
      <4>1. conn[c].held # "slot" /\ conn' = [conn EXCEPT ![c] = IdleConn] /\ holding' = holding
        BY <3>1, <3>6 DEF Reply, Placed
      <4>2. IdleConn.held = "no" /\ Placed(IdleConn)
        BY DEF IdleConn, Placed
      <4>3. QED
        BY <4>1, <4>2, SameHolders
    <3>7. QED
      BY <2>4, <3>2, <3>3, <3>4, <3>5, <3>6 DEF Serve
  <2>5. CASE Restart
    <3>1. \A c \in Conns : conn'[c].held = "no" /\ conn'[c].phase = "idle"
      BY <2>5 DEF Restart, IdleConn
    <3>2. Holders' = {} /\ holding' = 0
      BY <2>5, <3>1 DEF Holders, Restart
    <3>3. QED
      BY <3>1, <3>2, FS_EmptySet DEF HoldInv, Placed
  <2>6. QED
    BY <2>1, <2>2, <2>3, <2>4, <2>5 DEF Next
<1>3. HoldInv => HoldAccounting
  BY DEF HoldInv, Holders, HoldAccounting
<1>4. QED
  BY <1>1, <1>2, <1>3, TypeCorrect, PTL DEF Spec
=============================================================================

-------------------------- MODULE InboundSyncProofs --------------------------
(***************************************************************************)
(* Proofs about InboundSync, for any operations, restarts and sync limit:   *)
(* types, that no restart loses an operation of others, that the phone's    *)
(* own messages do not come back to it, and that messages and receipts      *)
(* reach the outbox as the module Relay promises.  What the recursive       *)
(* functions of AppendNew and Passing compute is proved by induction on the *)
(* place in the sequence (CountUp).                                         *)
(***************************************************************************)
EXTENDS InboundSync, TLAPS, WellFoundedInduction

Injective(s) == \A i, k \in 1..Len(s) : s[i] = s[k] => i = k

-----------------------------------------------------------------------------
(* Every nonempty set of numbers has a least one, so induction holds.        *)
LEMMA LeastNumber ==
    ASSUME NEW T \in SUBSET Nat, T # {}
    PROVE  \E n \in T : \A m \in T : ~(m < n)
<1>1. PICK n \in T : \A m \in T : ~(<<m, n>> \in OpToRel(<, Nat))
  BY WFMin, NatLessThanWellFounded
<1>2. \A m \in T : m < n => <<m, n>> \in OpToRel(<, Nat)
  BY DEF OpToRel
<1>3. QED
  BY <1>1, <1>2

(* A set of numbers with 0 and every successor holds all of them.            *)
LEMMA CountUp ==
    ASSUME NEW S, 0 \in S, \A n \in Nat : n \in S => n + 1 \in S
    PROVE  \A n \in Nat : n \in S
<1> DEFINE T == {n \in Nat : n \notin S}
<1>1. SUFFICES ASSUME T # {} PROVE FALSE
  OBVIOUS
<1>2. PICK n \in T : \A m \in T : ~(m < n)
  BY <1>1, LeastNumber
<1>3. n - 1 \in Nat /\ n - 1 < n /\ (n - 1) + 1 = n
  OBVIOUS
<1>4. n - 1 \in S
  BY <1>2, <1>3
<1>5. QED
  BY <1>3, <1>4

(* A sequence and one element more.                                          *)
LEMMA AppendParts ==
    ASSUME NEW a \in Seq(Ops), NEW u \in Ops
    PROVE  /\ Append(a, u) \in Seq(Ops)
           /\ Len(Append(a, u)) = Len(a) + 1 /\ Len(a) \in Nat
           /\ \A i \in 1..Len(a) : Append(a, u)[i] = a[i]
           /\ Append(a, u)[Len(a) + 1] = u
OBVIOUS

(* Its elements.                                                             *)
LEMMA AppendHas ==
    ASSUME NEW a \in Seq(Ops), NEW u \in Ops
    PROVE  \A o : Contains(Append(a, u), o) <=> Contains(a, o) \/ o = u
BY AppendParts DEF Contains

(* The first element of a sequence and the others.                           *)
LEMMA HeadTail ==
    ASSUME NEW a \in Seq(Ops), a # <<>>
    PROVE  /\ Head(a) = a[1] /\ Head(a) \in Ops /\ 1 \in 1..Len(a)
           /\ Tail(a) \in Seq(Ops) /\ Len(Tail(a)) = Len(a) - 1
           /\ \A i \in 1..Len(Tail(a)) : i + 1 \in 1..Len(a) /\ Tail(a)[i] = a[i + 1]
           /\ \A o : Contains(a, o) <=> o = Head(a) \/ Contains(Tail(a), o)
<1>1. /\ Head(a) = a[1] /\ Head(a) \in Ops /\ 1 \in 1..Len(a)
      /\ Tail(a) \in Seq(Ops) /\ Len(Tail(a)) = Len(a) - 1
      /\ \A i \in 1..Len(Tail(a)) : i + 1 \in 1..Len(a) /\ Tail(a)[i] = a[i + 1]
  OBVIOUS
<1>2. \A k \in 1..Len(a) : k = 1 \/ (k - 1 \in 1..Len(Tail(a)) /\ Tail(a)[k - 1] = a[k])
  BY <1>1
<1> DEFINE h == Head(a)  t == Tail(a)
<1> HIDE DEF h, t
<1>3. \A o : Contains(a, o) <=> o = h \/ Contains(t, o)
  BY <1>1, <1>2 DEF Contains, h, t
<1>4. QED
  BY <1>1, <1>3 DEF h, t

(* The elements of a sequence, as a set.                                     *)
LEMMA Elements ==
    ASSUME NEW s \in Seq(Ops), NEW o
    PROVE  o \in ToSet(s) <=> Contains(s, o)
BY DEF ToSet, Contains

(* A longer sequence still contains what it did.                             *)
LEMMA StillHas ==
    ASSUME NEW s \in Seq(Ops), NEW u \in Ops, NEW t, t = s \/ t = Append(s, u), NEW o, Contains(s, o)
    PROVE  Contains(t, o)
<1>1. Contains(Append(s, u), o)
  BY AppendHas
<1>2. QED
  BY <1>1

-----------------------------------------------------------------------------
\* One step of the recursion in AppendNew.
Boxing(items, box, n) ==
    IF n = 0 THEN outbox
    ELSE IF items[n] \in cut \/ Contains(box[n - 1], items[n]) THEN box[n - 1]
         ELSE Append(box[n - 1], items[n])

(* The recursion has a solution.                                             *)
LEMMA BoxExists ==
    ASSUME NEW s \in Seq(Ops)
    PROVE  \E f : f = [n \in 0..Len(s) |-> Boxing(s, f, n)]
<1> DEFINE E == {m \in Nat : m <= Len(s) => \E f : f = [n \in 0..m |-> Boxing(s, f, n)]}
<1>1. 0 \in E
  <2> DEFINE f == [n \in 0..0 |-> outbox]
  <2>1. f = [n \in 0..0 |-> Boxing(s, f, n)]
    BY DEF Boxing
  <2>2. QED
    BY <2>1
<1>2. ASSUME NEW m \in Nat, m \in E PROVE m + 1 \in E
  <2>1. SUFFICES ASSUME m + 1 <= Len(s)
                 PROVE  \E f : f = [n \in 0..(m + 1) |-> Boxing(s, f, n)]
    OBVIOUS
  <2>2. PICK f : f = [n \in 0..m |-> Boxing(s, f, n)]
    BY <1>2, <2>1
  <2> DEFINE g == [n \in 0..(m + 1) |-> IF n = m + 1 THEN Boxing(s, f, n) ELSE f[n]]
  <2>3. ASSUME NEW n \in 0..(m + 1) PROVE g[n] = Boxing(s, g, n)
    <3>1. g[n] = Boxing(s, f, n)
      BY <2>2
    <3>2. CASE n = 0
      BY <3>1, <3>2 DEF Boxing
    <3>3. CASE n # 0
      <4>1. n - 1 \in 0..m /\ n - 1 # m + 1 /\ n - 1 \in 0..(m + 1)
        BY <3>3
      <4>2. g[n - 1] = f[n - 1]
        BY <4>1
      <4>3. QED
        BY <3>1, <4>2 DEF Boxing
    <3>4. QED
      BY <3>2, <3>3
  <2>4. g = [n \in 0..(m + 1) |-> Boxing(s, g, n)]
    BY <2>3
  <2>5. QED
    BY <2>4
<1> HIDE DEF E
<1>3. Len(s) \in E
  BY <1>1, <1>2, CountUp
<1>4. QED
  BY <1>3 DEF E

\* What AppendNew has done after the first n items: the outbox goes on, nothing
\* is in it twice, and the new ones stand in the order of the items.
Boxed(items, n, r) ==
    /\ r \in Seq(Ops) /\ Injective(r)
    /\ Len(outbox) <= Len(r) /\ \A i \in 1..Len(outbox) : r[i] = outbox[i]
    /\ \A i \in 1..n : items[i] \in cut \/ Contains(r, items[i])
    /\ \A p \in (Len(outbox) + 1)..Len(r) :
          \E i \in 1..n : /\ items[i] = r[p]
                          /\ \A h \in 1..(i - 1) :
                                items[h] \in cut \/ \E q \in 1..(p - 1) : r[q] = items[h]

(* One item more.                                                            *)
LEMMA BoxOne ==
    ASSUME outbox \in Seq(Ops), NEW s \in Seq(Ops), NEW m \in Nat, m + 1 <= Len(s), NEW r,
           Boxed(s, m, r)
    PROVE  Boxed(s, m + 1, IF s[m + 1] \in cut \/ Contains(r, s[m + 1]) THEN r ELSE Append(r, s[m + 1]))
<1> DEFINE u == s[m + 1]
<1>1. u \in Ops /\ r \in Seq(Ops) /\ Len(outbox) \in Nat /\ Len(r) \in Nat
  BY DEF Boxed
<1>2. CASE u \in cut \/ Contains(r, u)
  <2>1. \A i \in 1..(m + 1) : s[i] \in cut \/ Contains(r, s[i])
    BY <1>2 DEF Boxed
  <2>2. \A i \in 1..m : i \in 1..(m + 1)
    OBVIOUS
  <2>3. QED
    BY <1>2, <2>1, <2>2 DEF Boxed
<1>3. CASE u \notin cut /\ ~Contains(r, u)
  <2> DEFINE t == Append(r, u)
  <2>1. /\ t \in Seq(Ops) /\ Len(t) = Len(r) + 1 /\ t[Len(r) + 1] = u
        /\ \A i \in 1..Len(r) : t[i] = r[i]
        /\ \A o : Contains(t, o) <=> Contains(r, o) \/ o = u
    BY <1>1, AppendParts, AppendHas
  <2> HIDE DEF t
  <2>2. Injective(t)
    <3>1. \A i \in 1..Len(r) : r[i] # u
      BY <1>3 DEF Contains
    <3>2. Injective(r)
      BY DEF Boxed
    <3>3. QED
      BY <1>1, <2>1, <3>1, <3>2 DEF Injective
  <2>3. Len(outbox) <= Len(t) /\ \A i \in 1..Len(outbox) : t[i] = outbox[i]
    BY <1>1, <2>1 DEF Boxed
  <2>4. \A i \in 1..(m + 1) : s[i] \in cut \/ Contains(t, s[i])
    BY <2>1 DEF Boxed
  <2>5. ASSUME NEW p \in (Len(outbox) + 1)..Len(t)
        PROVE  \E i \in 1..(m + 1) : /\ s[i] = t[p]
                                     /\ \A h \in 1..(i - 1) :
                                           s[h] \in cut \/ \E q \in 1..(p - 1) : t[q] = s[h]
    <3>1. CASE p = Len(t)
      <4>1. m + 1 \in 1..(m + 1) /\ s[m + 1] = t[p]
        BY <1>1, <2>1, <3>1
      <4>2. ASSUME NEW h \in 1..((m + 1) - 1), s[h] \notin cut PROVE \E q \in 1..(p - 1) : t[q] = s[h]
        <5>1. Contains(r, s[h])
          BY <4>2 DEF Boxed
        <5>2. PICK q \in 1..Len(r) : r[q] = s[h]
          BY <5>1 DEF Contains
        <5>3. QED
          BY <1>1, <2>1, <3>1, <5>2
      <4>3. QED
        BY <4>1, <4>2
    <3>2. CASE p # Len(t)
      <4>1. p \in (Len(outbox) + 1)..Len(r) /\ p \in 1..Len(r) /\ t[p] = r[p]
        BY <1>1, <2>1, <3>2
      <4>2. PICK i \in 1..m : /\ s[i] = r[p]
                              /\ \A h \in 1..(i - 1) :
                                    s[h] \in cut \/ \E q \in 1..(p - 1) : r[q] = s[h]
        BY <4>1 DEF Boxed
      <4>3. \A q \in 1..(p - 1) : t[q] = r[q]
        <5>1. \A q \in 1..(p - 1) : q \in 1..Len(r)
          BY <1>1, <4>1
        <5>2. QED
          BY <2>1, <5>1
      <4>4. QED
        BY <4>1, <4>2, <4>3
    <3>3. QED
      BY <3>1, <3>2
  <2>6. Boxed(s, m + 1, t)
    BY <2>1, <2>2, <2>3, <2>4, <2>5 DEF Boxed
  <2>7. QED
    BY <1>3, <2>6 DEF t
<1>4. QED
  BY <1>2, <1>3

(* append_outbox, all items.                                                 *)
LEMMA BoxAll ==
    ASSUME outbox \in Seq(Ops), Injective(outbox), NEW s \in Seq(Ops)
    PROVE  Boxed(s, Len(s), AppendNew(s))
<1> DEFINE box == CHOOSE f : f = [n \in 0..Len(s) |-> Boxing(s, f, n)]
<1>1. box = [n \in 0..Len(s) |-> Boxing(s, box, n)]
  BY BoxExists
<1>2. AppendNew(s) = box[Len(s)]
  BY DEF AppendNew, Boxing
<1> DEFINE E == {m \in Nat : m <= Len(s) => Boxed(s, m, box[m])}
<1> HIDE DEF box
<1>3. 0 \in E
  <2>1. box[0] = outbox
    BY <1>1 DEF Boxing
  <2>2. QED
    BY <2>1 DEF Boxed
<1>4. ASSUME NEW m \in Nat, m \in E PROVE m + 1 \in E
  <2>1. SUFFICES ASSUME m + 1 <= Len(s) PROVE Boxed(s, m + 1, box[m + 1])
    OBVIOUS
  <2>2. m + 1 \in 0..Len(s) /\ m + 1 # 0 /\ (m + 1) - 1 = m
    BY <2>1
  <2>3. box[m + 1] = IF s[m + 1] \in cut \/ Contains(box[m], s[m + 1]) THEN box[m]
                                                                        ELSE Append(box[m], s[m + 1])
    BY <1>1, <2>2 DEF Boxing
  <2>4. Boxed(s, m, box[m])
    BY <1>4, <2>1
  <2>5. QED
    BY <2>1, <2>3, <2>4, BoxOne
<1> HIDE DEF E
<1>5. Len(s) \in E
  BY <1>3, <1>4, CountUp
<1>6. QED
  BY <1>2, <1>5 DEF E

-----------------------------------------------------------------------------
\* What has happened is in the account's operations; only the account's own
\* messages are held back, sent or answered, and an event is of its class.
Known ==
    /\ \A o \in Ops : kind[o] # "none" <=> Contains(lineLog, o)
    /\ \A o \in selfPending : SelfSent(o)
    /\ flushing # None => SelfSent(flushing)
    /\ \A c \in Events : \A i \in 1..Len(events[c]) : kind[events[c][i]] = c
    /\ \A i \in 1..Len(recvOut) : Contains(lineLog, recvOut[i])
    /\ \A o \in outstanding \cup sendOut : kind[o] = "mine"

\* The operations of a round are those after the revision in memory.
InRound ==
    /\ ~busy => batch = <<>> /\ events = NoEvents
    /\ rev + Len(batch) <= Len(lineLog)
    /\ \A i \in 1..Len(batch) : batch[i] = lineLog[rev + i]

\* There is nothing more to do for an operation with the bridge.
Settled(o) == SelfSent(o) \/ Contains(recvOut, o) \/ o \in lost

\* Up to the saved revision the operations of others are in recv_out.jsonl or
\* lost, up to the revision in memory there or among the events of the round.
Forwarded ==
    /\ \A k \in 1..savedRev : Settled(lineLog[k])
    /\ \A k \in 1..rev : \/ Settled(lineLog[k])
                         \/ \E c \in Events : Contains(events[c], lineLog[k])

\* No message the bridge sent, or is sending, is on its way to the phone.
NoEcho ==
    /\ \A i \in 1..Len(recvOut) : recvOut[i] \notin outstanding \cup sendOut
    /\ flushing \notin outstanding \cup sendOut

(* A round starts without events.                                            *)
LEMMA NoEventsType == NoEvents \in [Events -> Seq(Ops)]
<1>1. <<>> \in Seq(Ops)
  OBVIOUS
<1>2. QED
  BY <1>1 DEF NoEvents

(* The initial state.                                                        *)
LEMMA InboundInit ==
    Init => TypeOK /\ Known /\ InRound /\ Forwarded /\ NoEcho /\ Injective(outbox)
<1> SUFFICES ASSUME Init
             PROVE  TypeOK /\ Known /\ InRound /\ Forwarded /\ NoEcho /\ Injective(outbox)
  OBVIOUS
<1> USE InboundAssumption DEF Init
<1>1. TypeOK
  <2>1. IsInjective(lineLog)
    BY DEF IsInjective
  <2>2. kind \in [Ops -> Kinds \cup {"none"}]
    BY DEF Kinds
  <2>3. QED
    <3>1. events \in [Events -> Seq(Ops)]
      BY NoEventsType
    <3>2. /\ lineLog \in Seq(Ops) /\ batch \in Seq(Ops)
          /\ recvOut \in Seq(Ops) /\ outbox \in Seq(Ops)
          /\ Len(lineLog) = 0 /\ Len(recvOut) = 0
      OBVIOUS
    <3>3. rev \in 0..Len(lineLog) /\ savedRev \in 0..rev
      BY <3>2
    <3>4. curRecv \in 0..Len(recvOut) /\ size \in 0..Len(recvOut)
      BY <3>2
    <3>5. /\ bridgeRestarts \in Nat /\ bridgeErrors \in Nat /\ workerRestarts \in Nat
          /\ cut \subseteq Ops /\ lost \subseteq Ops
      OBVIOUS
    <3>6. /\ outstanding = {} /\ ownSent = {} /\ sendOut = {} /\ selfPending = {}
          /\ busy = FALSE /\ pump = "idle" /\ flushing = None
      OBVIOUS
    <3> HIDE DEF Init
    <3>7. QED
      BY <2>1, <2>2, <3>1, <3>2, <3>3, <3>4, <3>5, <3>6 DEF TypeOK
<1>2. Known
  BY DEF Known, Contains, NoEvents
<1>3. InRound
  BY DEF InRound
<1>4. Forwarded /\ NoEcho
  BY DEF Forwarded, NoEcho
<1>5. Injective(outbox)
  BY DEF Injective
<1>6. QED
  BY <1>1, <1>2, <1>3, <1>4, <1>5

(* What is appended to recv_out.jsonl, and what it still contains.           *)
LEMMA RecvAppend ==
    ASSUME TypeOK, NEW u \in Ops, recvOut' = Append(recvOut, u)
    PROVE  /\ recvOut' \in Seq(Ops) /\ Len(recvOut') = Len(recvOut) + 1
           /\ \A i \in 1..Len(recvOut') : recvOut'[i] = u \/ (i \in 1..Len(recvOut) /\ recvOut'[i] = recvOut[i])
           /\ \A i \in 1..Len(recvOut) : recvOut'[i] = recvOut[i]
           /\ \A o : Contains(recvOut', o) <=> Contains(recvOut, o) \/ o = u
<1>1. recvOut \in Seq(Ops)
  BY DEF TypeOK
<1>2. \A o : Contains(recvOut', o) <=> Contains(recvOut, o) \/ o = u
  BY <1>1, AppendHas
<1>3. QED
  BY <1>1, <1>2, AppendParts

(* What a failure does whatever fails: it costs operations that are not in   *)
(* recv_out.jsonl, and one message or receipt at most.                       *)
LEMMA FailLoses ==
    ASSUME TypeOK, Known, SkipMessage \/ AbortRound \/ EndFails \/ FlushFails
    PROVE  /\ bridgeErrors' = bridgeErrors + 1
           /\ lost \subseteq lost' /\ lost' \subseteq Ops
           /\ \A x \in lost' : x \in lost \/ ~Contains(recvOut, x)
           /\ \E u : \A x \in lost' : x \in lost \/ x = u \/ kind[x] # "direct"
           /\ UNCHANGED <<lineVars, sendVars, savedRev, recvOut, workerVars, bridgeRestarts, workerRestarts>>
<1> USE DEF lineVars, sendVars, roundVars, selfVars, workerVars, faultVars
<1>1. /\ recvOut \in Seq(Ops) /\ batch \in Seq(Ops) /\ events \in [Events -> Seq(Ops)]
      /\ lost \subseteq Ops /\ flushing \in Ops \cup {None}
  BY DEF TypeOK
<1>2. ASSUME NEW x \in Waiting(events) PROVE x \in Ops /\ kind[x] # "direct"
  <2>1. PICK c \in Events : x \in ToSet(events[c])
    BY <1>2 DEF Waiting
  <2>2. events[c] \in Seq(Ops)
    BY <1>1
  <2>3. PICK i \in 1..Len(events[c]) : events[c][i] = x
    BY <2>1, <2>2, Elements DEF Contains
  <2>4. QED
    BY <2>2, <2>3 DEF Known, Events
<1>3. UNCHANGED <<lineVars, sendVars, savedRev, recvOut, workerVars, bridgeRestarts, workerRestarts>>
  BY DEF SkipMessage, AbortRound, EndFails, FlushFails
<1>4. PICK u : \E S \in SUBSET Ops : Lose(S) /\ \A x \in S : x = u \/ kind[x] # "direct"
  <2>1. CASE SkipMessage \/ AbortRound
    <3>1. batch # <<>> /\ Head(batch) \in Ops
      BY <1>1, <2>1, HeadTail DEF SkipMessage, AbortRound
    <3>2. Lose({Head(batch)}) \/ Lose({Head(batch)} \cup Waiting(events))
      BY <2>1 DEF SkipMessage, AbortRound
    <3>3. {Head(batch)} \in SUBSET Ops /\ {Head(batch)} \cup Waiting(events) \in SUBSET Ops
      BY <1>2, <3>1
    <3>4. /\ \A x \in {Head(batch)} : x = Head(batch) \/ kind[x] # "direct"
          /\ \A x \in {Head(batch)} \cup Waiting(events) : x = Head(batch) \/ kind[x] # "direct"
      BY <1>2
    <3>5. \E S \in SUBSET Ops : Lose(S) /\ \A x \in S : x = Head(batch) \/ kind[x] # "direct"
      BY <3>2, <3>3, <3>4
    <3>6. QED
      BY <3>5
  <2>2. CASE EndFails
    <3>1. Lose(Waiting(events)) /\ Waiting(events) \in SUBSET Ops
      BY <1>2, <2>2 DEF EndFails
    <3>2. \A x \in Waiting(events) : x = None \/ kind[x] # "direct"
      BY <1>2
    <3>3. \E S \in SUBSET Ops : Lose(S) /\ \A x \in S : x = None \/ kind[x] # "direct"
      BY <3>1, <3>2
    <3>4. QED
      BY <3>3
  <2>3. CASE FlushFails
    <3>1. Lose({flushing}) /\ {flushing} \in SUBSET Ops /\ flushing \in Ops
      BY <1>1, <2>3 DEF FlushFails
    <3>2. \A x \in {flushing} : x = flushing \/ kind[x] # "direct"
      OBVIOUS
    <3>3. \E S \in SUBSET Ops : Lose(S) /\ \A x \in S : x = flushing \/ kind[x] # "direct"
      BY <3>1, <3>2
    <3>4. QED
      BY <3>3
  <2>4. QED
    BY <2>1, <2>2, <2>3
<1>5. \A x \in ToSet(recvOut) : Contains(recvOut, x)
  BY <1>1, Elements
<1>9. PICK S \in SUBSET Ops : Lose(S) /\ \A x \in S : x = u \/ kind[x] # "direct"
  BY <1>4
<1>6. /\ bridgeErrors' = bridgeErrors + 1 /\ lost' = lost \cup (S \ ToSet(recvOut))
  BY <1>9 DEF Lose
<1>7. \A x \in S : x \notin ToSet(recvOut) => ~Contains(recvOut, x)
  BY <1>1, Elements
<1>8. QED
  BY <1>1, <1>3, <1>6, <1>7, <1>9

(* Every step keeps the types.                                               *)
LEMMA TypeStep ==
    ASSUME TypeOK, Known, InRound, Injective(outbox), [Next]_vars
    PROVE  TypeOK'
<1> USE InboundAssumption DEF lineVars, sendVars, roundVars, selfVars, workerVars, faultVars
<1>1. ASSUME NEW o \in Ops, LineOp(o) \/ SendMine(o) PROVE TypeOK'
  <2>1. /\ lineLog' = Append(lineLog, o) /\ lineLog \in Seq(Ops) /\ ~Contains(lineLog, o)
        /\ IsInjective(lineLog)
    BY <1>1 DEF LineOp, SendMine, Known, TypeOK
  <2>2. /\ lineLog' \in Seq(Ops) /\ Len(lineLog') = Len(lineLog) + 1 /\ Len(lineLog) \in Nat
        /\ \A i \in 1..Len(lineLog) : lineLog'[i] = lineLog[i]
        /\ lineLog'[Len(lineLog) + 1] = o
    BY <2>1, AppendParts
  <2>3. \A i \in 1..Len(lineLog) : lineLog[i] # o
    BY <2>1 DEF Contains
  <2>4. \A i, k \in 1..Len(lineLog) : lineLog[i] = lineLog[k] => i = k
    BY <2>1 DEF IsInjective
  <2>5. \A i, k \in 1..(Len(lineLog) + 1) : lineLog'[i] = lineLog'[k] => i = k
    BY <2>2, <2>3, <2>4
  <2>6. IsInjective(lineLog')
    BY <2>2, <2>5 DEF IsInjective
  <2>7. kind' \in [Ops -> Kinds \cup {"none"}] /\ cut' \subseteq Ops
    BY <1>1 DEF LineOp, SendMine, TypeOK, Kinds
  <2>8. outstanding' \subseteq Ops
    BY <1>1 DEF LineOp, SendMine, TypeOK
  <2>9. rev' = rev /\ rev \in 0..Len(lineLog')
    BY <1>1, <2>2 DEF LineOp, SendMine, TypeOK
  <2>10. UNCHANGED <<ownSent, sendOut, roundVars, selfVars, recvOut, workerVars, faultVars>>
    BY <1>1 DEF LineOp, SendMine
  <2>11. QED
    BY <2>2, <2>6, <2>7, <2>8, <2>9, <2>10 DEF TypeOK
<1>2. ASSUME NEW o \in Ops, Answer(o) PROVE TypeOK'
  BY <1>2 DEF Answer, TypeOK
<1>3. CASE Sync
  <2>1. PICK n \in 1..SyncLimit : rev + n <= Len(lineLog) /\ batch' = SubSeq(lineLog, rev + 1, rev + n)
    BY <1>3 DEF Sync
  <2>2. batch' \in Seq(Ops)
    BY <2>1 DEF TypeOK
  <2>3. QED
    BY <1>3, <2>2 DEF Sync, TypeOK, NoEvents
<1>4. CASE HandleOp
  <2> DEFINE o == Head(batch)
  <2>1. o \in Ops /\ Tail(batch) \in Seq(Ops) /\ 1 \in 1..Len(batch)
    BY <1>4, HeadTail DEF HandleOp, TypeOK
  <2>2. recvOut' = recvOut \/ recvOut' = Append(recvOut, o)
    BY <1>4 DEF HandleOp
  <2>3. recvOut' \in Seq(Ops) /\ Len(recvOut') >= Len(recvOut) /\ Len(recvOut) \in Nat
    BY <2>1, <2>2, RecvAppend DEF TypeOK
  <2>4. events' \in [Events -> Seq(Ops)]
    <3>1. \A c \in Events : (IF kind[o] = c THEN Append(events[c], o) ELSE events[c]) \in Seq(Ops)
      BY <2>1, AppendParts DEF TypeOK
    <3>2. QED
      BY <1>4, <3>1 DEF HandleOp, Collected
  <2>5. rev' = rev + 1 /\ rev + 1 \in 0..Len(lineLog) /\ savedRev \in 0..(rev + 1)
    BY <1>4, <2>1 DEF HandleOp, InRound, TypeOK
  <2>6. selfPending' \subseteq Ops
    BY <1>4, <2>1 DEF HandleOp, TypeOK
  <2>7. /\ batch' = Tail(batch)
        /\ UNCHANGED <<lineVars, sendVars, savedRev, busy, flushing, workerVars, faultVars>>
    BY <1>4 DEF HandleOp
  <2>8. curRecv \in 0..Len(recvOut') /\ size \in 0..Len(recvOut')
    BY <2>3 DEF TypeOK
  <2>9. QED
    BY <2>1, <2>3, <2>4, <2>5, <2>6, <2>7, <2>8 DEF TypeOK
<1>5. CASE AppendEvent
  <2>1. PICK c \in Events : /\ events[c] # <<>> /\ recvOut' = Append(recvOut, Head(events[c]))
                            /\ events' = [events EXCEPT ![c] = Tail(@)]
    BY <1>5 DEF AppendEvent
  <2>2. Head(events[c]) \in Ops /\ Tail(events[c]) \in Seq(Ops)
    BY <2>1, HeadTail DEF TypeOK
  <2>3. recvOut' \in Seq(Ops) /\ Len(recvOut') = Len(recvOut) + 1 /\ Len(recvOut) \in Nat
    BY <2>1, <2>2, RecvAppend DEF TypeOK
  <2>4. events' \in [Events -> Seq(Ops)]
    BY <2>1, <2>2 DEF TypeOK
  <2>5. UNCHANGED <<lineVars, sendVars, rev, savedRev, busy, batch, selfVars, workerVars, faultVars>>
    BY <1>5 DEF AppendEvent
  <2>6. QED
    BY <2>3, <2>4, <2>5 DEF TypeOK
<1>6. CASE SaveRev
  <2>1. /\ savedRev' = rev /\ busy' = FALSE /\ events' = NoEvents
        /\ UNCHANGED <<lineVars, sendVars, rev, batch, selfVars, recvOut, workerVars, faultVars>>
    BY <1>6 DEF SaveRev
  <2>2. savedRev' \in 0..rev'
    BY <2>1 DEF TypeOK
  <2>3. events' \in [Events -> Seq(Ops)] /\ busy' \in BOOLEAN
    BY <2>1, NoEventsType
  <2>4. QED
    BY <2>1, <2>2, <2>3 DEF TypeOK
<1>7. ASSUME NEW o \in Ops, FlushTake(o) PROVE TypeOK'
  BY <1>7 DEF FlushTake, TypeOK
<1>8. CASE FlushAppend
  <2>1. flushing \in Ops /\ recvOut' = Append(recvOut, flushing)
    BY <1>8 DEF FlushAppend, TypeOK
  <2>2. recvOut' \in Seq(Ops) /\ Len(recvOut') = Len(recvOut) + 1 /\ Len(recvOut) \in Nat
    BY <2>1, RecvAppend DEF TypeOK
  <2>3. QED
    BY <1>8, <2>2 DEF FlushAppend, TypeOK
<1>9. CASE BridgeRestart
  <2>1. /\ bridgeRestarts' = bridgeRestarts + 1 /\ rev' = savedRev /\ savedRev' = savedRev
        /\ busy' = FALSE /\ batch' = <<>> /\ events' = NoEvents /\ flushing' = None
        /\ outstanding' = {} /\ ownSent' = {} /\ selfPending' = {}
        /\ UNCHANGED <<lineVars, sendOut, recvOut, workerVars, lost, bridgeErrors, workerRestarts>>
    BY <1>9 DEF BridgeRestart
  <2>2. /\ savedRev' \in 0..rev' /\ rev' \in 0..Len(lineLog') /\ bridgeRestarts' \in Nat
    BY <2>1 DEF TypeOK
  <2>3. events' \in [Events -> Seq(Ops)] /\ busy' \in BOOLEAN /\ batch' \in Seq(Ops)
    <3>1. <<>> \in Seq(Ops)
      OBVIOUS
    <3>2. QED
      BY <2>1, <3>1, NoEventsType, Zenon
  <2>4. QED
    BY <2>1, <2>2, <2>3 DEF TypeOK
<1>10. CASE PumpSize
  BY <1>10 DEF PumpSize, TypeOK
<1>11. CASE PumpMove
  <2>1. SubSeq(recvOut, curRecv + 1, Len(recvOut)) \in Seq(Ops)
    BY DEF TypeOK
  <2>2. outbox' \in Seq(Ops)
    BY <1>11, <2>1, BoxAll DEF PumpMove, Boxed, TypeOK
  <2>3. QED
    BY <1>11, <2>2 DEF PumpMove, TypeOK
<1>12. CASE PumpCursor
  BY <1>12 DEF PumpCursor, CursorAfter, TypeOK
<1>13. CASE WorkerRestart
  BY <1>13 DEF WorkerRestart, TypeOK
<1>14. CASE UNCHANGED vars
  BY <1>14 DEF vars, TypeOK
<1>15. CASE SkipMessage \/ AbortRound \/ EndFails \/ FlushFails
  <2>1. /\ bridgeErrors' = bridgeErrors + 1 /\ lost' \subseteq Ops
        /\ UNCHANGED <<lineVars, sendVars, savedRev, recvOut, workerVars, bridgeRestarts, workerRestarts>>
    BY <1>15, FailLoses
  <2>2. CASE SkipMessage \/ AbortRound
    <3>1. Tail(batch) \in Seq(Ops) /\ 1 \in 1..Len(batch)
      BY <2>2, HeadTail DEF SkipMessage, AbortRound, TypeOK
    <3>2. rev' = rev + 1 /\ rev + 1 \in 0..Len(lineLog) /\ savedRev \in 0..(rev + 1)
      BY <2>2, <3>1 DEF SkipMessage, AbortRound, InRound, TypeOK
    <3>3. batch' \in Seq(Ops)
      <4>1. <<>> \in Seq(Ops)
        OBVIOUS
      <4>2. QED
        BY <2>2, <3>1, <4>1 DEF SkipMessage, AbortRound
    <3>4. busy' \in BOOLEAN /\ events' \in [Events -> Seq(Ops)]
      BY <2>2, NoEventsType, Zenon DEF SkipMessage, AbortRound, TypeOK
    <3>5. UNCHANGED selfVars
      BY <2>2 DEF SkipMessage, AbortRound
    <3>6. QED
      BY <2>1, <3>2, <3>3, <3>4, <3>5 DEF TypeOK
  <2>3. CASE EndFails
    <3>1. busy' = FALSE /\ events' = NoEvents /\ UNCHANGED <<rev, batch, selfVars>>
      BY <2>3 DEF EndFails
    <3>2. busy' \in BOOLEAN /\ events' \in [Events -> Seq(Ops)]
      BY <3>1, NoEventsType
    <3>3. QED
      BY <2>1, <3>1, <3>2 DEF TypeOK
  <2>4. CASE FlushFails
    <3>1. flushing' = None /\ UNCHANGED <<roundVars, selfPending>>
      BY <2>4 DEF FlushFails
    <3>2. QED
      BY <2>1, <3>1 DEF TypeOK
  <2>5. QED
    BY <1>15, <2>2, <2>3, <2>4
<1>16. QED
  BY <1>1, <1>2, <1>3, <1>4, <1>5, <1>6, <1>7, <1>8, <1>9, <1>10, <1>11, <1>12, <1>13, <1>14, <1>15
     DEF Next, Round, Flush, Pump

(* Every step keeps what is known of the operations.                         *)
LEMMA KnownStep ==
    ASSUME TypeOK, Known, InRound, [Next]_vars
    PROVE  Known'
<1> USE InboundAssumption DEF lineVars, sendVars, roundVars, selfVars, workerVars, faultVars
<1>1. /\ lineLog \in Seq(Ops) /\ kind \in [Ops -> Kinds \cup {"none"}]
      /\ events \in [Events -> Seq(Ops)] /\ batch \in Seq(Ops) /\ recvOut \in Seq(Ops)
      /\ outstanding \subseteq Ops /\ sendOut \subseteq Ops /\ selfPending \subseteq Ops
      /\ flushing \in Ops \cup {None}
  BY DEF TypeOK
<1>2. \A o : SelfSent(o) <=> kind[o] \in {"mine", "elsewhere"}
  BY DEF SelfSent
<1>3. ASSUME NEW o \in Ops, LineOp(o) \/ SendMine(o) PROVE Known'
  <2>1. /\ lineLog' = Append(lineLog, o) /\ kind[o] = "none" /\ kind'[o] # "none"
        /\ \A x \in Ops : x # o => kind'[x] = kind[x]
        /\ outstanding' = outstanding \/ (outstanding' = outstanding \cup {o} /\ kind'[o] = "mine")
        /\ UNCHANGED <<sendOut, events, selfPending, flushing, recvOut>>
    BY <1>1, <1>3 DEF LineOp, SendMine, Kinds, Events
  <2>2. \A x \in Ops : Contains(lineLog', x) <=> Contains(lineLog, x) \/ x = o
    BY <1>1, <2>1, AppendHas
  <2>3. \A x \in Ops : kind'[x] # "none" <=> Contains(lineLog', x)
    BY <2>1, <2>2 DEF Known
  <2>4. \A x \in selfPending : kind'[x] \in {"mine", "elsewhere"}
    BY <1>1, <1>2, <2>1 DEF Known
  <2>5. flushing # None => kind'[flushing] \in {"mine", "elsewhere"}
    BY <1>1, <1>2, <2>1 DEF Known
  <2>6. \A c \in Events : \A i \in 1..Len(events[c]) : kind'[events[c][i]] = c
    <3>1. ASSUME NEW c \in Events, NEW i \in 1..Len(events[c]) PROVE kind'[events[c][i]] = c
      <4>1. events[c][i] \in Ops /\ kind[events[c][i]] = c /\ c # "none"
        BY <1>1 DEF Known, Events
      <4>2. QED
        BY <2>1, <4>1
    <3>2. QED
      BY <3>1
  <2>7. \A i \in 1..Len(recvOut) : Contains(lineLog', recvOut[i])
    BY <1>1, <2>2 DEF Known
  <2>8. \A x \in outstanding' \cup sendOut : kind'[x] = "mine"
    BY <1>1, <2>1 DEF Known
  <2>9. QED
    BY <2>1, <2>3, <2>4, <2>5, <2>6, <2>7, <2>8 DEF Known, SelfSent
<1>4. ASSUME UNCHANGED lineVars, \A x \in selfPending' : SelfSent(x),
             flushing' # None => SelfSent(flushing'),
             \A c \in Events : \A i \in 1..Len(events'[c]) : kind[events'[c][i]] = c,
             \A i \in 1..Len(recvOut') : Contains(lineLog, recvOut'[i]),
             \A x \in outstanding' \cup sendOut' : kind[x] = "mine"
      PROVE  Known'
  BY <1>4 DEF Known, SelfSent, Contains
<1>5. ASSUME UNCHANGED <<kind, lineLog, outstanding, sendOut, events, selfPending, flushing, recvOut>>
      PROVE  Known'
  BY <1>5 DEF Known, SelfSent, Contains
<1>6. \A c \in Events : \A i \in 1..Len(NoEvents[c]) : kind[NoEvents[c][i]] = c
  BY DEF NoEvents
<1>7. ASSUME NEW o \in Ops, Answer(o) PROVE Known'
  <2>1. \A x \in outstanding' \cup sendOut' : kind[x] = "mine"
    BY <1>7 DEF Answer, Known
  <2>2. UNCHANGED <<kind, lineLog, events, selfPending, flushing, recvOut>>
    BY <1>7 DEF Answer
  <2>3. QED
    BY <2>1, <2>2 DEF Known, SelfSent, Contains
<1>8. CASE Sync \/ SaveRev
  <2>1. /\ UNCHANGED <<kind, lineLog, outstanding, sendOut, selfPending, flushing, recvOut>>
        /\ events' = NoEvents
    BY <1>8 DEF Sync, SaveRev
  <2>2. QED
    BY <1>6, <2>1 DEF Known, SelfSent, Contains
<1>9. CASE HandleOp
  <2> DEFINE o == Head(batch)
  <2>1. /\ o \in Ops /\ o = batch[1] /\ 1 \in 1..Len(batch) /\ UNCHANGED <<lineVars, sendVars, flushing>>
        /\ recvOut' = recvOut \/ recvOut' = Append(recvOut, o)
        /\ events' = Collected(o)
        /\ selfPending' = IF SelfSent(o) THEN selfPending \cup {o} ELSE selfPending
    BY <1>1, <1>9, HeadTail DEF HandleOp
  <2> HIDE DEF o
  <2>2. Contains(lineLog, o)
    <3>1. rev + 1 \in 1..Len(lineLog) /\ o = lineLog[rev + 1]
      BY <1>1, <2>1 DEF InRound, TypeOK
    <3>2. QED
      BY <3>1 DEF Contains
  <2>3. \A i \in 1..Len(recvOut') : Contains(lineLog, recvOut'[i])
    BY <2>1, <2>2, RecvAppend DEF Known
  <2>4. ASSUME NEW c \in Events, NEW i \in 1..Len(events'[c]) PROVE kind[events'[c][i]] = c
    <3>1. events'[c] = IF kind[o] = c THEN Append(events[c], o) ELSE events[c]
      BY <2>1 DEF Collected
    <3>2. CASE kind[o] = c
      <4>1. events[c] \in Seq(Ops) /\ events'[c] = Append(events[c], o)
        BY <1>1, <3>1, <3>2
      <4>2. events'[c][i] = o \/ (i \in 1..Len(events[c]) /\ events'[c][i] = events[c][i])
        BY <2>1, <4>1, AppendParts
      <4>3. QED
        BY <3>2, <4>2 DEF Known
    <3>3. CASE kind[o] # c
      BY <3>1, <3>3 DEF Known
    <3>4. QED
      BY <3>2, <3>3
  <2>5. \A x \in selfPending' : SelfSent(x)
    BY <2>1 DEF Known
  <2>6. (flushing' # None => SelfSent(flushing')) /\ \A x \in outstanding' \cup sendOut' : kind[x] = "mine"
    BY <2>1 DEF Known
  <2>7. QED
    BY <1>4, <2>1, <2>3, <2>4, <2>5, <2>6
<1>10. CASE AppendEvent
  <2>1. PICK c \in Events : /\ events[c] # <<>> /\ recvOut' = Append(recvOut, Head(events[c]))
                            /\ events' = [events EXCEPT ![c] = Tail(@)]
    BY <1>10 DEF AppendEvent
  <2>2. UNCHANGED <<lineVars, sendVars, selfPending, flushing>>
    BY <1>10 DEF AppendEvent
  <2>3. /\ Head(events[c]) \in Ops /\ Head(events[c]) = events[c][1] /\ 1 \in 1..Len(events[c])
        /\ \A i \in 1..Len(Tail(events[c])) : /\ i + 1 \in 1..Len(events[c])
                                              /\ Tail(events[c])[i] = events[c][i + 1]
    BY <1>1, <2>1, HeadTail
  <2>4. \A x \in Events : \A i \in 1..Len(events'[x]) : kind[events'[x][i]] = x
    <3>1. \A x \in Events : events'[x] = IF x = c THEN Tail(events[c]) ELSE events[x]
      BY <1>1, <2>1
    <3>2. \A i \in 1..Len(events[c]) : kind[events[c][i]] = c
      BY DEF Known
    <3>3. \A i \in 1..Len(Tail(events[c])) : kind[Tail(events[c])[i]] = c
      BY <2>3, <3>2
    <3>4. \A x \in Events : \A i \in 1..Len(events[x]) : kind[events[x][i]] = x
      BY DEF Known
    <3>5. QED
      BY <3>1, <3>3, <3>4, Zenon
  <2>5. Contains(lineLog, Head(events[c]))
    <3>1. kind[Head(events[c])] # "none"
      BY <2>3 DEF Known, Events
    <3>2. QED
      BY <2>3, <3>1 DEF Known
  <2>6. \A i \in 1..Len(recvOut') : Contains(lineLog, recvOut'[i])
    BY <2>1, <2>3, <2>5, RecvAppend DEF Known
  <2>7. /\ \A x \in selfPending' : SelfSent(x)
        /\ flushing' # None => SelfSent(flushing')
        /\ \A x \in outstanding' \cup sendOut' : kind[x] = "mine"
    BY <2>2 DEF Known
  <2>8. QED
    BY <1>4, <2>2, <2>4, <2>6, <2>7
<1>11. ASSUME NEW o \in Ops, FlushTake(o) PROVE Known'
  <2>1. /\ UNCHANGED <<kind, lineLog, outstanding, sendOut, events, recvOut>>
        /\ selfPending' \subseteq selfPending /\ (flushing' = None \/ flushing' = o) /\ o \in selfPending
    BY <1>11 DEF FlushTake
  <2>2. \A x \in selfPending' : SelfSent(x)
    BY <2>1 DEF Known
  <2>3. flushing' # None => SelfSent(flushing')
    BY <2>1 DEF Known
  <2>4. /\ \A c \in Events : \A i \in 1..Len(events'[c]) : kind[events'[c][i]] = c
        /\ \A i \in 1..Len(recvOut') : Contains(lineLog, recvOut'[i])
        /\ \A x \in outstanding' \cup sendOut' : kind[x] = "mine"
    BY <2>1 DEF Known
  <2>5. UNCHANGED lineVars
    BY <1>11 DEF FlushTake
  <2>6. QED
    BY <1>4, <2>2, <2>3, <2>4, <2>5
<1>12. CASE FlushAppend
  <2>1. /\ UNCHANGED <<lineVars, sendVars, events, selfPending>> /\ flushing' = None
        /\ recvOut' = Append(recvOut, flushing) /\ flushing # None /\ flushing \in Ops
    BY <1>1, <1>12 DEF FlushAppend
  <2>2. Contains(lineLog, flushing)
    BY <1>2, <2>1 DEF Known
  <2>3. \A i \in 1..Len(recvOut') : Contains(lineLog, recvOut'[i])
    BY <2>1, <2>2, RecvAppend DEF Known
  <2>4. QED
    BY <1>4, <2>1, <2>3 DEF Known
<1>13. CASE BridgeRestart
  <2>1. /\ UNCHANGED <<kind, lineLog, sendOut, recvOut>> /\ outstanding' = {} /\ events' = NoEvents
        /\ selfPending' = {} /\ flushing' = None
    BY <1>13 DEF BridgeRestart
  <2>2. QED
    BY <1>4, <1>6, <2>1 DEF Known
<1>14. CASE PumpSize \/ PumpMove \/ PumpCursor \/ WorkerRestart \/ UNCHANGED vars
  BY <1>5, <1>14 DEF PumpSize, PumpMove, PumpCursor, WorkerRestart, vars
<1>15. CASE SkipMessage \/ AbortRound \/ EndFails \/ FlushFails
  <2>1. /\ UNCHANGED <<kind, lineLog, outstanding, sendOut, selfPending, recvOut>>
        /\ events' = events \/ events' = NoEvents
        /\ flushing' = flushing \/ flushing' = None
    BY <1>15 DEF SkipMessage, AbortRound, EndFails, FlushFails
  <2>2. QED
    BY <1>6, <2>1 DEF Known, SelfSent, Contains
<1>16. QED
  BY <1>3, <1>7, <1>8, <1>9, <1>10, <1>11, <1>12, <1>13, <1>14, <1>15 DEF Next, Round, Flush, Pump

(* Every step keeps the operations of the round.                             *)
LEMMA RoundStep ==
    ASSUME TypeOK, Known, InRound, [Next]_vars
    PROVE  InRound'
<1> USE InboundAssumption DEF lineVars, sendVars, roundVars, selfVars, workerVars, faultVars
<1>1. /\ lineLog \in Seq(Ops) /\ batch \in Seq(Ops) /\ rev \in Nat /\ savedRev \in Nat
      /\ savedRev <= rev /\ rev <= Len(lineLog)
  BY DEF TypeOK
<1>2. ASSUME NEW o \in Ops, LineOp(o) \/ SendMine(o) PROVE InRound'
  <2>1. lineLog' = Append(lineLog, o) /\ UNCHANGED <<busy, batch, events, rev>>
    BY <1>2 DEF LineOp, SendMine
  <2>2. Len(lineLog') = Len(lineLog) + 1 /\ \A i \in 1..Len(lineLog) : lineLog'[i] = lineLog[i]
    BY <1>1, <2>1, AppendParts
  <2>3. \A i \in 1..Len(batch) : rev + i \in 1..Len(lineLog)
    BY <1>1 DEF InRound
  <2>4. rev + Len(batch) <= Len(lineLog')
    BY <1>1, <2>2 DEF InRound
  <2>5. QED
    BY <2>1, <2>2, <2>3, <2>4 DEF InRound
<1>3. CASE Sync
  <2>1. PICK n \in 1..SyncLimit : rev + n <= Len(lineLog) /\ batch' = SubSeq(lineLog, rev + 1, rev + n)
    BY <1>3 DEF Sync
  <2>2. Len(batch') = n /\ \A i \in 1..n : batch'[i] = lineLog[rev + i]
    BY <1>1, <2>1
  <2>3. busy' = TRUE /\ UNCHANGED <<lineLog, rev>>
    BY <1>3 DEF Sync
  <2>4. QED
    BY <2>1, <2>2, <2>3 DEF InRound
<1>4. CASE HandleOp \/ SkipMessage
  <2>1. busy /\ batch # <<>> /\ batch' = Tail(batch) /\ rev' = rev + 1 /\ UNCHANGED <<lineLog, busy>>
    BY <1>4 DEF HandleOp, SkipMessage
  <2>2. /\ Len(batch') = Len(batch) - 1
        /\ \A i \in 1..Len(batch') : i + 1 \in 1..Len(batch) /\ batch'[i] = batch[i + 1]
    BY <1>1, <2>1, HeadTail
  <2>3. \A i \in 1..Len(batch') : batch'[i] = lineLog[rev' + i]
    <3>1. ASSUME NEW i \in 1..Len(batch') PROVE batch'[i] = lineLog[rev' + i]
      <4>1. batch'[i] = lineLog[rev + (i + 1)] /\ rev + (i + 1) = rev' + i
        <5>1. i + 1 \in 1..Len(batch) /\ batch'[i] = batch[i + 1]
          BY <2>2
        <5>2. batch[i + 1] = lineLog[rev + (i + 1)]
          BY <5>1 DEF InRound
        <5>3. QED
          BY <1>1, <2>1, <5>1, <5>2
      <4>2. QED
        BY <4>1
    <3>2. QED
      BY <3>1
  <2>4. rev' + Len(batch') <= Len(lineLog')
    BY <1>1, <2>1, <2>2 DEF InRound
  <2>5. QED
    BY <2>1, <2>3, <2>4 DEF InRound
<1>5. CASE AppendEvent
  BY <1>5 DEF AppendEvent, InRound
<1>6. CASE SaveRev
  BY <1>6 DEF SaveRev, RoundOver, InRound
<1>7. CASE BridgeRestart
  <2>1. busy' = FALSE /\ batch' = <<>> /\ events' = NoEvents /\ rev' = savedRev /\ lineLog' = lineLog
    BY <1>7 DEF BridgeRestart
  <2>2. Len(batch') = 0
    BY <2>1
  <2>3. QED
    BY <1>1, <2>1, <2>2 DEF InRound
<1>8. CASE UNCHANGED <<busy, batch, events, rev, lineLog>>
  BY <1>8 DEF InRound
<1>9. ASSUME NEW o \in Ops, Answer(o) \/ FlushTake(o) PROVE InRound'
  BY <1>8, <1>9 DEF Answer, FlushTake
<1>10. CASE FlushAppend \/ PumpSize \/ PumpMove \/ PumpCursor \/ WorkerRestart \/ UNCHANGED vars
  BY <1>8, <1>10 DEF FlushAppend, PumpSize, PumpMove, PumpCursor, WorkerRestart, vars
<1>11. CASE AbortRound \/ EndFails
  <2>1. /\ busy' = FALSE /\ batch' = <<>> /\ events' = NoEvents /\ lineLog' = lineLog
        /\ rev' = rev \/ (batch # <<>> /\ rev' = rev + 1)
    BY <1>11 DEF AbortRound, EndFails
  <2>2. Len(batch') = 0 /\ (batch # <<>> => 1 <= Len(batch))
    BY <1>1, <2>1
  <2>3. rev' \in Nat /\ rev' <= Len(lineLog)
    BY <1>1, <2>1, <2>2 DEF InRound
  <2>4. QED
    BY <2>1, <2>2, <2>3 DEF InRound
<1>12. CASE FlushFails
  BY <1>8, <1>12 DEF FlushFails
<1>13. QED
  BY <1>2, <1>3, <1>4, <1>5, <1>6, <1>7, <1>9, <1>10, <1>11, <1>12 DEF Next, Round, Flush, Pump

(* Every step keeps what is forwarded.                                       *)
LEMMA ForwardStep ==
    ASSUME TypeOK, Known, InRound, Forwarded, [Next]_vars
    PROVE  Forwarded'
<1> USE InboundAssumption DEF lineVars, sendVars, roundVars, selfVars, workerVars, faultVars
<1>1. /\ lineLog \in Seq(Ops) /\ batch \in Seq(Ops) /\ recvOut \in Seq(Ops)
      /\ events \in [Events -> Seq(Ops)] /\ kind \in [Ops -> Kinds \cup {"none"}]
  BY DEF TypeOK
<1>2. /\ rev \in Nat /\ savedRev \in Nat /\ savedRev <= rev /\ rev <= Len(lineLog)
  BY DEF TypeOK
<1>3. \A k \in 1..rev : lineLog[k] \in Ops
  BY <1>1, <1>2
<1>4. ASSUME NEW o \in Ops, LineOp(o) \/ SendMine(o) PROVE Forwarded'
  <2>1. /\ lineLog' = Append(lineLog, o) /\ kind[o] = "none" /\ \A x \in Ops : x # o => kind'[x] = kind[x]
        /\ UNCHANGED <<events, rev, savedRev, recvOut, lost>>
    BY <1>1, <1>4 DEF LineOp, SendMine
  <2>2. \A k \in 1..Len(lineLog) : lineLog'[k] = lineLog[k] /\ lineLog[k] \in Ops /\ lineLog[k] # o
    <3>1. \A k \in 1..Len(lineLog) : lineLog[k] \in Ops /\ Contains(lineLog, lineLog[k])
      BY <1>1 DEF Contains
    <3>2. ~Contains(lineLog, o)
      BY <2>1 DEF Known
    <3>3. QED
      BY <1>1, <2>1, <3>1, <3>2, AppendParts
  <2>3. \A k \in 1..rev : /\ lineLog'[k] = lineLog[k] /\ kind'[lineLog[k]] = kind[lineLog[k]]
    BY <1>2, <2>1, <2>2
  <2>4. \A k \in 1..savedRev : k \in 1..rev
    BY <1>2
  <2>5. \A k \in 1..rev : \/ kind'[lineLog'[k]] \in {"mine", "elsewhere"}
                          \/ Contains(recvOut, lineLog'[k]) \/ lineLog'[k] \in lost
                          \/ \E c \in Events : Contains(events[c], lineLog'[k])
    BY <2>3 DEF Forwarded, Settled, SelfSent
  <2>6. \A k \in 1..savedRev : \/ kind'[lineLog'[k]] \in {"mine", "elsewhere"}
                               \/ Contains(recvOut, lineLog'[k]) \/ lineLog'[k] \in lost
    BY <2>3, <2>4 DEF Forwarded, Settled, SelfSent
  <2>7. /\ \A x : Contains(recvOut', x) <=> Contains(recvOut, x)
        /\ rev' = rev /\ savedRev' = savedRev /\ events' = events /\ recvOut' = recvOut /\ lost' = lost
    BY <2>1
  <2> HIDE DEF lineVars
  <2>8. QED
    BY <2>5, <2>6, <2>7 DEF Forwarded, Settled, SelfSent
<1>5. CASE HandleOp
  <2> DEFINE o == Head(batch)
  <2>1. /\ o \in Ops /\ o = batch[1] /\ 1 \in 1..Len(batch) /\ UNCHANGED <<lineVars, savedRev, lost>>
        /\ rev' = rev + 1 /\ recvOut' = IF kind[o] = "direct" THEN Append(recvOut, o) ELSE recvOut
        /\ events' = Collected(o)
    BY <1>1, <1>5, HeadTail DEF HandleOp
  <2> HIDE DEF o
  <2>2. o = lineLog[rev + 1] /\ Contains(lineLog, o)
    <3>1. rev + 1 \in 1..Len(lineLog) /\ o = lineLog[rev + 1]
      BY <1>1, <1>2, <2>1 DEF InRound
    <3>2. QED
      BY <3>1 DEF Contains
  <2>3. \A x : Contains(recvOut, x) => Contains(recvOut', x)
    BY <1>1, <2>1, AppendHas
  <2>4. \A c \in Events : \A x : Contains(events[c], x) \/ (x = o /\ kind[o] = c) => Contains(events'[c], x)
    <3>1. ASSUME NEW c \in Events, NEW x, Contains(events[c], x) \/ (x = o /\ kind[o] = c)
          PROVE  Contains(events'[c], x)
      <4>1. events'[c] = IF kind[o] = c THEN Append(events[c], o) ELSE events[c]
        BY <2>1 DEF Collected
      <4>2. Contains(Append(events[c], o), x) <=> Contains(events[c], x) \/ x = o
        BY <1>1, <2>1, AppendHas
      <4>3. QED
        BY <3>1, <4>1, <4>2
    <3>2. QED
      BY <3>1
  <2>5. \/ kind[o] \in {"mine", "elsewhere"} \/ Contains(recvOut', o)
        \/ \E c \in Events : Contains(events'[c], o)
    <3>1. kind[o] \in {"direct", "mine", "elsewhere"} \cup Events
      BY <1>1, <2>1, <2>2 DEF Known, Kinds
    <3>2. kind[o] = "direct" => Contains(recvOut', o)
      BY <1>1, <2>1, AppendHas
    <3>3. QED
      BY <2>4, <3>1, <3>2
  <2>6. ASSUME NEW k \in 1..(rev + 1)
        PROVE  \/ SelfSent(lineLog[k]) \/ Contains(recvOut', lineLog[k]) \/ lineLog[k] \in lost
               \/ \E c \in Events : Contains(events'[c], lineLog[k])
    <3>1. CASE k = rev + 1
      BY <2>2, <2>5, <3>1 DEF SelfSent
    <3>2. CASE k # rev + 1
      <4>1. k \in 1..rev
        BY <1>2, <3>2
      <4>2. QED
        BY <2>3, <2>4, <4>1 DEF Forwarded, Settled
    <3>3. QED
      BY <3>1, <3>2
  <2>7. \A k \in 1..savedRev : SelfSent(lineLog[k]) \/ Contains(recvOut', lineLog[k]) \/ lineLog[k] \in lost
    BY <2>3 DEF Forwarded, Settled
  <2>8. /\ \A k \in 1..savedRev : Settled(lineLog[k])'
        /\ \A k \in 1..(rev + 1) : Settled(lineLog[k])' \/ \E c \in Events : Contains(events[c], lineLog[k])'
    BY <2>1, <2>6, <2>7 DEF Settled, SelfSent, Contains
  <2>9. QED
    BY <2>1, <2>8 DEF Forwarded
<1>6. ASSUME UNCHANGED <<lineVars, savedRev, rev>>, lost \subseteq lost',
             \A x : Contains(recvOut, x) => Contains(recvOut', x),
             \A c \in Events : \A x : Contains(events[c], x) => Contains(events'[c], x) \/ Contains(recvOut', x)
      PROVE  Forwarded'
  <2>1. \A k \in 1..savedRev : SelfSent(lineLog[k]) \/ Contains(recvOut', lineLog[k]) \/ lineLog[k] \in lost'
    BY <1>6 DEF Forwarded, Settled
  <2>2. \A k \in 1..rev : \/ SelfSent(lineLog[k]) \/ Contains(recvOut', lineLog[k]) \/ lineLog[k] \in lost'
                          \/ \E c \in Events : Contains(events'[c], lineLog[k])
    BY <1>6 DEF Forwarded, Settled
  <2>3. QED
    BY <1>6, <2>1, <2>2 DEF Forwarded, Settled, SelfSent, Contains
<1>7. CASE AppendEvent
  <2>1. PICK c \in Events : /\ events[c] # <<>> /\ recvOut' = Append(recvOut, Head(events[c]))
                            /\ events' = [events EXCEPT ![c] = Tail(@)]
    BY <1>7 DEF AppendEvent
  <2>2. /\ Head(events[c]) \in Ops
        /\ \A x : Contains(events[c], x) <=> x = Head(events[c]) \/ Contains(Tail(events[c]), x)
    BY <1>1, <2>1, HeadTail
  <2>3. \A x : Contains(recvOut', x) <=> Contains(recvOut, x) \/ x = Head(events[c])
    BY <2>1, <2>2, RecvAppend
  <2>4. \A d \in Events : events'[d] = IF d = c THEN Tail(events[c]) ELSE events[d]
    BY <1>1, <2>1
  <2>5. \A d \in Events : \A x : Contains(events[d], x) => Contains(events'[d], x) \/ Contains(recvOut', x)
    BY <2>2, <2>3, <2>4
  <2>6. UNCHANGED <<lineVars, savedRev, rev, lost>>
    BY <1>7 DEF AppendEvent
  <2>7. QED
    BY <1>6, <2>3, <2>5, <2>6
<1>8. \A c \in Events : \A x : ~Contains(NoEvents[c], x)
  BY DEF NoEvents, Contains
<1>9. CASE Sync
  <2>1. UNCHANGED <<lineVars, savedRev, rev, recvOut, lost>> /\ events = NoEvents
    BY <1>9 DEF Sync, InRound
  <2>2. QED
    BY <1>6, <1>8, <2>1
<1>10. CASE SaveRev
  <2>1. /\ UNCHANGED <<lineVars, rev, recvOut, lost>> /\ savedRev' = rev
        /\ events = NoEvents /\ events' = NoEvents
    BY <1>10 DEF SaveRev, RoundOver
  <2>2. \A k \in 1..rev : Settled(lineLog[k])
    BY <1>8, <2>1 DEF Forwarded
  <2>3. QED
    BY <2>1, <2>2 DEF Forwarded, Settled, SelfSent, Contains
<1>11. CASE BridgeRestart
  <2>1. UNCHANGED <<lineVars, savedRev, recvOut, lost>> /\ rev' = savedRev
    BY <1>11 DEF BridgeRestart
  <2>2. \A k \in 1..savedRev : Settled(lineLog[k])
    BY DEF Forwarded
  <2>3. QED
    BY <2>1, <2>2 DEF Forwarded, Settled, SelfSent, Contains
<1>12. CASE FlushAppend
  <2>1. /\ UNCHANGED <<lineVars, savedRev, rev, events, lost>>
        /\ flushing \in Ops /\ recvOut' = Append(recvOut, flushing)
    BY <1>12 DEF FlushAppend, TypeOK
  <2>2. \A x : Contains(recvOut, x) => Contains(recvOut', x)
    BY <2>1, RecvAppend
  <2>3. QED
    BY <1>6, <2>1, <2>2
<1>13. CASE UNCHANGED <<lineVars, savedRev, rev, recvOut, events, lost>>
  BY <1>6, <1>13
<1>14. ASSUME NEW o \in Ops, Answer(o) \/ FlushTake(o) PROVE Forwarded'
  BY <1>13, <1>14 DEF Answer, FlushTake
<1>15. CASE PumpSize \/ PumpMove \/ PumpCursor \/ WorkerRestart \/ UNCHANGED vars
  BY <1>13, <1>15 DEF PumpSize, PumpMove, PumpCursor, WorkerRestart, vars
<1>16. CASE SkipMessage \/ AbortRound \/ EndFails \/ FlushFails
  <2>1. lost \subseteq lost' /\ UNCHANGED <<lineVars, savedRev, recvOut>>
    BY <1>16, FailLoses
  <2>2. \A c \in Events : \A x : Contains(events[c], x) /\ (EndFails \/ AbortRound) => Contains(recvOut, x) \/ x \in lost'
    <3>1. ASSUME NEW c \in Events, NEW x, Contains(events[c], x), EndFails \/ AbortRound
          PROVE  Contains(recvOut, x) \/ x \in lost'
      <4>1. x \in ToSet(events[c])
        BY <1>1, <3>1, Elements
      <4>2. x \in Waiting(events)
        BY <4>1 DEF Waiting
      <4>3. x \in ToSet(recvOut) \/ x \in lost'
        BY <3>1, <4>2 DEF EndFails, AbortRound, Lose
      <4>4. QED
        BY <1>1, <4>3, Elements
    <3>2. QED
      BY <3>1
  <2>3. CASE SkipMessage \/ AbortRound
    <3>1. /\ batch # <<>> /\ rev' = rev + 1 /\ Lose({Head(batch)} \cup (IF AbortRound THEN Waiting(events) ELSE {}))
          /\ events' = events \/ AbortRound
      BY <2>3 DEF SkipMessage, AbortRound
    <3>2. /\ Head(batch) = batch[1] /\ 1 \in 1..Len(batch)
      BY <1>1, <3>1, HeadTail
    <3>3. Head(batch) = lineLog[rev + 1]
      BY <1>1, <1>2, <3>2 DEF InRound
    <3>4. lineLog[rev + 1] \in ToSet(recvOut) \/ lineLog[rev + 1] \in lost'
      BY <3>1, <3>3 DEF Lose
    <3>5. Contains(recvOut, lineLog[rev + 1]) \/ lineLog[rev + 1] \in lost'
      BY <1>1, <3>4, Elements
    <3>6. ASSUME NEW k \in 1..(rev + 1)
          PROVE  \/ SelfSent(lineLog[k]) \/ Contains(recvOut, lineLog[k]) \/ lineLog[k] \in lost'
                 \/ \E c \in Events : Contains(events'[c], lineLog[k])
      <4>1. CASE k = rev + 1
        BY <3>5, <4>1
      <4>2. CASE k # rev + 1
        <5>1. k \in 1..rev
          BY <1>2, <4>2
        <5>2. Settled(lineLog[k]) \/ \E c \in Events : Contains(events[c], lineLog[k])
          BY <5>1 DEF Forwarded
        <5>3. QED
          BY <2>1, <2>2, <3>1, <5>2 DEF Settled
      <4>3. QED
        BY <4>1, <4>2
    <3>7. \A k \in 1..savedRev : SelfSent(lineLog[k]) \/ Contains(recvOut, lineLog[k]) \/ lineLog[k] \in lost'
      BY <2>1 DEF Forwarded, Settled
    <3>8. QED
      BY <2>1, <3>1, <3>6, <3>7 DEF Forwarded, Settled, SelfSent, Contains
  <2>4. CASE EndFails \/ FlushFails
    <3>1. rev' = rev /\ (events' = events \/ EndFails)
      BY <2>4 DEF EndFails, FlushFails
    <3>2. /\ \A x : Contains(recvOut, x) => Contains(recvOut', x)
          /\ \A k \in 1..savedRev : SelfSent(lineLog[k]) \/ Contains(recvOut, lineLog[k]) \/ lineLog[k] \in lost'
          /\ \A k \in 1..rev : \/ SelfSent(lineLog[k]) \/ Contains(recvOut, lineLog[k]) \/ lineLog[k] \in lost'
                               \/ \E c \in Events : Contains(events'[c], lineLog[k])
      BY <2>1, <2>2, <3>1 DEF Forwarded, Settled
    <3>3. QED
      BY <2>1, <3>1, <3>2 DEF Forwarded, Settled, SelfSent, Contains
  <2>5. QED
    BY <1>16, <2>3, <2>4
<1>17. QED
  BY <1>4, <1>5, <1>7, <1>9, <1>10, <1>11, <1>12, <1>14, <1>15, <1>16 DEF Next, Round, Flush, Pump

(* Every step keeps the bridge's own messages from the phone.                *)
LEMMA EchoStep ==
    ASSUME TypeOK, Known, InRound, NoEcho, [Next]_vars
    PROVE  NoEcho'
<1> USE InboundAssumption DEF lineVars, sendVars, roundVars, selfVars, workerVars, faultVars
<1>1. /\ recvOut \in Seq(Ops) /\ batch \in Seq(Ops) /\ events \in [Events -> Seq(Ops)]
      /\ outstanding \subseteq Ops /\ sendOut \subseteq Ops /\ flushing \in Ops \cup {None}
      /\ ownSent \subseteq sendOut
  BY DEF TypeOK
<1>2. \A i \in 1..Len(recvOut) : recvOut[i] \in Ops /\ kind[recvOut[i]] # "none"
  BY <1>1 DEF Known
<1>3. ASSUME NEW o \in Ops, SendMine(o) PROVE NoEcho'
  <2>1. outstanding' = outstanding \cup {o} /\ kind[o] = "none" /\ UNCHANGED <<sendOut, recvOut, flushing>>
    BY <1>3 DEF SendMine
  <2>2. flushing # o
    <3>1. flushing # None => kind[flushing] # "none"
      BY DEF Known, SelfSent
    <3>2. QED
      BY <1>1, <2>1, <3>1
  <2>3. QED
    BY <1>2, <2>1, <2>2 DEF NoEcho
<1>4. ASSUME outstanding' \cup sendOut' \subseteq outstanding \cup sendOut,
             UNCHANGED recvOut, flushing' = flushing \/ flushing' \notin outstanding \cup sendOut
      PROVE  NoEcho'
  BY <1>4 DEF NoEcho
<1>5. ASSUME NEW o \in Ops, Answer(o) PROVE NoEcho'
  <2>1. outstanding' \cup sendOut' \subseteq outstanding \cup sendOut /\ UNCHANGED <<recvOut, flushing>>
    BY <1>5 DEF Answer
  <2>2. QED
    BY <1>4, <2>1
<1>6. ASSUME NEW o \in Ops, o \notin outstanding \cup sendOut, recvOut' = Append(recvOut, o),
             UNCHANGED <<outstanding, sendOut>>, flushing' = flushing \/ flushing' = None
      PROVE  NoEcho'
  <2>1. \A i \in 1..Len(recvOut') : recvOut'[i] \notin outstanding \cup sendOut
    BY <1>6, RecvAppend DEF NoEcho
  <2>2. QED
    BY <1>1, <1>6, <2>1 DEF NoEcho
<1>7. \A o \in outstanding \cup sendOut : kind[o] = "mine"
  BY DEF Known
<1>8. CASE HandleOp
  <2> DEFINE o == Head(batch)
  <2>1. o \in Ops /\ UNCHANGED <<outstanding, sendOut, flushing>>
        /\ recvOut' = IF kind[o] = "direct" THEN Append(recvOut, o) ELSE recvOut
    BY <1>1, <1>8, HeadTail DEF HandleOp
  <2> HIDE DEF o
  <2>2. CASE kind[o] = "direct"
    BY <1>6, <1>7, <2>1, <2>2
  <2>3. CASE kind[o] # "direct"
    BY <1>4, <2>1, <2>3
  <2>4. QED
    BY <2>2, <2>3
<1>9. CASE AppendEvent
  <2>1. PICK c \in Events : events[c] # <<>> /\ recvOut' = Append(recvOut, Head(events[c]))
    BY <1>9 DEF AppendEvent
  <2>2. Head(events[c]) \in Ops /\ Head(events[c]) = events[c][1] /\ 1 \in 1..Len(events[c])
    BY <1>1, <2>1, HeadTail
  <2>3. kind[Head(events[c])] # "mine"
    BY <2>2 DEF Known, Events
  <2>4. UNCHANGED <<outstanding, sendOut, flushing>>
    BY <1>9 DEF AppendEvent
  <2>5. QED
    BY <1>6, <1>7, <2>1, <2>2, <2>3, <2>4
<1>10. ASSUME NEW o \in Ops, FlushTake(o) PROVE NoEcho'
  <2>1. /\ UNCHANGED <<outstanding, sendOut, recvOut>> /\ o \notin outstanding
        /\ flushing' = IF Own(o) THEN None ELSE o
    BY <1>10 DEF FlushTake
  <2>2. Own(o) <=> o \in sendOut
    BY <1>1 DEF Own
  <2>3. flushing' \notin outstanding \cup sendOut
    BY <1>1, <2>1, <2>2
  <2>4. QED
    BY <1>4, <2>1, <2>3
<1>11. CASE FlushAppend
  <2>1. /\ flushing \in Ops /\ recvOut' = Append(recvOut, flushing) /\ flushing' = None
        /\ UNCHANGED <<outstanding, sendOut>>
    BY <1>1, <1>11 DEF FlushAppend
  <2>2. QED
    BY <1>6, <2>1 DEF NoEcho
<1>12. CASE BridgeRestart
  <2>1. outstanding' = {} /\ UNCHANGED <<sendOut, recvOut>> /\ flushing' = None
    BY <1>12 DEF BridgeRestart
  <2>2. None \notin outstanding \cup sendOut
    BY <1>1
  <2>3. QED
    BY <1>4, <2>1, <2>2
<1>13. CASE UNCHANGED <<outstanding, sendOut, recvOut, flushing>>
  BY <1>4, <1>13
<1>14. ASSUME NEW o \in Ops, LineOp(o) PROVE NoEcho'
  BY <1>13, <1>14 DEF LineOp
<1>15. CASE Sync \/ SaveRev \/ PumpSize \/ PumpMove \/ PumpCursor \/ WorkerRestart \/ UNCHANGED vars
  BY <1>13, <1>15 DEF Sync, SaveRev, PumpSize, PumpMove, PumpCursor, WorkerRestart, vars
<1>16. CASE SkipMessage \/ AbortRound \/ EndFails \/ FlushFails
  <2>1. UNCHANGED <<outstanding, sendOut, recvOut>> /\ (flushing' = flushing \/ flushing' = None)
    BY <1>16 DEF SkipMessage, AbortRound, EndFails, FlushFails
  <2>2. None \notin outstanding \cup sendOut
    BY <1>1
  <2>3. QED
    BY <1>4, <2>1, <2>2
<1>17. QED
  BY <1>3, <1>5, <1>8, <1>9, <1>10, <1>11, <1>12, <1>14, <1>15, <1>16 DEF Next, Round, Flush, Pump

-----------------------------------------------------------------------------
\* A message or receipt of others in s stands behind those that LINE produced
\* before it, the lost ones aside: a second copy, after a restart, comes behind.
InOrder(s) ==
    \A i \in 1..Len(s), p \in 1..Len(lineLog), q \in 1..Len(lineLog) :
        /\ q < p /\ s[i] = lineLog[p]
        /\ s[i] \in Through /\ lineLog[q] \in Through
        => \E h \in 1..(i - 1) : s[h] = lineLog[q]

\* The outbox holds what the worker's cursor has passed and could read, each once,
\* and nothing that is not in recv_out.jsonl.
Boxes ==
    /\ Injective(outbox)
    /\ \A i \in 1..Len(outbox) : Contains(recvOut, outbox[i])
    /\ \A k \in 1..curRecv : recvOut[k] \in cut \/ Contains(outbox, recvOut[k])
    /\ pump = "moved" => \A k \in 1..size : recvOut[k] \in cut \/ Contains(outbox, recvOut[k])

OrderInv == InOrder(recvOut) /\ InOrder(outbox) /\ Boxes

(* A new operation of the account changes nothing for what is on its way.    *)
LEMMA NewOpOrder ==
    ASSUME TypeOK, Known, OrderInv, NEW o \in Ops, LineOp(o) \/ SendMine(o)
    PROVE  OrderInv'
<1> USE DEF lineVars, sendVars, roundVars, selfVars, workerVars, faultVars
<1>1. /\ lineLog' = Append(lineLog, o) /\ kind[o] = "none" /\ \A x \in Ops : x # o => kind'[x] = kind[x]
      /\ cut' = cut \/ cut' = cut \cup {o}
      /\ UNCHANGED <<recvOut, outbox, curRecv, pump, size, lost>>
  BY DEF LineOp, SendMine, TypeOK
<1>2. /\ Len(lineLog') = Len(lineLog) + 1 /\ lineLog'[Len(lineLog) + 1] = o /\ Len(lineLog) \in Nat
      /\ \A i \in 1..Len(lineLog) : lineLog'[i] = lineLog[i]
  BY <1>1, AppendParts DEF TypeOK
<1>3. ~Contains(lineLog, o)
  BY <1>1 DEF Known
<1>4. \A i \in 1..Len(lineLog) : lineLog[i] \in Ops /\ lineLog[i] # o
  BY <1>3 DEF TypeOK, Contains
<1>0. \A x : x # o => (x \in Through' <=> x \in Through) /\ (x \in cut => x \in cut')
  BY <1>1 DEF Through
<1>5. ASSUME NEW s, InOrder(s), \A i \in 1..Len(s) : s[i] \in Ops /\ s[i] # o,
             NEW i \in 1..Len(s), NEW p \in 1..Len(lineLog'), NEW q \in 1..Len(lineLog'),
             q < p, s[i] = lineLog'[p], s[i] \in Through', lineLog'[q] \in Through'
      PROVE  \E h \in 1..(i - 1) : s[h] = lineLog'[q]
  <2>1. p # Len(lineLog) + 1
    BY <1>2, <1>5
  <2>2. p \in 1..Len(lineLog) /\ q \in 1..Len(lineLog)
    BY <1>2, <1>5, <2>1
  <2>3. lineLog'[p] = lineLog[p] /\ lineLog'[q] = lineLog[q] /\ lineLog[q] \in Ops /\ lineLog[q] # o
    BY <1>2, <1>4, <2>2
  <2>4. s[i] \in Through /\ lineLog[q] \in Through
    BY <1>0, <1>5, <2>3
  <2>5. QED
    BY <1>5, <2>2, <2>3, <2>4 DEF InOrder
<1>6. /\ \A i \in 1..Len(recvOut) : recvOut[i] \in Ops /\ recvOut[i] # o
      /\ \A i \in 1..Len(outbox) : outbox[i] \in Ops /\ outbox[i] # o
  <2>1. \A i \in 1..Len(recvOut) : recvOut[i] \in Ops /\ recvOut[i] # o
    BY <1>3 DEF TypeOK, Known
  <2>2. \A i \in 1..Len(outbox) : outbox[i] \in Ops /\ outbox[i] # o
    BY <2>1 DEF TypeOK, OrderInv, Boxes, Contains
  <2>3. QED
    BY <2>1, <2>2
<1>7. \A i \in 1..Len(recvOut), p \in 1..Len(lineLog'), q \in 1..Len(lineLog') :
         /\ q < p /\ recvOut[i] = lineLog'[p]
         /\ recvOut[i] \in Through' /\ lineLog'[q] \in Through'
         => \E h \in 1..(i - 1) : recvOut[h] = lineLog'[q]
  BY <1>5, <1>6 DEF OrderInv
<1>8. \A i \in 1..Len(outbox), p \in 1..Len(lineLog'), q \in 1..Len(lineLog') :
         /\ q < p /\ outbox[i] = lineLog'[p]
         /\ outbox[i] \in Through' /\ lineLog'[q] \in Through'
         => \E h \in 1..(i - 1) : outbox[h] = lineLog'[q]
  BY <1>5, <1>6 DEF OrderInv
<1>9. Boxes'
  <2>1. \A x : x \in cut => x \in cut'
    BY <1>1
  <2>2. QED
    BY <1>1, <2>1 DEF OrderInv, Boxes, Injective, Contains
<1>10. InOrder(recvOut)'
  <2>1. recvOut' = recvOut
    BY <1>1
  <2>2. QED
    BY <1>7, <2>1 DEF InOrder
<1>11. InOrder(outbox)'
  <2>1. outbox' = outbox
    BY <1>1
  <2>2. QED
    BY <1>8, <2>1 DEF InOrder
<1>12. QED
  BY <1>9, <1>10, <1>11 DEF OrderInv

(* A step that leaves the account and the outbox alone and adds to           *)
(* recv_out.jsonl nothing, something that is no message of others, or the    *)
(* one all of whose predecessors are there.                                  *)
LEMMA RecvOrder ==
    ASSUME TypeOK, OrderInv, UNCHANGED <<kind, cut, lineLog, outbox, curRecv, pump, size>>,
           lost \subseteq lost',
           \/ UNCHANGED recvOut
           \/ \E u \in Ops : /\ recvOut' = Append(recvOut, u)
                             /\ u \in Through => \A p, q \in 1..Len(lineLog) :
                                   u = lineLog[p] /\ q < p /\ lineLog[q] \in Through
                                      => Contains(recvOut, lineLog[q])
    PROVE  OrderInv'
<1>0. \A x : x \in Through' => x \in Through
  BY DEF Through
<1>1. InOrder(outbox)'
  BY <1>0 DEF OrderInv, InOrder
<1>2. CASE UNCHANGED recvOut
  <2>1. InOrder(recvOut)'
    <3>1. recvOut' = recvOut /\ lineLog' = lineLog
      BY <1>2
    <3>2. InOrder(recvOut)
      BY DEF OrderInv
    <3>3. QED
      BY <1>0, <3>1, <3>2 DEF InOrder
  <2>2. Boxes'
    BY <1>2 DEF OrderInv, Boxes, Injective, Contains
  <2>3. QED
    BY <1>1, <2>1, <2>2 DEF OrderInv
<1>3. ASSUME NEW u \in Ops, recvOut' = Append(recvOut, u),
             u \in Through => \A p, q \in 1..Len(lineLog) :
                u = lineLog[p] /\ q < p /\ lineLog[q] \in Through => Contains(recvOut, lineLog[q])
      PROVE  OrderInv'
  <2>1. /\ recvOut \in Seq(Ops) /\ Len(recvOut) \in Nat /\ Len(recvOut') = Len(recvOut) + 1
        /\ recvOut'[Len(recvOut) + 1] = u
        /\ \A i \in 1..Len(recvOut) : recvOut'[i] = recvOut[i]
        /\ \A x : Contains(recvOut', x) <=> Contains(recvOut, x) \/ x = u
    BY <1>3, AppendParts, AppendHas DEF TypeOK
  <2>2. ASSUME NEW i \in 1..(Len(recvOut) + 1), NEW p \in 1..Len(lineLog), NEW q \in 1..Len(lineLog),
               q < p, recvOut'[i] = lineLog[p], recvOut'[i] \in Through, lineLog[q] \in Through
        PROVE  \E h \in 1..(i - 1) : recvOut'[h] = lineLog[q]
    <3>1. CASE i = Len(recvOut) + 1
      <4>1. Contains(recvOut, lineLog[q])
        BY <1>3, <2>1, <2>2, <3>1
      <4>2. PICK h \in 1..Len(recvOut) : recvOut[h] = lineLog[q]
        BY <4>1 DEF Contains
      <4>3. QED
        BY <2>1, <3>1, <4>2
    <3>2. CASE i # Len(recvOut) + 1
      <4>1. i \in 1..Len(recvOut)
        BY <2>1, <3>2
      <4>2. PICK h \in 1..(i - 1) : recvOut[h] = lineLog[q]
        BY <2>1, <2>2, <4>1 DEF OrderInv, InOrder
      <4>3. QED
        BY <2>1, <4>1, <4>2
    <3>3. QED
      BY <3>1, <3>2
  <2>3. InOrder(recvOut)'
    BY <1>0, <2>1, <2>2 DEF InOrder
  <2>4. \A k \in 1..curRecv : recvOut'[k] \in cut \/ Contains(outbox, recvOut'[k])
    <3>1. \A k \in 1..curRecv : recvOut'[k] = recvOut[k]
      BY <2>1 DEF TypeOK
    <3>2. QED
      BY <3>1 DEF OrderInv, Boxes
  <2>5. pump = "moved" => \A k \in 1..size : recvOut'[k] \in cut \/ Contains(outbox, recvOut'[k])
    <3>1. \A k \in 1..size : recvOut'[k] = recvOut[k]
      BY <2>1 DEF TypeOK
    <3>2. QED
      BY <3>1 DEF OrderInv, Boxes
  <2>6. \A i \in 1..Len(outbox) : Contains(recvOut', outbox[i])
    BY <2>1 DEF OrderInv, Boxes
  <2>7. Boxes'
    BY <2>4, <2>5, <2>6 DEF OrderInv, Boxes, Injective, Contains
  <2>8. QED
    BY <1>1, <2>3, <2>7 DEF OrderInv
<1>4. QED
  BY <1>2, <1>3

(* The worker moves the new lines: what a line follows is in the outbox or   *)
(* moves in front of it.                                                     *)
LEMMA MoveOrder ==
    ASSUME TypeOK, OrderInv, PumpMove
    PROVE  /\ OrderInv'
           /\ Len(outbox) <= Len(outbox') /\ \A i \in 1..Len(outbox) : outbox'[i] = outbox[i]
<1> USE DEF lineVars, sendVars, roundVars, selfVars, faultVars
<1> DEFINE items == SubSeq(recvOut, curRecv + 1, Len(recvOut))
<1>1. /\ recvOut \in Seq(Ops) /\ curRecv \in 0..Len(recvOut) /\ outbox \in Seq(Ops)
      /\ Injective(outbox) /\ size \in 0..Len(recvOut)
  BY DEF TypeOK, OrderInv, Boxes
<1>2. /\ items \in Seq(Ops) /\ Len(items) = Len(recvOut) - curRecv
      /\ \A i \in 1..Len(items) : items[i] = recvOut[curRecv + i]
  BY <1>1
<1>3. Boxed(items, Len(items), outbox')
  BY <1>1, <1>2, BoxAll DEF PumpMove
<1>4. UNCHANGED <<kind, cut, lost, lineLog, recvOut, curRecv, size>>
  BY DEF PumpMove
<1> HIDE DEF items
<1>5. /\ outbox' \in Seq(Ops) /\ Len(outbox) \in Nat /\ Len(outbox') \in Nat /\ Len(outbox) <= Len(outbox')
      /\ \A i \in 1..Len(outbox) : outbox'[i] = outbox[i]
  BY <1>1, <1>3 DEF Boxed
<1>6. \A x : Contains(outbox, x) => Contains(outbox', x)
  BY <1>5 DEF Contains
<1>7. \A k \in 1..Len(recvOut) : recvOut[k] \in cut \/ Contains(outbox', recvOut[k])
  <2>1. ASSUME NEW k \in 1..Len(recvOut) PROVE recvOut[k] \in cut \/ Contains(outbox', recvOut[k])
    <3>1. CASE k \in 1..curRecv
      BY <1>6, <3>1 DEF OrderInv, Boxes
    <3>2. CASE k \notin 1..curRecv
      <4>1. k - curRecv \in 1..Len(items) /\ curRecv + (k - curRecv) = k
        BY <1>1, <1>2, <3>2
      <4>2. QED
        BY <1>2, <1>3, <4>1 DEF Boxed
    <3>3. QED
      BY <3>1, <3>2
  <2>2. QED
    BY <2>1
<1>8. ASSUME NEW p \in 1..Len(outbox')
      PROVE  \/ p \in 1..Len(outbox) /\ outbox'[p] = outbox[p]
             \/ /\ p > Len(outbox)
                /\ \E i \in 1..Len(items) :
                      /\ items[i] = outbox'[p]
                      /\ \A h \in 1..(i - 1) :
                            items[h] \in cut \/ \E q \in 1..(p - 1) : outbox'[q] = items[h]
  <2>1. CASE p \in 1..Len(outbox)
    BY <1>5, <2>1
  <2>2. CASE p \notin 1..Len(outbox)
    <3>1. p \in (Len(outbox) + 1)..Len(outbox') /\ p > Len(outbox)
      BY <1>5, <2>2
    <3>2. QED
      BY <1>3, <3>1 DEF Boxed
  <2>3. QED
    BY <2>1, <2>2
<1>9. \A i \in 1..Len(items) : curRecv + i \in 1..Len(recvOut)
  BY <1>1, <1>2
<1>10. \A p \in 1..Len(outbox') : Contains(recvOut, outbox'[p])
  <2>1. ASSUME NEW p \in 1..Len(outbox') PROVE Contains(recvOut, outbox'[p])
    <3>1. CASE p \in 1..Len(outbox) /\ outbox'[p] = outbox[p]
      BY <3>1 DEF OrderInv, Boxes
    <3>2. CASE \E i \in 1..Len(items) : items[i] = outbox'[p]
      BY <1>2, <1>9, <3>2 DEF Contains
    <3>3. QED
      BY <1>8, <3>1, <3>2
  <2>2. QED
    BY <2>1
<1>11. Boxes'
  <2>1. Injective(outbox')
    BY <1>3 DEF Boxed
  <2>2. /\ \A k \in 1..curRecv : recvOut[k] \in cut \/ Contains(outbox', recvOut[k])
        /\ \A k \in 1..size : recvOut[k] \in cut \/ Contains(outbox', recvOut[k])
    BY <1>1, <1>7
  <2>3. QED
    BY <1>4, <1>10, <2>1, <2>2 DEF Boxes, Injective, Contains
<1>12. ASSUME NEW i \in 1..Len(outbox'), NEW p \in 1..Len(lineLog), NEW q \in 1..Len(lineLog),
              q < p, outbox'[i] = lineLog[p], outbox'[i] \in Through, lineLog[q] \in Through
       PROVE  \E h \in 1..(i - 1) : outbox'[h] = lineLog[q]
  <2>1. CASE i \in 1..Len(outbox) /\ outbox'[i] = outbox[i]
    <3>1. PICK h \in 1..(i - 1) : outbox[h] = lineLog[q]
      BY <1>12, <2>1 DEF OrderInv, InOrder
    <3>2. h \in 1..Len(outbox)
      BY <1>5, <2>1
    <3>3. QED
      BY <1>5, <3>1, <3>2
  <2>2. ASSUME i > Len(outbox), NEW j \in 1..Len(items), items[j] = outbox'[i],
               \A h \in 1..(j - 1) : items[h] \in cut \/ \E l \in 1..(i - 1) : outbox'[l] = items[h]
        PROVE  \E h \in 1..(i - 1) : outbox'[h] = lineLog[q]
    <3> DEFINE e == curRecv + j
    <3>1. e \in 1..Len(recvOut) /\ recvOut[e] = lineLog[p] /\ recvOut[e] \in Through
      BY <1>2, <1>9, <1>12, <2>2
    <3> HIDE DEF e
    <3>2. PICK h \in 1..(e - 1) : recvOut[h] = lineLog[q]
      BY <1>12, <3>1 DEF OrderInv, InOrder
    <3>6. lineLog[q] \notin cut
      BY <1>12 DEF Through
    <3>3. CASE h \in 1..curRecv
      <4>1. Contains(outbox, lineLog[q])
        BY <3>2, <3>3, <3>6 DEF OrderInv, Boxes
      <4>2. PICK l \in 1..Len(outbox) : outbox[l] = lineLog[q]
        BY <4>1 DEF Contains
      <4>3. l \in 1..(i - 1)
        BY <1>5, <2>2
      <4>4. QED
        BY <1>5, <4>2, <4>3
    <3>4. CASE h \notin 1..curRecv
      <4>1. /\ h - curRecv \in 1..(j - 1) /\ h - curRecv \in 1..Len(items)
            /\ curRecv + (h - curRecv) = h
        BY <1>1, <1>2, <3>4 DEF e
      <4>2. items[h - curRecv] = lineLog[q]
        BY <1>2, <3>2, <4>1
      <4>3. QED
        BY <2>2, <3>6, <4>1, <4>2
    <3>5. QED
      BY <3>3, <3>4
  <2>3. QED
    BY <1>8, <2>1, <2>2
<1>13. InOrder(outbox)'
  BY <1>4, <1>12 DEF InOrder, Through
<1>14. InOrder(recvOut)'
  BY <1>4 DEF OrderInv, InOrder, Through
<1>15. QED
  BY <1>5, <1>11, <1>13, <1>14 DEF OrderInv

(* Every step keeps the order.                                               *)
LEMMA OrderStep ==
    ASSUME TypeOK, Known, InRound, Forwarded, OrderInv, [Next]_vars
    PROVE  OrderInv'
<1> USE DEF lineVars, sendVars, roundVars, selfVars, workerVars, faultVars
<1>1. ASSUME NEW o \in Ops, LineOp(o) \/ SendMine(o) PROVE OrderInv'
  BY <1>1, NewOpOrder
<1>2. CASE UNCHANGED <<kind, cut, lineLog, outbox, curRecv, pump, size, recvOut>> /\ lost \subseteq lost'
  BY <1>2, RecvOrder
<1>3. ASSUME NEW u \in Ops, u \notin Through, recvOut' = Append(recvOut, u),
             UNCHANGED <<kind, cut, lost, lineLog, outbox, curRecv, pump, size>>
      PROVE  OrderInv'
  BY <1>3, RecvOrder
<1>4. CASE HandleOp
  <2> DEFINE o == Head(batch)
  <2>1. /\ o \in Ops /\ o = batch[1] /\ 1 \in 1..Len(batch)
        /\ UNCHANGED <<kind, cut, lost, lineLog, outbox, curRecv, pump, size>>
        /\ recvOut' = IF kind[o] = "direct" THEN Append(recvOut, o) ELSE recvOut
    BY <1>4, HeadTail DEF HandleOp, TypeOK
  <2> HIDE DEF o
  <2>2. CASE kind[o] # "direct"
    BY <1>2, <2>1, <2>2
  <2>3. CASE kind[o] = "direct"
    <3>1. rev + 1 \in 1..Len(lineLog) /\ o = lineLog[rev + 1] /\ rev \in Nat
      BY <2>1 DEF InRound, TypeOK
    <3>2. ASSUME NEW p \in 1..Len(lineLog), NEW q \in 1..Len(lineLog),
                 o = lineLog[p], q < p, lineLog[q] \in Through
          PROVE  Contains(recvOut, lineLog[q])
      <4>1. p = rev + 1
        <5>1. lineLog \in Seq(Ops) /\ IsInjective(lineLog)
          BY DEF TypeOK
        <5>2. p \in DOMAIN lineLog /\ rev + 1 \in DOMAIN lineLog
          BY <3>1, <5>1
        <5>3. QED
          BY <3>1, <3>2, <5>1, <5>2 DEF IsInjective
      <4>2. q \in 1..rev
        BY <3>1, <3>2, <4>1
      <4>3. ~SelfSent(lineLog[q]) /\ lineLog[q] \notin lost
        BY <3>2 DEF SelfSent, Through
      <4>4. \A c \in Events : ~Contains(events[c], lineLog[q])
        BY <3>2 DEF Known, Contains, Through, Events
      <4>5. QED
        BY <4>2, <4>3, <4>4 DEF Forwarded, Settled
    <3>3. QED
      BY <2>1, <2>3, <3>2, RecvOrder
  <2>4. QED
    BY <2>2, <2>3
<1>5. CASE AppendEvent
  <2>1. PICK c \in Events : events[c] # <<>> /\ recvOut' = Append(recvOut, Head(events[c]))
    BY <1>5 DEF AppendEvent
  <2>2. events[c] \in Seq(Ops)
    BY DEF TypeOK
  <2>3. Head(events[c]) \in Ops /\ Head(events[c]) = events[c][1] /\ 1 \in 1..Len(events[c])
    BY <2>1, <2>2, HeadTail
  <2>4. Head(events[c]) \notin Through
    BY <2>3 DEF Known, Events, Through
  <2>5. UNCHANGED <<kind, cut, lost, lineLog, outbox, curRecv, pump, size>>
    BY <1>5 DEF AppendEvent
  <2>6. QED
    BY <1>3, <2>1, <2>3, <2>4, <2>5
<1>6. CASE FlushAppend
  <2>1. flushing \in Ops /\ flushing \notin Through
    BY <1>6 DEF FlushAppend, TypeOK, Known, SelfSent, Through
  <2>2. /\ recvOut' = Append(recvOut, flushing)
        /\ UNCHANGED <<kind, cut, lost, lineLog, outbox, curRecv, pump, size>>
    BY <1>6 DEF FlushAppend
  <2>3. QED
    BY <1>3, <2>1, <2>2
<1>7. CASE PumpMove
  BY <1>7, MoveOrder
<1>8. CASE PumpSize \/ PumpCursor \/ WorkerRestart
  <2>1. UNCHANGED <<kind, cut, lost, lineLog, outbox, recvOut>>
    BY <1>8 DEF PumpSize, PumpCursor, WorkerRestart
  <2>2. /\ pump' # "moved"
        /\ curRecv' = curRecv \/ curRecv' = 0 \/ (pump = "moved" /\ curRecv' = size)
    BY <1>8 DEF PumpSize, PumpCursor, WorkerRestart, CursorAfter
  <2>3. Boxes'
    BY <2>1, <2>2 DEF OrderInv, Boxes, Injective, Contains
  <2>4. QED
    BY <2>1, <2>3 DEF OrderInv, InOrder, Through
<1>9. ASSUME NEW o \in Ops, Answer(o) \/ FlushTake(o) PROVE OrderInv'
  BY <1>2, <1>9 DEF Answer, FlushTake
<1>10. CASE Sync \/ SaveRev \/ BridgeRestart \/ UNCHANGED vars
  BY <1>2, <1>10 DEF Sync, SaveRev, BridgeRestart, vars
<1>11. CASE SkipMessage \/ AbortRound \/ EndFails \/ FlushFails
  <2>1. UNCHANGED <<kind, cut, lineLog, outbox, curRecv, pump, size, recvOut>> /\ lost \subseteq lost'
    BY <1>11, FailLoses
  <2>2. QED
    BY <1>2, <2>1
<1>12. QED
  BY <1>1, <1>4, <1>5, <1>6, <1>7, <1>8, <1>9, <1>10, <1>11 DEF Next, Round, Flush, Pump

-----------------------------------------------------------------------------
\* One step of the recursion in Passing, and Passing with those that get
\* through as a parameter.
Keeping(K, s, kept, n) ==
    IF n = 0 THEN <<>>
    ELSE IF s[n] \in K THEN Append(kept[n - 1], s[n]) ELSE kept[n - 1]

Keep(K, s) ==
    LET kept[n \in 0..Len(s)] ==
            IF n = 0 THEN <<>>
            ELSE IF s[n] \in K THEN Append(kept[n - 1], s[n]) ELSE kept[n - 1]
    IN kept[Len(s)]

(* The recursion has a solution.                                             *)
LEMMA KeepExists ==
    ASSUME NEW K, NEW s \in Seq(Ops)
    PROVE  \E f : f = [n \in 0..Len(s) |-> Keeping(K, s, f, n)]
<1> DEFINE E == {m \in Nat : m <= Len(s) => \E f : f = [n \in 0..m |-> Keeping(K, s, f, n)]}
<1>1. 0 \in E
  <2> DEFINE f == [n \in 0..0 |-> <<>>]
  <2>1. f = [n \in 0..0 |-> Keeping(K, s, f, n)]
    BY DEF Keeping
  <2>2. QED
    BY <2>1
<1>2. ASSUME NEW m \in Nat, m \in E PROVE m + 1 \in E
  <2>1. SUFFICES ASSUME m + 1 <= Len(s)
                 PROVE  \E f : f = [n \in 0..(m + 1) |-> Keeping(K, s, f, n)]
    OBVIOUS
  <2>2. PICK f : f = [n \in 0..m |-> Keeping(K, s, f, n)]
    BY <1>2, <2>1
  <2> DEFINE g == [n \in 0..(m + 1) |-> IF n = m + 1 THEN Keeping(K, s, f, n) ELSE f[n]]
  <2>3. ASSUME NEW n \in 0..(m + 1) PROVE g[n] = Keeping(K, s, g, n)
    <3>1. g[n] = Keeping(K, s, f, n)
      BY <2>2
    <3>2. CASE n = 0
      BY <3>1, <3>2 DEF Keeping
    <3>3. CASE n # 0
      <4>1. n - 1 \in 0..m /\ n - 1 # m + 1 /\ n - 1 \in 0..(m + 1)
        BY <3>3
      <4>2. g[n - 1] = f[n - 1]
        BY <4>1
      <4>3. QED
        BY <3>1, <4>2 DEF Keeping
    <3>4. QED
      BY <3>2, <3>3
  <2>4. g = [n \in 0..(m + 1) |-> Keeping(K, s, g, n)]
    BY <2>3
  <2>5. QED
    BY <2>4
<1> HIDE DEF E
<1>3. Len(s) \in E
  BY <1>1, <1>2, CountUp
<1>4. QED
  BY <1>3 DEF E

\* The function the recursion defines.
KeptTo(K, s) == CHOOSE f : f = [n \in 0..Len(s) |-> Keeping(K, s, f, n)]

(* Its values, one by one.                                                   *)
LEMMA KeepSteps ==
    ASSUME NEW K, NEW s \in Seq(Ops)
    PROVE  /\ Keep(K, s) = KeptTo(K, s)[Len(s)]
           /\ KeptTo(K, s)[0] = <<>>
           /\ \A n \in Nat : n + 1 <= Len(s) =>
                 KeptTo(K, s)[n + 1] = IF s[n + 1] \in K
                                       THEN Append(KeptTo(K, s)[n], s[n + 1])
                                       ELSE KeptTo(K, s)[n]
<1> DEFINE kept == KeptTo(K, s)
<1>1. kept = [n \in 0..Len(s) |-> Keeping(K, s, kept, n)]
  BY KeepExists DEF KeptTo
<1>2. Keep(K, s) = kept[Len(s)]
  BY DEF Keep, Keeping, KeptTo
<1> HIDE DEF kept
<1>3. kept[0] = <<>>
  BY <1>1 DEF Keeping
<1>4. ASSUME NEW n \in Nat, n + 1 <= Len(s)
      PROVE  kept[n + 1] = IF s[n + 1] \in K THEN Append(kept[n], s[n + 1]) ELSE kept[n]
  <2>1. n + 1 \in 0..Len(s) /\ n + 1 # 0 /\ (n + 1) - 1 = n
    BY <1>4
  <2>2. QED
    BY <1>1, <2>1 DEF Keeping
<1>5. QED
  BY <1>2, <1>3, <1>4 DEF kept

\* P is what passes of the first n elements of s: at growing places, and every
\* one that passes.
Kept(K, s, n, P) ==
    /\ P \in Seq(Ops)
    /\ \E f \in [1..Len(P) -> 1..n] :
          /\ \A i, k \in 1..Len(P) : i < k => f[i] < f[k]
          /\ \A i \in 1..Len(P) : P[i] = s[f[i]] /\ P[i] \in K
          /\ \A k \in 1..n : s[k] \in K => \E i \in 1..Len(P) : f[i] = k

(* One element more.                                                         *)
LEMMA KeepOne ==
    ASSUME NEW K, NEW s \in Seq(Ops), NEW n \in Nat, n + 1 <= Len(s), NEW P, Kept(K, s, n, P)
    PROVE  Kept(K, s, n + 1, IF s[n + 1] \in K THEN Append(P, s[n + 1]) ELSE P)
<1> DEFINE u == s[n + 1]
<1>1. u \in Ops /\ P \in Seq(Ops) /\ Len(P) \in Nat
  BY DEF Kept
<1>2. PICK f \in [1..Len(P) -> 1..n] :
         /\ \A i, k \in 1..Len(P) : i < k => f[i] < f[k]
         /\ \A i \in 1..Len(P) : P[i] = s[f[i]] /\ P[i] \in K
         /\ \A k \in 1..n : s[k] \in K => \E i \in 1..Len(P) : f[i] = k
  BY DEF Kept
<1>3. \A k \in 1..(n + 1) : k = n + 1 \/ k \in 1..n
  OBVIOUS
<1>4. CASE u \notin K
  <2>1. f \in [1..Len(P) -> 1..(n + 1)]
    <3>1. 1..n \subseteq 1..(n + 1)
      OBVIOUS
    <3>2. QED
      BY <1>2, <3>1
  <2>2. \A k \in 1..(n + 1) : s[k] \in K => \E i \in 1..Len(P) : f[i] = k
    BY <1>2, <1>3, <1>4
  <2>3. Kept(K, s, n + 1, P)
    BY <1>1, <1>2, <2>1, <2>2 DEF Kept
  <2>4. QED
    BY <1>4, <2>3
<1>5. CASE u \in K
  <2> DEFINE t == Append(P, u)
             g == [i \in 1..(Len(P) + 1) |-> IF i = Len(P) + 1 THEN n + 1 ELSE f[i]]
  <2>1. /\ t \in Seq(Ops) /\ Len(t) = Len(P) + 1 /\ t[Len(P) + 1] = u
        /\ \A i \in 1..Len(P) : t[i] = P[i]
    BY <1>1, AppendParts
  <2> HIDE DEF t
  <2>2. \A i \in 1..(Len(P) + 1) : i = Len(P) + 1 \/ i \in 1..Len(P)
    BY <1>1
  <2>3. /\ g[Len(P) + 1] = n + 1
        /\ \A i \in 1..Len(P) : g[i] = f[i] /\ f[i] \in 1..n
    BY <1>1, <1>2
  <2>4. g \in [1..Len(t) -> 1..(n + 1)]
    BY <1>1, <1>2, <2>1
  <2> HIDE DEF g
  <2>5. \A i, k \in 1..Len(t) : i < k => g[i] < g[k]
    <3>1. ASSUME NEW i \in 1..Len(t), NEW k \in 1..Len(t), i < k PROVE g[i] < g[k]
      <4>1. i \in 1..Len(P) /\ g[i] = f[i] /\ f[i] \in 1..n
        BY <1>1, <2>1, <2>3, <3>1
      <4>2. CASE k = Len(P) + 1
        BY <2>3, <4>1, <4>2
      <4>3. CASE k \in 1..Len(P)
        BY <1>2, <2>3, <3>1, <4>1, <4>3
      <4>4. QED
        BY <2>1, <2>2, <4>2, <4>3
    <3>2. QED
      BY <3>1
  <2>6. \A i \in 1..Len(t) : t[i] = s[g[i]] /\ t[i] \in K
    <3>1. t[Len(P) + 1] = s[g[Len(P) + 1]] /\ t[Len(P) + 1] \in K
      BY <1>5, <2>1, <2>3
    <3>2. ASSUME NEW i \in 1..Len(P) PROVE t[i] = s[g[i]] /\ t[i] \in K
      <4>1. t[i] = P[i] /\ g[i] = f[i]
        BY <2>1, <2>3
      <4>2. P[i] = s[f[i]] /\ P[i] \in K
        BY <1>2
      <4>3. QED
        BY <4>1, <4>2
    <3>3. QED
      BY <2>1, <2>2, <3>1, <3>2
  <2>7. \A k \in 1..(n + 1) : s[k] \in K => \E i \in 1..Len(t) : g[i] = k
    <3>1. ASSUME NEW k \in 1..(n + 1), s[k] \in K PROVE \E i \in 1..Len(t) : g[i] = k
      <4>1. CASE k = n + 1
        <5>1. Len(P) + 1 \in 1..Len(t)
          BY <1>1, <2>1
        <5>2. QED
          BY <2>3, <4>1, <5>1
      <4>2. CASE k \in 1..n
        <5>1. PICK i \in 1..Len(P) : f[i] = k
          BY <1>2, <3>1, <4>2
        <5>2. i \in 1..Len(t)
          BY <1>1, <2>1
        <5>3. QED
          BY <2>3, <5>1, <5>2
      <4>3. QED
        BY <1>3, <4>1, <4>2
    <3>2. QED
      BY <3>1
  <2>8. Kept(K, s, n + 1, t)
    BY <2>1, <2>4, <2>5, <2>6, <2>7 DEF Kept
  <2>9. QED
    BY <1>5, <2>8 DEF t
<1>6. QED
  BY <1>4, <1>5

(* Passing, all elements.                                                    *)
LEMMA KeepAll ==
    ASSUME NEW K, NEW s \in Seq(Ops)
    PROVE  Kept(K, s, Len(s), Keep(K, s))
<1> DEFINE kept == KeptTo(K, s)
           E == {m \in Nat : m <= Len(s) => Kept(K, s, m, kept[m])}
<1>1. /\ Keep(K, s) = kept[Len(s)] /\ kept[0] = <<>>
      /\ \A n \in Nat : n + 1 <= Len(s) =>
            kept[n + 1] = IF s[n + 1] \in K THEN Append(kept[n], s[n + 1]) ELSE kept[n]
  BY KeepSteps
<1> HIDE DEF kept
<1>2. 0 \in E
  <2>1. Kept(K, s, 0, <<>>)
    <3> DEFINE P == <<>>
               f == [i \in 1..0 |-> 1]
    <3>1. P \in Seq(Ops) /\ Len(P) = 0 /\ f \in [1..0 -> 1..0] /\ 1..0 = {}
      OBVIOUS
    <3> HIDE DEF P
    <3>2. f \in [1..Len(P) -> 1..0] /\ 1..Len(P) = {}
      BY <3>1
    <3> HIDE DEF f
    <3>3. /\ \A i, k \in 1..Len(P) : i < k => f[i] < f[k]
          /\ \A i \in 1..Len(P) : P[i] = s[f[i]] /\ P[i] \in K
          /\ \A k \in 1..0 : s[k] \in K => \E i \in 1..Len(P) : f[i] = k
      BY <3>1, <3>2
    <3>4. Kept(K, s, 0, P)
      BY <3>1, <3>2, <3>3 DEF Kept
    <3>5. QED
      BY <3>4 DEF P
  <2>2. QED
    BY <1>1, <2>1
<1>3. ASSUME NEW m \in Nat, m \in E PROVE m + 1 \in E
  <2>1. SUFFICES ASSUME m + 1 <= Len(s) PROVE Kept(K, s, m + 1, kept[m + 1])
    OBVIOUS
  <2>2. Kept(K, s, m, kept[m])
    BY <1>3, <2>1
  <2>3. QED
    BY <1>1, <2>1, <2>2, KeepOne
<1> HIDE DEF E
<1>4. Len(s) \in E
  BY <1>2, <1>3, CountUp
<1>5. QED
  BY <1>1, <1>4 DEF E

(* What passes of a sequence does not depend on other operations, nor on     *)
(* what follows.                                                             *)
LEMMA KeepAgree ==
    ASSUME NEW K, NEW L, NEW s \in Seq(Ops), NEW t \in Seq(Ops), Len(s) <= Len(t),
           \A i \in 1..Len(s) : t[i] = s[i] /\ (s[i] \in L <=> s[i] \in K)
    PROVE  Keep(K, s) = KeptTo(L, t)[Len(s)]
<1> DEFINE a == KeptTo(K, s)  b == KeptTo(L, t)
           E == {m \in Nat : m <= Len(s) => a[m] = b[m]}
<1>1. /\ Keep(K, s) = a[Len(s)] /\ a[0] = <<>>
      /\ \A n \in Nat : n + 1 <= Len(s) =>
            a[n + 1] = IF s[n + 1] \in K THEN Append(a[n], s[n + 1]) ELSE a[n]
  BY KeepSteps
<1>2. /\ b[0] = <<>>
      /\ \A n \in Nat : n + 1 <= Len(t) =>
            b[n + 1] = IF t[n + 1] \in L THEN Append(b[n], t[n + 1]) ELSE b[n]
  BY KeepSteps
<1> HIDE DEF a, b
<1>3. 0 \in E
  BY <1>1, <1>2
<1>4. ASSUME NEW m \in Nat, m \in E PROVE m + 1 \in E
  <2>1. SUFFICES ASSUME m + 1 <= Len(s) PROVE a[m + 1] = b[m + 1]
    OBVIOUS
  <2>2. a[m] = b[m] /\ m + 1 \in 1..Len(s) /\ m + 1 <= Len(t)
    BY <1>4, <2>1
  <2>3. t[m + 1] = s[m + 1] /\ (s[m + 1] \in L <=> s[m + 1] \in K)
    BY <2>2
  <2>4. QED
    BY <1>1, <1>2, <2>1, <2>2, <2>3
<1> HIDE DEF E
<1>5. Len(s) \in E
  BY <1>3, <1>4, CountUp
<1>6. QED
  BY <1>1, <1>5 DEF E, b

(* What passes stays the same while nothing changes for what is in it.       *)
LEMMA KeepSame ==
    ASSUME NEW K, NEW L, NEW s \in Seq(Ops),
           \A i \in 1..Len(s) : s[i] \in L <=> s[i] \in K
    PROVE  Keep(L, s) = Keep(K, s)
<1>1. Keep(K, s) = KeptTo(L, s)[Len(s)]
  <2>1. Len(s) \in Nat /\ Len(s) <= Len(s)
    OBVIOUS
  <2>2. \A i \in 1..Len(s) : s[i] = s[i] /\ (s[i] \in L <=> s[i] \in K)
    OBVIOUS
  <2>3. QED
    BY <2>1, <2>2, KeepAgree
<1>2. QED
  BY <1>1, KeepSteps

(* One operation more passes when it gets through.                           *)
LEMMA KeepAppend ==
    ASSUME NEW K, NEW L, NEW s \in Seq(Ops), NEW o \in Ops,
           \A i \in 1..Len(s) : s[i] \in L <=> s[i] \in K
    PROVE  Keep(L, Append(s, o)) = IF o \in L THEN Append(Keep(K, s), o) ELSE Keep(K, s)
<1> DEFINE t == Append(s, o)
<1>1. /\ t \in Seq(Ops) /\ Len(t) = Len(s) + 1 /\ Len(s) \in Nat
      /\ \A i \in 1..Len(s) : t[i] = s[i]
      /\ t[Len(s) + 1] = o
  BY AppendParts
<1> HIDE DEF t
<1>2. Keep(K, s) = KeptTo(L, t)[Len(s)]
  <2>1. Len(s) <= Len(t) /\ \A i \in 1..Len(s) : t[i] = s[i] /\ (s[i] \in L <=> s[i] \in K)
    <3>1. Len(s) <= Len(t)
      BY <1>1
    <3>2. QED
      BY <1>1, <3>1
  <2>2. t \in Seq(Ops)
    BY <1>1
  <2>3. QED
    BY <2>1, <2>2, KeepAgree
<1>3. /\ Keep(L, t) = KeptTo(L, t)[Len(s) + 1]
      /\ KeptTo(L, t)[Len(s) + 1] = IF t[Len(s) + 1] \in L
                                     THEN Append(KeptTo(L, t)[Len(s)], t[Len(s) + 1])
                                     ELSE KeptTo(L, t)[Len(s)]
  BY <1>1, KeepSteps
<1>4. QED
  BY <1>1, <1>2, <1>3 DEF t

(* Passing is Keep with those that get through at the moment.                *)
LEMMA PassingKeeps ==
    /\ Passing(lineLog) = Keep(Through, lineLog)
    /\ Passing(outbox) = Keep(Through, outbox)
    /\ Passing(lineLog)' = Keep(Through', lineLog')
    /\ Passing(outbox)' = Keep(Through', outbox')
BY DEF Passing, Keep

\* Q is P without its k-th element.
Lacks(P, Q, k) ==
    /\ P \in Seq(Ops) /\ Q \in Seq(Ops) /\ k \in 1..Len(P) /\ Len(P) = Len(Q) + 1
    /\ \A i \in 1..Len(Q) : Q[i] = IF i < k THEN P[i] ELSE P[i + 1]

(* The same element behind both changes nothing about that.                  *)
LEMMA LacksGoesOn ==
    ASSUME NEW P, NEW Q, NEW k, Lacks(P, Q, k), NEW u \in Ops
    PROVE  Lacks(Append(P, u), Append(Q, u), k) /\ Append(P, u)[k] = P[k]
<1> DEFINE PU == Append(P, u)  QU == Append(Q, u)
<1>1. P \in Seq(Ops) /\ Q \in Seq(Ops) /\ k \in 1..Len(P) /\ Len(P) = Len(Q) + 1 /\ Len(Q) \in Nat
  BY DEF Lacks
<1>2. /\ PU \in Seq(Ops) /\ Len(PU) = Len(P) + 1 /\ PU[Len(P) + 1] = u
      /\ \A i \in 1..Len(P) : PU[i] = P[i]
  BY <1>1, AppendParts
<1>3. /\ QU \in Seq(Ops) /\ Len(QU) = Len(Q) + 1 /\ QU[Len(Q) + 1] = u
      /\ \A i \in 1..Len(Q) : QU[i] = Q[i]
  BY <1>1, AppendParts
<1> HIDE DEF PU, QU
<1>4. ASSUME NEW i \in 1..Len(QU) PROVE QU[i] = IF i < k THEN PU[i] ELSE PU[i + 1]
  <2>1. CASE i = Len(Q) + 1
    BY <1>1, <1>2, <1>3, <2>1
  <2>2. CASE i # Len(Q) + 1
    <3>1. i \in 1..Len(Q) /\ i \in 1..Len(P) /\ i + 1 \in 1..Len(P)
      BY <1>1, <1>3, <2>2
    <3>2. Q[i] = IF i < k THEN P[i] ELSE P[i + 1]
      BY <3>1 DEF Lacks
    <3>3. QED
      BY <1>2, <1>3, <3>1, <3>2
  <2>3. QED
    BY <2>1, <2>2
<1>5. Lacks(PU, QU, k) /\ PU[k] = P[k]
  BY <1>1, <1>2, <1>3, <1>4 DEF Lacks
<1>6. QED
  BY <1>5 DEF PU, QU

(* It is what is before and what is behind that element.                     *)
LEMMA LacksIs ==
    ASSUME NEW P, NEW Q, NEW k, Lacks(P, Q, k)
    PROVE  Q = SubSeq(P, 1, k - 1) \o SubSeq(P, k + 1, Len(P))
<1> DEFINE A == SubSeq(P, 1, k - 1)  B == SubSeq(P, k + 1, Len(P))  C == A \o B
<1>1. P \in Seq(Ops) /\ Q \in Seq(Ops) /\ k \in 1..Len(P) /\ Len(P) = Len(Q) + 1 /\ Len(Q) \in Nat
  BY DEF Lacks
<1>2. A \in Seq(Ops) /\ Len(A) = k - 1 /\ \A i \in 1..(k - 1) : A[i] = P[i]
  BY <1>1
<1>3. /\ B \in Seq(Ops) /\ Len(B) = Len(P) - k
      /\ \A i \in 1..(Len(P) - k) : B[i] = P[k + i]
  BY <1>1
<1> HIDE DEF A, B
<1>4. /\ C \in Seq(Ops) /\ Len(C) = Len(Q)
      /\ \A i \in 1..Len(Q) : C[i] = IF i < k THEN A[i] ELSE B[i - (k - 1)]
  BY <1>1, <1>2, <1>3
<1> HIDE DEF C
<1>5. ASSUME NEW i \in 1..Len(Q) PROVE Q[i] = C[i]
  <2>1. Q[i] = IF i < k THEN P[i] ELSE P[i + 1]
    BY DEF Lacks
  <2>2. CASE i < k
    BY <1>1, <1>2, <1>4, <2>1, <2>2
  <2>3. CASE ~(i < k)
    <3>1. i - (k - 1) \in 1..(Len(P) - k) /\ k + (i - (k - 1)) = i + 1
      BY <1>1, <2>3
    <3>2. B[i - (k - 1)] = P[i + 1]
      BY <1>3, <3>1
    <3>3. QED
      BY <1>4, <2>1, <2>3, <3>2
  <2>4. QED
    BY <2>2, <2>3
<1>6. Q = C
  BY <1>1, <1>4, <1>5
<1>7. QED
  BY <1>6 DEF A, B, C

\* Q is P without one u.
WithoutOne(P, Q, u) ==
    \E k \in 1..Len(P) : P[k] = u /\ Q = SubSeq(P, 1, k - 1) \o SubSeq(P, k + 1, Len(P))

(* When one element no longer gets through, what passes lacks just that one. *)
LEMMA KeepWithout ==
    ASSUME NEW K, NEW L, NEW s \in Seq(Ops), NEW j \in 1..Len(s), s[j] \in K, s[j] \notin L,
           \A i \in 1..Len(s) : i # j => (s[i] \in L <=> s[i] \in K)
    PROVE  WithoutOne(Keep(K, s), Keep(L, s), s[j])
<1> DEFINE a == KeptTo(K, s)  b == KeptTo(L, s)
           k == Len(a[j - 1]) + 1
           A == {m \in Nat : m <= j - 1 => a[m] \in Seq(Ops) /\ a[m] = b[m]}
           B == {m \in Nat : j + m <= Len(s) => Lacks(a[j + m], b[j + m], k) /\ a[j + m][k] = s[j]}
<1>1. /\ Keep(K, s) = a[Len(s)] /\ a[0] = <<>>
      /\ \A n \in Nat : n + 1 <= Len(s) =>
            a[n + 1] = IF s[n + 1] \in K THEN Append(a[n], s[n + 1]) ELSE a[n]
  BY KeepSteps
<1>2. /\ Keep(L, s) = b[Len(s)] /\ b[0] = <<>>
      /\ \A n \in Nat : n + 1 <= Len(s) =>
            b[n + 1] = IF s[n + 1] \in L THEN Append(b[n], s[n + 1]) ELSE b[n]
  BY KeepSteps
<1> HIDE DEF a, b
<1>3. 0 \in A
  <2>1. <<>> \in Seq(Ops)
    OBVIOUS
  <2>2. QED
    BY <1>1, <1>2, <2>1
<1>4. ASSUME NEW m \in Nat, m \in A PROVE m + 1 \in A
  <2>1. SUFFICES ASSUME m + 1 <= j - 1 PROVE a[m + 1] \in Seq(Ops) /\ a[m + 1] = b[m + 1]
    OBVIOUS
  <2>2. a[m] \in Seq(Ops) /\ a[m] = b[m] /\ m + 1 \in 1..Len(s) /\ m + 1 # j
    BY <1>4, <2>1
  <2>3. s[m + 1] \in Ops /\ (s[m + 1] \in L <=> s[m + 1] \in K)
    BY <2>2
  <2>4. Append(a[m], s[m + 1]) \in Seq(Ops)
    BY <2>2, <2>3
  <2>5. /\ a[m + 1] = IF s[m + 1] \in K THEN Append(a[m], s[m + 1]) ELSE a[m]
        /\ b[m + 1] = IF s[m + 1] \in L THEN Append(b[m], s[m + 1]) ELSE b[m]
    BY <1>1, <1>2, <2>2
  <2>6. QED
    BY <2>2, <2>3, <2>4, <2>5
<1> HIDE DEF A
<1>5. j - 1 \in A
  BY <1>3, <1>4, CountUp
<1>6. a[j - 1] \in Seq(Ops) /\ a[j - 1] = b[j - 1]
  BY <1>5 DEF A
<1>7. 0 \in B
  <2>1. a[j] = Append(a[j - 1], s[j]) /\ b[j] = b[j - 1]
    <3>1. j - 1 \in Nat /\ (j - 1) + 1 = j /\ j <= Len(s)
      OBVIOUS
    <3>2. /\ a[(j - 1) + 1] = IF s[(j - 1) + 1] \in K THEN Append(a[j - 1], s[(j - 1) + 1]) ELSE a[j - 1]
          /\ b[(j - 1) + 1] = IF s[(j - 1) + 1] \in L THEN Append(b[j - 1], s[(j - 1) + 1]) ELSE b[j - 1]
      BY <1>1, <1>2, <3>1
    <3>3. QED
      BY <3>1, <3>2
  <2>2. /\ Append(a[j - 1], s[j]) \in Seq(Ops) /\ Len(Append(a[j - 1], s[j])) = k
        /\ \A i \in 1..Len(a[j - 1]) : Append(a[j - 1], s[j])[i] = a[j - 1][i]
        /\ Append(a[j - 1], s[j])[k] = s[j] /\ k \in Nat /\ k > 0
    BY <1>6, AppendParts
  <2>3. Lacks(a[j], b[j], k) /\ a[j][k] = s[j]
    BY <1>6, <2>1, <2>2 DEF Lacks
  <2>4. j + 0 = j
    OBVIOUS
  <2>5. QED
    BY <2>3, <2>4
<1>8. ASSUME NEW m \in Nat, m \in B PROVE m + 1 \in B
  <2>1. SUFFICES ASSUME j + (m + 1) <= Len(s)
                 PROVE  Lacks(a[j + (m + 1)], b[j + (m + 1)], k) /\ a[j + (m + 1)][k] = s[j]
    OBVIOUS
  <2> DEFINE n == j + m
  <2>2. /\ n \in Nat /\ n + 1 = j + (m + 1) /\ n + 1 \in 1..Len(s) /\ n + 1 # j /\ n <= Len(s)
    BY <2>1
  <2> HIDE DEF n
  <2>3. Lacks(a[n], b[n], k) /\ a[n][k] = s[j]
    BY <1>8, <2>2 DEF n
  <2>4. s[n + 1] \in Ops /\ (s[n + 1] \in L <=> s[n + 1] \in K)
    BY <2>2
  <2>5. /\ a[n + 1] = IF s[n + 1] \in K THEN Append(a[n], s[n + 1]) ELSE a[n]
        /\ b[n + 1] = IF s[n + 1] \in K THEN Append(b[n], s[n + 1]) ELSE b[n]
    BY <1>1, <1>2, <2>2, <2>4
  <2> HIDE DEF k
  <2>6. Lacks(Append(a[n], s[n + 1]), Append(b[n], s[n + 1]), k) /\ Append(a[n], s[n + 1])[k] = s[j]
    BY <2>3, <2>4, LacksGoesOn
  <2>7. QED
    BY <2>2, <2>3, <2>5, <2>6
<1> HIDE DEF B
<1>9. Len(s) - j \in B
  BY <1>7, <1>8, CountUp
<1>10. Lacks(a[Len(s)], b[Len(s)], k) /\ a[Len(s)][k] = s[j]
  <2>1. j + (Len(s) - j) = Len(s)
    OBVIOUS
  <2>2. QED
    BY <1>9, <2>1 DEF B
<1> HIDE DEF k
<1>11. b[Len(s)] = SubSeq(a[Len(s)], 1, k - 1) \o SubSeq(a[Len(s)], k + 1, Len(a[Len(s)]))
  BY <1>10, LacksIs
<1>12. k \in 1..Len(a[Len(s)])
  BY <1>10 DEF Lacks
<1>13. QED
  BY <1>1, <1>2, <1>10, <1>11, <1>12 DEF WithoutOne

(* What passes of a sequence without repetitions has none either.            *)
LEMMA KeepInjective ==
    ASSUME NEW K, NEW s \in Seq(Ops), Injective(s)
    PROVE  Keep(K, s) \in Seq(Ops) /\ Injective(Keep(K, s))
<1> DEFINE P == Keep(K, s)
<1>1. Kept(K, s, Len(s), P)
  BY KeepAll
<1> HIDE DEF P
<1>2. P \in Seq(Ops) /\ Len(P) \in Nat
  BY <1>1 DEF Kept
<1>3. PICK f \in [1..Len(P) -> 1..Len(s)] :
         /\ \A i, k \in 1..Len(P) : i < k => f[i] < f[k]
         /\ \A i \in 1..Len(P) : P[i] = s[f[i]]
  BY <1>1 DEF Kept
<1>4. ASSUME NEW i \in 1..Len(P), NEW k \in 1..Len(P), P[i] = P[k] PROVE i = k
  <2>1. f[i] = f[k] /\ f[i] \in 1..Len(s)
    BY <1>3, <1>4 DEF Injective
  <2>2. ~(i < k) /\ ~(k < i)
    BY <1>3, <2>1
  <2>3. QED
    BY <1>2, <2>2
<1>5. Injective(P)
  BY <1>4 DEF Injective
<1>6. QED
  BY <1>2, <1>5 DEF P

(* If what passes stands in t in the order it has in s, none of it left out, *)
(* what passes of t is the beginning of what passes of s.                    *)
LEMMA KeepPrefix ==
    ASSUME NEW K, NEW s \in Seq(Ops), Injective(s), NEW t \in Seq(Ops), Injective(t),
           \A i \in 1..Len(t) : Contains(s, t[i]),
           \A i \in 1..Len(t), p \in 1..Len(s), q \in 1..Len(s) :
               /\ q < p /\ t[i] = s[p]
               /\ t[i] \in K /\ s[q] \in K
               => \E h \in 1..(i - 1) : t[h] = s[q]
    PROVE  /\ Len(Keep(K, t)) <= Len(Keep(K, s))
           /\ \A i \in 1..Len(Keep(K, t)) : Keep(K, t)[i] = Keep(K, s)[i]
<1> DEFINE P == Keep(K, s)  Q == Keep(K, t)
<1>1. Kept(K, s, Len(s), P) /\ Kept(K, t, Len(t), Q)
  BY KeepAll
<1> HIDE DEF P, Q
<1>2. Len(P) \in Nat /\ Len(Q) \in Nat /\ Len(s) \in Nat /\ Len(t) \in Nat
  BY <1>1 DEF Kept
<1>3. PICK f \in [1..Len(P) -> 1..Len(s)] :
         /\ \A i, k \in 1..Len(P) : i < k => f[i] < f[k]
         /\ \A i \in 1..Len(P) : P[i] = s[f[i]] /\ P[i] \in K
         /\ \A k \in 1..Len(s) : s[k] \in K => \E i \in 1..Len(P) : f[i] = k
  BY <1>1 DEF Kept
<1>4. PICK g \in [1..Len(Q) -> 1..Len(t)] :
         /\ \A i, k \in 1..Len(Q) : i < k => g[i] < g[k]
         /\ \A i \in 1..Len(Q) : Q[i] = t[g[i]] /\ Q[i] \in K
         /\ \A k \in 1..Len(t) : t[k] \in K => \E i \in 1..Len(Q) : g[i] = k
  BY <1>1 DEF Kept
<1> DEFINE E == {m \in Nat : m <= Len(Q) => m <= Len(P) /\ \A i \in 1..m : Q[i] = P[i]}
<1>5. 0 \in E
  BY <1>2
<1>6. ASSUME NEW m \in Nat, m \in E PROVE m + 1 \in E
  <2>1. SUFFICES ASSUME m + 1 <= Len(Q)
                 PROVE  m + 1 <= Len(P) /\ Q[m + 1] = P[m + 1]
    <3>1. \A i \in 1..(m + 1) : i = m + 1 \/ i \in 1..m
      OBVIOUS
    <3>2. QED
      BY <1>2, <1>6, <3>1
  <2>2. /\ m <= Len(P) /\ \A i \in 1..m : Q[i] = P[i]
        /\ m + 1 \in 1..Len(Q)
    BY <1>2, <1>6, <2>1
  <2>3. /\ g[m + 1] \in 1..Len(t) /\ Q[m + 1] = t[g[m + 1]]
        /\ Q[m + 1] \in K
    BY <1>4, <2>2
  <2>4. PICK a \in 1..Len(s) : s[a] = Q[m + 1]
    BY <2>3 DEF Contains
  <2>5. PICK j \in 1..Len(P) : f[j] = a
    BY <1>3, <2>3, <2>4
  <2>6. P[j] = Q[m + 1]
    BY <1>3, <2>4, <2>5
  <2>7. ~(j < m + 1)
    <3>1. SUFFICES ASSUME j < m + 1 PROVE FALSE
      OBVIOUS
    <3>2. j \in 1..m /\ j \in 1..Len(Q)
      BY <1>2, <2>1, <3>1
    <3>3. Q[j] = t[g[j]] /\ g[j] \in 1..Len(t) /\ g[j] < g[m + 1]
      BY <1>4, <2>2, <3>1, <3>2
    <3>4. t[g[j]] = t[g[m + 1]]
      BY <2>2, <2>3, <2>6, <3>2, <3>3
    <3>5. g[j] = g[m + 1]
      BY <2>3, <3>3, <3>4 DEF Injective
    <3>6. QED
      BY <2>3, <3>3, <3>5
  <2>8. ~(j > m + 1)
    <3>1. SUFFICES ASSUME j > m + 1 PROVE FALSE
      OBVIOUS
    <3>2. m + 1 \in 1..Len(P)
      BY <1>2, <3>1
    <3>3. /\ f[m + 1] \in 1..Len(s) /\ f[m + 1] < a
          /\ P[m + 1] = s[f[m + 1]] /\ s[f[m + 1]] \in K
      BY <1>3, <2>5, <3>1, <3>2
    <3>4. PICK h \in 1..(g[m + 1] - 1) : t[h] = s[f[m + 1]]
      BY <2>3, <2>4, <3>3
    <3>5. h \in 1..Len(t) /\ h < g[m + 1] /\ t[h] \in K
      BY <1>2, <2>3, <3>3, <3>4
    <3>6. PICK l \in 1..Len(Q) : g[l] = h
      BY <1>4, <3>5
    <3>7. l \in 1..m
      <4>1. l # m + 1
        BY <2>3, <3>5, <3>6
      <4>2. ~(m + 1 < l)
        <5>1. SUFFICES ASSUME m + 1 < l PROVE FALSE
          OBVIOUS
        <5>2. g[m + 1] < g[l]
          BY <1>4, <2>2, <5>1
        <5>3. QED
          BY <2>3, <3>5, <3>6, <5>2
      <4>3. QED
        BY <1>2, <4>1, <4>2
    <3>8. Q[l] = s[f[m + 1]] /\ l \in 1..Len(P)
      BY <1>2, <1>4, <2>2, <3>4, <3>6, <3>7
    <3>9. P[l] = s[f[l]] /\ f[l] \in 1..Len(s) /\ f[l] < f[m + 1]
      <4>1. l < m + 1
        BY <3>7
      <4>2. P[l] = s[f[l]] /\ f[l] \in 1..Len(s)
        BY <1>3, <3>8
      <4>3. f[l] < f[m + 1]
        BY <1>3, <3>2, <3>8, <4>1
      <4>4. QED
        BY <4>2, <4>3
    <3>10. s[f[l]] = s[f[m + 1]]
      BY <2>2, <3>7, <3>8, <3>9
    <3>11. f[l] = f[m + 1]
      BY <3>3, <3>9, <3>10 DEF Injective
    <3>12. QED
      BY <3>3, <3>9, <3>11
  <2>9. j = m + 1
    BY <1>2, <2>7, <2>8
  <2>10. QED
    BY <1>2, <2>6, <2>9
<1> HIDE DEF E
<1>7. Len(Q) \in E
  BY <1>2, <1>5, <1>6, CountUp
<1>8. QED
  BY <1>2, <1>7 DEF E, P, Q

(* A sequence that goes on keeps what passed of it.                          *)
LEMMA KeepGrows ==
    ASSUME NEW K, NEW s \in Seq(Ops), NEW t \in Seq(Ops), Len(s) <= Len(t),
           \A i \in 1..Len(s) : t[i] = s[i],
           NEW P \in Seq(Ops), Injective(P),
           Len(Keep(K, s)) <= Len(P), \A i \in 1..Len(Keep(K, s)) : Keep(K, s)[i] = P[i],
           Len(Keep(K, t)) <= Len(P), \A i \in 1..Len(Keep(K, t)) : Keep(K, t)[i] = P[i]
    PROVE  Len(Keep(K, s)) <= Len(Keep(K, t))
<1> DEFINE a == Keep(K, s)  b == Keep(K, t)
<1>1. Kept(K, s, Len(s), a) /\ Kept(K, t, Len(t), b)
  BY KeepAll
<1>2. /\ Len(a) <= Len(P) /\ \A i \in 1..Len(a) : a[i] = P[i]
      /\ Len(b) <= Len(P) /\ \A i \in 1..Len(b) : b[i] = P[i]
  OBVIOUS
<1> HIDE DEF a, b
<1>3. Len(a) \in Nat /\ Len(b) \in Nat /\ Len(s) \in Nat /\ Len(t) \in Nat /\ Len(P) \in Nat
  BY <1>1 DEF Kept
<1>4. SUFFICES ASSUME Len(b) < Len(a) PROVE FALSE
  BY <1>3 DEF a, b
<1>5. Len(b) + 1 \in 1..Len(a) /\ Len(b) + 1 \in 1..Len(P)
  BY <1>2, <1>3, <1>4
<1>6. PICK k \in 1..Len(s) : a[Len(b) + 1] = s[k] /\ s[k] \in K
  <2>1. PICK f \in [1..Len(a) -> 1..Len(s)] :
           \A i \in 1..Len(a) : a[i] = s[f[i]] /\ a[i] \in K
    BY <1>1 DEF Kept
  <2>2. /\ f[Len(b) + 1] \in 1..Len(s) /\ a[Len(b) + 1] = s[f[Len(b) + 1]]
        /\ s[f[Len(b) + 1]] \in K
    BY <1>5, <2>1
  <2>3. QED
    BY <2>2
<1>7. k \in 1..Len(t) /\ t[k] = s[k]
  BY <1>3
<1>8. PICK l \in 1..Len(b) : b[l] = s[k]
  <2>1. PICK g \in [1..Len(b) -> 1..Len(t)] :
           /\ \A i \in 1..Len(b) : b[i] = t[g[i]]
           /\ \A n \in 1..Len(t) : t[n] \in K => \E i \in 1..Len(b) : g[i] = n
    BY <1>1 DEF Kept
  <2>2. PICK l \in 1..Len(b) : g[l] = k
    BY <1>6, <1>7, <2>1
  <2>3. b[l] = t[g[l]]
    BY <2>1
  <2>4. QED
    BY <1>7, <2>2, <2>3
<1>9. l \in 1..Len(P) /\ P[l] = P[Len(b) + 1]
  BY <1>2, <1>3, <1>5, <1>6, <1>8
<1>10. l = Len(b) + 1
  BY <1>5, <1>9 DEF Injective
<1>11. QED
  BY <1>3, <1>10

(* A beginning of a sequence is a SubSeq of it.                              *)
LEMMA Beginning ==
    ASSUME NEW P \in Seq(Ops), NEW Q \in Seq(Ops), Len(Q) <= Len(P), \A i \in 1..Len(Q) : Q[i] = P[i]
    PROVE  Q = SubSeq(P, 1, Len(Q)) /\ Len(Q) \in 0..Len(P)
<1> DEFINE q == SubSeq(P, 1, Len(Q))
<1>1. Len(Q) \in Nat /\ Len(P) \in Nat
  OBVIOUS
<1>2. q \in Seq(Ops) /\ Len(q) = Len(Q) /\ \A i \in 1..Len(Q) : q[i] = P[i]
  BY <1>1
<1> HIDE DEF q
<1>3. Q = q
  BY <1>2
<1>4. QED
  BY <1>1, <1>3 DEF q

(* What has passed through any sequence the outbox may be is the beginning   *)
(* of what LINE produced.                                                    *)
LEMMA OutboxPasses ==
    ASSUME TypeOK, Known, NEW t \in Seq(Ops), Injective(t), InOrder(t),
           \A i \in 1..Len(t) : Contains(recvOut, t[i])
    PROVE  /\ Keep(Through, lineLog) \in Seq(Ops) /\ Injective(Keep(Through, lineLog))
           /\ Keep(Through, t) \in Seq(Ops)
           /\ Len(Keep(Through, t)) <= Len(Keep(Through, lineLog))
           /\ \A i \in 1..Len(Keep(Through, t)) : Keep(Through, t)[i] = Keep(Through, lineLog)[i]
<1>1. lineLog \in Seq(Ops) /\ Injective(lineLog)
  BY DEF TypeOK, IsInjective, Injective
<1>2. ASSUME NEW i \in 1..Len(t) PROVE Contains(lineLog, t[i])
  <2>1. PICK k \in 1..Len(recvOut) : recvOut[k] = t[i]
    BY DEF Contains
  <2>2. Contains(lineLog, recvOut[k])
    BY DEF Known
  <2>3. QED
    BY <2>1, <2>2
<1>3. ASSUME NEW i \in 1..Len(t), NEW p \in 1..Len(lineLog), NEW q \in 1..Len(lineLog),
             q < p, t[i] = lineLog[p], t[i] \in Through, lineLog[q] \in Through
      PROVE  \E h \in 1..(i - 1) : t[h] = lineLog[q]
  BY <1>3 DEF InOrder
<1>4. QED
  BY <1>1, <1>2, <1>3, KeepInjective, KeepPrefix

(* A new operation is the next the relay produces, if it passes.             *)
LEMMA RelayNew ==
    ASSUME TypeOK, Known, OrderInv, NEW o \in Ops, LineOp(o) \/ SendMine(o)
    PROVE  R!Produce(o) \/ UNCHANGED R!rvars
<1> USE DEF lineVars, sendVars, roundVars, selfVars, workerVars, faultVars
<1>1. /\ lineLog' = Append(lineLog, o) /\ kind[o] = "none" /\ \A x \in Ops : x # o => kind'[x] = kind[x]
      /\ cut' = cut \/ cut' = cut \cup {o}
      /\ UNCHANGED <<outbox, lost, bridgeErrors>>
  BY DEF LineOp, SendMine, TypeOK
<1>2. lineLog \in Seq(Ops) /\ outbox \in Seq(Ops)
  BY DEF TypeOK
<1>3. ASSUME NEW x \in Ops, Contains(lineLog, x) PROVE x \in Through' <=> x \in Through
  BY <1>1, <1>3 DEF Known, Through
<1>4. \A i \in 1..Len(lineLog) : lineLog[i] \in Through' <=> lineLog[i] \in Through
  BY <1>2, <1>3 DEF Contains
<1>5. ASSUME NEW i \in 1..Len(outbox) PROVE outbox[i] \in Through' <=> outbox[i] \in Through
  <2>1. PICK k \in 1..Len(recvOut) : recvOut[k] = outbox[i]
    BY DEF OrderInv, Boxes, Contains
  <2>2. Contains(lineLog, outbox[i])
    BY <2>1 DEF Known
  <2>3. QED
    BY <1>2, <1>3, <2>2
<1>6. /\ Keep(Through', lineLog') = IF o \in Through' THEN Append(Keep(Through, lineLog), o)
                                                     ELSE Keep(Through, lineLog)
      /\ Keep(Through', outbox') = Keep(Through, outbox)
  <2>1. Keep(Through', Append(lineLog, o)) = IF o \in Through'
                                              THEN Append(Keep(Through, lineLog), o)
                                              ELSE Keep(Through, lineLog)
    BY <1>2, <1>4, KeepAppend
  <2>2. Keep(Through', outbox) = Keep(Through, outbox)
    BY <1>2, <1>5, KeepSame
  <2>3. QED
    BY <1>1, <2>1, <2>2
<1>7. CASE o \in Through'
  BY <1>1, <1>6, <1>7, PassingKeeps DEF R!Produce
<1>8. CASE o \notin Through'
  BY <1>1, <1>6, <1>8, PassingKeeps DEF R!rvars
<1>9. QED
  BY <1>7, <1>8

(* A move of the worker forwards some of what is still to come.              *)
LEMMA RelayMove ==
    ASSUME TypeOK, TypeOK', Known, OrderInv, PumpMove
    PROVE  R!Forward(Len(Passing(outbox'))) /\ Len(Passing(outbox')) \in 0..Len(Passing(lineLog))
<1> DEFINE P == Keep(Through, lineLog)  Q == Keep(Through, outbox)  S == Keep(Through, outbox')
<1> USE DEF lineVars
<1>1. /\ UNCHANGED <<lineLog, recvOut, bridgeErrors>> /\ Through' = Through
  BY DEF PumpMove, faultVars, Through
<1>2. OrderInv' /\ Len(outbox) <= Len(outbox') /\ \A i \in 1..Len(outbox) : outbox'[i] = outbox[i]
  BY MoveOrder
<1>3. /\ outbox \in Seq(Ops) /\ Injective(outbox) /\ InOrder(outbox)
      /\ \A i \in 1..Len(outbox) : Contains(recvOut, outbox[i])
  BY DEF TypeOK, OrderInv, Boxes
<1>4. outbox' \in Seq(Ops)
  BY DEF TypeOK
<1>5. Injective(outbox') /\ \A i \in 1..Len(outbox') : Contains(recvOut, outbox'[i])
  BY <1>1, <1>2 DEF OrderInv, Boxes, Injective
<1>6. InOrder(outbox')
  BY <1>1, <1>2 DEF OrderInv, InOrder
<1>7. /\ P \in Seq(Ops) /\ Injective(P) /\ Q \in Seq(Ops)
      /\ Len(Q) <= Len(P) /\ \A i \in 1..Len(Q) : Q[i] = P[i]
  BY <1>3, OutboxPasses
<1>8. S \in Seq(Ops) /\ Len(S) <= Len(P) /\ \A i \in 1..Len(S) : S[i] = P[i]
  BY <1>4, <1>5, <1>6, OutboxPasses
<1>9. Len(Q) <= Len(S)
  BY <1>2, <1>3, <1>4, <1>7, <1>8, KeepGrows
<1>10. /\ Passing(lineLog) = P /\ Passing(outbox) = Q /\ Passing(outbox') = S
       /\ Passing(lineLog)' = P /\ Passing(outbox)' = S
  BY <1>1, PassingKeeps DEF Passing, Keep
<1> HIDE DEF P, Q, S
<1>11. S = SubSeq(P, 1, Len(S)) /\ Len(S) \in 0..Len(P)
  BY <1>7, <1>8, Beginning
<1>12. Len(S) \in Len(Q)..Len(P)
  BY <1>7, <1>8, <1>9, <1>11
<1>13. QED
  BY <1>1, <1>10, <1>11, <1>12 DEF R!Forward

(* A failure takes at most one message or receipt out of what is still to    *)
(* come.                                                                     *)
LEMMA RelayFail ==
    ASSUME TypeOK, Known, OrderInv, SkipMessage \/ AbortRound \/ EndFails \/ FlushFails
    PROVE  R!Fail
<1> DEFINE P == Keep(Through, lineLog)  Q == Keep(Through, outbox)
           PN == Keep(Through', lineLog)
<1> USE DEF lineVars, workerVars
<1>1. /\ bridgeErrors' = bridgeErrors + 1 /\ lost \subseteq lost'
      /\ \A x \in lost' : x \in lost \/ ~Contains(recvOut, x)
      /\ UNCHANGED <<kind, cut, lineLog, outbox>>
  BY FailLoses
<1>2. PICK u : \A x \in lost' : x \in lost \/ x = u \/ kind[x] # "direct"
  BY FailLoses
<1>3. /\ lineLog \in Seq(Ops) /\ Injective(lineLog) /\ outbox \in Seq(Ops) /\ Injective(outbox)
      /\ InOrder(outbox) /\ \A i \in 1..Len(outbox) : Contains(recvOut, outbox[i])
  BY DEF TypeOK, IsInjective, Injective, OrderInv, Boxes
<1>4. \A x : /\ x \in Through' => x \in Through
             /\ x \in Through /\ x \notin Through' => x = u /\ ~Contains(recvOut, x)
  BY <1>1, <1>2 DEF Through
<1>5. Keep(Through', outbox) = Q
  <2>1. \A i \in 1..Len(outbox) : outbox[i] \in Through' <=> outbox[i] \in Through
    BY <1>3, <1>4
  <2>2. QED
    BY <1>3, <2>1, KeepSame
<1>6. /\ P \in Seq(Ops) /\ Q \in Seq(Ops) /\ Len(Q) <= Len(P) /\ \A i \in 1..Len(Q) : Q[i] = P[i]
  BY <1>3, OutboxPasses
<1>7. /\ Passing(lineLog) = P /\ Passing(lineLog)' = PN
      /\ Passing(outbox) = Q /\ Passing(outbox)' = Q
  BY <1>1, <1>5, PassingKeeps
<1>8. CASE u \in Through /\ u \notin Through' /\ Contains(lineLog, u)
  <2>1. PICK j \in 1..Len(lineLog) : lineLog[j] = u
    BY <1>8 DEF Contains
  <2>2. \A i \in 1..Len(lineLog) : i # j => (lineLog[i] \in Through' <=> lineLog[i] \in Through)
    BY <1>3, <1>4, <2>1 DEF Injective
  <2>3. PICK k \in 1..Len(P) : P[k] = u /\ PN = SubSeq(P, 1, k - 1) \o SubSeq(P, k + 1, Len(P))
    <3>1. lineLog[j] \in Through /\ lineLog[j] \notin Through'
      BY <1>8, <2>1
    <3>2. WithoutOne(P, PN, lineLog[j])
      <4>1. lineLog \in Seq(Ops) /\ j \in 1..Len(lineLog)
        BY <1>3
      <4>2. QED
        BY <2>2, <3>1, <4>1, KeepWithout
    <3>3. QED
      BY <2>1, <3>2 DEF WithoutOne
  <2>4. ~(k <= Len(Q))
    <3>1. SUFFICES ASSUME k <= Len(Q) PROVE FALSE
      OBVIOUS
    <3>2. k \in 1..Len(Q) /\ Q[k] = u
      BY <1>6, <2>3, <3>1
    <3>3. Kept(Through, outbox, Len(outbox), Q)
      BY <1>3, KeepAll
    <3> HIDE DEF P, Q, PN
    <3>4. PICK f \in [1..Len(Q) -> 1..Len(outbox)] : \A i \in 1..Len(Q) : Q[i] = outbox[f[i]]
      BY <3>3 DEF Kept
    <3>5. Contains(recvOut, u)
      BY <1>3, <3>2, <3>4
    <3>6. QED
      BY <1>4, <1>8, <3>5
  <2> HIDE DEF P, Q, PN
  <2>5. k \in (Len(Q) + 1)..Len(P)
    BY <1>6, <2>3, <2>4
  <2>6. QED
    BY <1>1, <1>7, <2>3, <2>5 DEF R!Fail, R!Without
<1>9. CASE ~(u \in Through /\ u \notin Through' /\ Contains(lineLog, u))
  <2>1. \A i \in 1..Len(lineLog) : lineLog[i] \in Through' <=> lineLog[i] \in Through
    BY <1>3, <1>4, <1>9 DEF Contains
  <2>2. PN = P
    BY <1>3, <2>1, KeepSame
  <2> HIDE DEF P, Q, PN
  <2>3. QED
    BY <1>1, <1>7, <2>2 DEF R!Fail
<1>10. QED
  BY <1>8, <1>9

(* Every step of the receiving side is a step of the relay, or none.         *)
LEMMA RelayStep ==
    ASSUME TypeOK, TypeOK', Known, OrderInv, [Next]_vars
    PROVE  [R!Next]_(R!rvars)
<1> USE DEF lineVars, sendVars, roundVars, selfVars, workerVars, faultVars
<1>1. ASSUME NEW o \in Ops, LineOp(o) \/ SendMine(o) PROVE [R!Next]_(R!rvars)
  BY <1>1, RelayNew DEF R!Next
<1>2. CASE PumpMove
  BY <1>2, RelayMove DEF R!Next
<1>3. CASE UNCHANGED <<kind, cut, lost, lineLog, outbox, bridgeErrors>>
  <2>1. Through' = Through
    BY <1>3 DEF Through
  <2>2. UNCHANGED R!rvars
    BY <1>3, <2>1, PassingKeeps DEF R!rvars
  <2>3. QED
    BY <2>2
<1>4. ASSUME NEW o \in Ops, Answer(o) \/ FlushTake(o)
      PROVE  UNCHANGED <<kind, cut, lost, lineLog, outbox, bridgeErrors>>
  BY <1>4 DEF Answer, FlushTake
<1>5. ASSUME Sync \/ HandleOp \/ AppendEvent \/ SaveRev \/ FlushAppend \/ BridgeRestart
             \/ PumpSize \/ PumpCursor \/ WorkerRestart \/ UNCHANGED vars
      PROVE  UNCHANGED <<kind, cut, lost, lineLog, outbox, bridgeErrors>>
  BY <1>5 DEF Sync, HandleOp, AppendEvent, SaveRev, FlushAppend, BridgeRestart, PumpSize,
              PumpCursor, WorkerRestart, vars
<1>6. CASE SkipMessage \/ AbortRound \/ EndFails \/ FlushFails
  BY <1>6, RelayFail DEF R!Next
<1>7. QED
  BY <1>1, <1>2, <1>3, <1>4, <1>5, <1>6 DEF Next, Round, Flush, Pump

(* The relay starts with nothing produced and nothing passed on.             *)
LEMMA RelayInit == Init => R!Init
<1> SUFFICES ASSUME Init PROVE R!Init
  OBVIOUS
<1>1. /\ lineLog = <<>> /\ outbox = <<>> /\ lineLog \in Seq(Ops) /\ Len(lineLog) = 0
      /\ bridgeErrors = 0
  BY DEF Init
<1>2. Keep(Through, lineLog) = <<>>
  <2>1. /\ Keep(Through, lineLog) = KeptTo(Through, lineLog)[Len(lineLog)]
        /\ KeptTo(Through, lineLog)[0] = <<>>
    BY <1>1, KeepSteps
  <2>2. Len(lineLog) = 0
    BY <1>1
  <2>3. QED
    BY <2>1, <2>2
<1>3. QED
  BY <1>1, <1>2, PassingKeeps DEF R!Init

-----------------------------------------------------------------------------
(* The inductive invariant.                                                  *)
InboundInv == TypeOK /\ Known /\ InRound /\ Forwarded /\ NoEcho /\ OrderInv

(* It holds at the start and every step keeps it.                            *)
LEMMA InboundInvHolds == Spec => []InboundInv
<1>1. Init => InboundInv
  <2>1. Init => InOrder(recvOut) /\ InOrder(outbox)
    BY DEF Init, InOrder
  <2>2. Init => Boxes
    BY InboundInit DEF Init, Boxes
  <2>3. QED
    BY <2>1, <2>2, InboundInit DEF InboundInv, OrderInv
<1>2. InboundInv /\ [Next]_vars => InboundInv'
  <2>1. SUFFICES ASSUME InboundInv, [Next]_vars PROVE InboundInv'
    OBVIOUS
  <2>2. TypeOK /\ Known /\ InRound /\ Forwarded /\ NoEcho /\ OrderInv /\ Injective(outbox)
    BY <2>1 DEF InboundInv, OrderInv, Boxes
  <2>3. TypeOK' /\ Known' /\ InRound' /\ Forwarded' /\ NoEcho' /\ OrderInv'
    BY <2>1, <2>2, TypeStep, KnownStep, RoundStep, ForwardStep, EchoStep, OrderStep
  <2>4. QED
    BY <2>3 DEF InboundInv
<1>3. QED
  BY <1>1, <1>2, PTL DEF Spec

(* Every variable of the receiving side keeps its type, and no revision or   *)
(* cursor passes the end of its file.                                        *)
THEOREM InboundTypes == Spec => []TypeOK
<1>1. InboundInv => TypeOK
  BY DEF InboundInv
<1>2. QED
  BY <1>1, InboundInvHolds, PTL

(* saveRev writes no revision before everything of others up to it is in     *)
(* recv_out.jsonl, so a restart of the bridge loses none of it; what is      *)
(* missing there failed while the bridge ran.                                *)
THEOREM NothingLost == Spec => []SavedMeansForwarded
<1>1. InboundInv => SavedMeansForwarded
  <2>1. SUFFICES ASSUME InboundInv, NEW k \in 1..savedRev
                 PROVE  SelfSent(lineLog[k]) \/ lineLog[k] \in ToSet(recvOut) \cup lost
    BY DEF SavedMeansForwarded
  <2>2. recvOut \in Seq(Ops) /\ (SelfSent(lineLog[k]) \/ Contains(recvOut, lineLog[k]) \/ lineLog[k] \in lost)
    BY <2>1 DEF InboundInv, TypeOK, Forwarded, Settled
  <2>3. QED
    BY <2>2, Elements
<1>2. QED
  BY <1>1, InboundInvHolds, PTL

(* A message the phone sent and the bridge recorded does not come back to    *)
(* it, however the sync, the send loop and restarts interleave.              *)
THEOREM PhoneHearsNoEcho == Spec => []NoSelfEcho
<1>1. InboundInv => NoSelfEcho
  <2>1. SUFFICES ASSUME InboundInv, NEW o \in Ops, o \in sendOut, o \in ToSet(recvOut) PROVE FALSE
    BY DEF NoSelfEcho
  <2>2. recvOut \in Seq(Ops)
    BY <2>1 DEF InboundInv, TypeOK
  <2>3. PICK i \in 1..Len(recvOut) : recvOut[i] = o
    BY <2>1, <2>2, Elements DEF Contains
  <2>4. QED
    BY <2>1, <2>3 DEF InboundInv, NoEcho
<1>2. QED
  BY <1>1, InboundInvHolds, PTL

(* The receiving side implements the relay: messages and read receipts of    *)
(* others enter outbox.json in the order of LINE, each once and none left    *)
(* out but the one a failure of the bridge costs, whatever restarts of the   *)
(* bridge and of the worker repeat; the lines that are cut stand aside.      *)
THEOREM InboundImplementsRelay == Spec => ImplementsRelay
<1>1. Init => R!Init
  BY RelayInit
<1>2. InboundInv /\ InboundInv' /\ [Next]_vars => [R!Next]_(R!rvars)
  BY RelayStep DEF InboundInv
<1>3. QED
  BY <1>1, <1>2, InboundInvHolds, PTL DEF Spec, ImplementsRelay, R!Spec
=============================================================================

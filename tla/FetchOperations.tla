--------------------------- MODULE FetchOperations ---------------------------
(***************************************************************************)
(* legy_proxy.py answering fetchOperations: the long polls of LINE 3.7.1,  *)
(* the hold slots, the serialized drain of outbox.json, the delivered ids  *)
(* kept in memory and in delivered_ids.json, the volatile confirmation     *)
(* ops, the one-shot resync marker, lost connections and restarts.         *)
(*                                                                         *)
(* An outbox item is its id.  Silent items become no op (the phone cannot  *)
(* interpret them); any other becomes one op, or two when a read receipt   *)
(* catches up with it.  Module ReadReceipts models the read bookkeeping.   *)
(***************************************************************************)
EXTENDS Naturals, FiniteSets

CONSTANTS
    Conns,        \* connections of the phone, one server thread each
    Items,        \* ids of outbox items
    Silent,       \* the items that become no op
    Confirms,     \* confirmation ops other handlers put on _pending_ops
    MaxHold,      \* FETCHOPS_MAX_HOLD: polls that may be held at once
    HoldTicks,    \* drains of a held poll before it gives up (FETCHOPS_HOLD)
    MiniTicks,    \* the same for a poll without a slot (FOPS_MINI)
    MaxDrops,     \* bound: connections the phone loses
    MaxCrashes,   \* bound: restarts of the proxy
    MaxFaults,    \* bound: writes of delivered_ids.json that fail
    MaxMarkers    \* bound: resync markers the operator drops

ASSUME FetchAssumption ==
    /\ IsFiniteSet(Conns) /\ IsFiniteSet(Items) /\ IsFiniteSet(Confirms)
    /\ Silent \subseteq Items
    /\ MaxHold \in Nat /\ HoldTicks \in Nat /\ MiniTicks \in Nat
    /\ MaxDrops \in Nat /\ MaxCrashes \in Nat /\ MaxFaults \in Nat /\ MaxMarkers \in Nat

VARIABLES
    outbox,        \* ids in outbox.json (written by local_worker)
    pendingOps,    \* _pending_ops: confirmation ops, in memory only
    requested,     \* confirmation ops put there so far
    loaded,        \* is _delivered_msg_ids other than None?
    deliveredMem,  \* _delivered_msg_ids, {} while not loaded
    deliveredDisk, \* the ids of the last complete delivered_ids.json
    torn,          \* delivered_ids.json is truncated and not yet rewritten
    unsaved,       \* did the last write of delivered_ids.json fail?
    drainLock,     \* the connections holding _outbox_drain_lock
    holding,       \* _holding: the hold slots in use
    conn,          \* the thread serving each connection
    devRev,        \* the revision the phone polls with
    copies,        \* how often the phone got each item
    confirmed,     \* confirmation ops the phone got
    marker,        \* is force_legacy_sync_once.json there?
    markers,       \* markers dropped so far
    resyncs,       \* resync replies sent
    lapses,        \* restarts that found less in the file than memory had held
    drops, crashes, faults

queueVars  == <<outbox, pendingOps, requested>>
idVars     == <<loaded, deliveredMem, deliveredDisk, torn, unsaved, drainLock>>
phoneVars  == <<devRev, copies, confirmed>>
markerVars == <<marker, markers, resyncs>>
faultVars  == <<lapses, drops, crashes, faults>>
vars == <<queueVars, idVars, holding, conn, phoneVars, markerVars, faultVars>>

Phases == {"idle", "drain", "save", "saving", "hold", "wait", "release", "reply"}

\* A thread: where it is, what the phone asked from, the drains it has left,
\* how it waits, what it will answer, and whether the phone is still there.
Thread == [phase : Phases, localRev : Nat, ticks : Nat,
           held : {"no", "mini", "slot"}, items : SUBSET Items,
           confirms : SUBSET Confirms, xlor : Nat, alive : BOOLEAN]

IdleConn == [phase |-> "idle", localRev |-> 0, ticks |-> 0, held |-> "no",
             items |-> {}, confirms |-> {}, xlor |-> 0, alive |-> TRUE]

Busy(c) == conn[c].phase # "idle"

\* Mutant: a restarted proxy does not read delivered_ids.json back.
DeliveredForgotten == IF loaded THEN deliveredMem ELSE {}

\* Mutant: what the outbox holds at the first drain counts as delivered.
DeliveredBaseline == IF loaded THEN deliveredMem ELSE outbox

\* The ids a drain skips: read back from the file while memory has none, and
\* nothing when the file cannot be parsed.
Delivered ==
    IF loaded THEN deliveredMem ELSE IF torn THEN {} ELSE deliveredDisk

\* The revision answered for n ops: they count up from the phone's revision
\* and END_OF_OPERATION takes one more; an empty answer stays where it is.
AnsweredRevision(localRev, n) == IF n = 0 THEN localRev ELSE localRev + n + 1

\* Mutant: the ids are saved by the first drain only.
SaveFirstTime(new) == new # {} /\ ~loaded

\* Does a drain that took these items save the ids before it returns?
MustSave(new) == new # {}

\* Mutant: the poll answers from inside the wait without giving its slot back.
AfterDrainKeepSlot(s) ==
    IF s.items \cup s.confirms # {} THEN "reply"
    ELSE IF s.held = "no" THEN "hold" ELSE "wait"

\* Where a thread goes when its drain is over: it answers when it has ops
\* (giving its slot back first), else it waits for the next drain.
AfterDrain(s) ==
    IF s.items \cup s.confirms # {}
    THEN IF s.held = "slot" THEN "release" ELSE "reply"
    ELSE IF s.held = "no" THEN "hold" ELSE "wait"

\* A poll drains when it starts and on every tick of its wait.
MayDrain(s) == s.phase = "drain" \/ (s.phase = "wait" /\ s.ticks > 0)

\* Mutant: the deadline of the wait is set anew by every drain.
TicksAgain(s) == s.ticks

\* The drains a thread has left after this one.
TicksLeft(s) == IF s.phase = "wait" THEN s.ticks - 1 ELSE 0

-----------------------------------------------------------------------------
Init ==
    /\ outbox = {} /\ pendingOps = {} /\ requested = {}
    /\ loaded = FALSE /\ deliveredMem = {} /\ deliveredDisk = {} /\ torn = FALSE
    /\ unsaved = FALSE /\ drainLock = {} /\ holding = 0
    /\ conn = [c \in Conns |-> IdleConn]
    /\ devRev = 0 /\ copies = [i \in Items |-> 0] /\ confirmed = {}
    /\ marker = FALSE /\ markers = 0 /\ resyncs = 0
    /\ lapses = 0 /\ drops = 0 /\ crashes = 0 /\ faults = 0

\* local_worker puts an item with a new id into outbox.json.
PostItem(i) ==
    /\ i \notin outbox
    /\ outbox' = outbox \cup {i}
    /\ UNCHANGED <<pendingOps, requested, idVars, holding, conn, phoneVars,
                   markerVars, faultVars>>

\* A send handler confirms a message with an op of its own.
RequestConfirm(o) ==
    /\ o \notin requested
    /\ requested' = requested \cup {o}
    /\ pendingOps' = pendingOps \cup {o}
    /\ UNCHANGED <<outbox, idVars, holding, conn, phoneVars, markerVars, faultVars>>

\* The operator asks for one resync of the phone.
DropMarker ==
    /\ markers < MaxMarkers /\ ~marker
    /\ marker' = TRUE /\ markers' = markers + 1
    /\ UNCHANGED <<queueVars, idVars, holding, conn, phoneVars, resyncs, faultVars>>

\* The phone polls with the last revision it knows.  A marker is consumed and
\* answered with a resync, at this revision or a later one; else the thread
\* goes on to drain the outbox.
Poll(c) ==
    /\ ~Busy(c)
    /\ \/ /\ ~marker
          /\ conn' = [conn EXCEPT ![c] = [IdleConn EXCEPT
                         !.phase = "drain", !.localRev = devRev, !.xlor = devRev]]
          /\ UNCHANGED <<marker, resyncs>>
       \/ /\ marker
          /\ marker' = FALSE /\ resyncs' = resyncs + 1
          /\ \E step \in 0..1 :
               conn' = [conn EXCEPT ![c] = [IdleConn EXCEPT
                          !.phase = "reply", !.localRev = devRev,
                          !.xlor = devRev + step]]
    /\ UNCHANGED <<queueVars, idVars, holding, phoneVars, markers, faultVars>>

\* drain_outbox: under the lock, every pending op and every outbox item not
\* yet delivered, marked delivered in memory at once.
Drain(c) ==
    LET s == conn[c]
        new == outbox \ Delivered
        ops == new \ Silent
    IN
    /\ MayDrain(s)
    /\ drainLock = {}
    /\ loaded' = TRUE
    /\ deliveredMem' = Delivered \cup new
    /\ pendingOps' = {}
    /\ \E catchUps \in 0..Cardinality(ops) :
         LET n == Cardinality(pendingOps) + Cardinality(ops) + catchUps
             t == [s EXCEPT !.items = ops, !.confirms = pendingOps,
                            !.xlor = AnsweredRevision(s.localRev, n),
                            !.ticks = TicksLeft(s)]
         IN conn' = [conn EXCEPT ![c] = [t EXCEPT
                       !.phase = IF MustSave(new) THEN "save" ELSE AfterDrain(t)]]
    /\ drainLock' = IF MustSave(new) THEN {c} ELSE {}
    /\ UNCHANGED <<outbox, requested, deliveredDisk, torn, unsaved, holding, phoneVars,
                   markerVars, faultVars>>

\* _save_delivered, first half: open(path, "w") truncates the file.
SaveOpen(c) ==
    /\ conn[c].phase = "save"
    /\ torn' = TRUE
    /\ conn' = [conn EXCEPT ![c].phase = "saving"]
    /\ UNCHANGED <<queueVars, loaded, deliveredMem, deliveredDisk, unsaved, drainLock,
                   holding, phoneVars, markerVars, faultVars>>

\* _save_delivered, second half: the ids are on disk and the lock is free.
SaveWrite(c) ==
    /\ conn[c].phase = "saving"
    /\ deliveredDisk' = deliveredMem
    /\ torn' = FALSE /\ unsaved' = FALSE
    /\ drainLock' = {}
    /\ conn' = [conn EXCEPT ![c].phase = AfterDrain(conn[c])]
    /\ UNCHANGED <<queueVars, loaded, deliveredMem, holding, phoneVars, markerVars,
                   faultVars>>

\* _save_delivered swallows what open or write raise: the file is as it was, or
\* truncated, and the answer leaves all the same.
SaveFails(c) ==
    /\ conn[c].phase \in {"save", "saving"} /\ faults < MaxFaults
    /\ faults' = faults + 1 /\ unsaved' = TRUE
    /\ drainLock' = {}
    /\ conn' = [conn EXCEPT ![c].phase = AfterDrain(conn[c])]
    /\ UNCHANGED <<queueVars, loaded, deliveredMem, deliveredDisk, torn, holding, phoneVars,
                   markerVars, lapses, drops, crashes>>

\* _acquire_hold: a slot when one is free, else a short wait without one.
AcquireHold(c) ==
    /\ conn[c].phase = "hold"
    /\ \/ /\ holding < MaxHold
          /\ holding' = holding + 1
          /\ conn' = [conn EXCEPT ![c] = [@ EXCEPT !.phase = "wait", !.held = "slot",
                                                   !.ticks = HoldTicks]]
       \/ /\ holding >= MaxHold
          /\ conn' = [conn EXCEPT ![c] = [@ EXCEPT !.phase = "wait", !.held = "mini",
                                                   !.ticks = MiniTicks]]
          /\ UNCHANGED holding
    /\ UNCHANGED <<queueVars, idVars, phoneVars, markerVars, faultVars>>

\* The wait is over and nothing came.
Expire(c) ==
    /\ conn[c].phase = "wait" /\ conn[c].ticks = 0
    /\ conn' = [conn EXCEPT ![c].phase =
                  IF conn[c].held = "slot" THEN "release" ELSE "reply"]
    /\ UNCHANGED <<queueVars, idVars, holding, phoneVars, markerVars, faultVars>>

\* _release_hold, in the finally of the wait.
ReleaseHold(c) ==
    /\ conn[c].phase = "release"
    /\ holding' = IF holding > 0 THEN holding - 1 ELSE 0
    /\ conn' = [conn EXCEPT ![c] = [@ EXCEPT !.phase = "reply", !.held = "no"]]
    /\ UNCHANGED <<queueVars, idVars, phoneVars, markerVars, faultVars>>

\* tls.sendall: the phone gets the ops and moves to x-lor, or nobody is there
\* any more and the ops are gone.
Reply(c) ==
    LET s == conn[c] IN
    /\ s.phase = "reply"
    /\ conn' = [conn EXCEPT ![c] = IdleConn]
    /\ \/ /\ s.alive
          /\ copies' = [i \in Items |-> IF i \in s.items THEN copies[i] + 1
                                                         ELSE copies[i]]
          /\ confirmed' = confirmed \cup s.confirms
          /\ devRev' = IF s.xlor > devRev THEN s.xlor ELSE devRev
       \/ ~s.alive /\ UNCHANGED phoneVars
    /\ UNCHANGED <<queueVars, idVars, holding, markerVars, faultVars>>

\* The phone drops a connection it waits on; its thread does not notice.
Disconnect(c) ==
    /\ Busy(c) /\ conn[c].alive
    /\ drops < MaxDrops
    /\ drops' = drops + 1
    /\ conn' = [conn EXCEPT ![c].alive = FALSE]
    /\ UNCHANGED <<queueVars, idVars, holding, phoneVars, markerVars, lapses, crashes, faults>>

\* The proxy stops and starts again: every thread and everything in memory is
\* gone, the files stay.  A truncated file stays truncated.
Restart ==
    /\ crashes < MaxCrashes
    /\ crashes' = crashes + 1
    /\ lapses' = IF loaded /\ (torn \/ unsaved) THEN lapses + 1 ELSE lapses
    /\ loaded' = FALSE /\ deliveredMem' = {} /\ unsaved' = FALSE
    /\ pendingOps' = {}
    /\ drainLock' = {} /\ holding' = 0
    /\ conn' = [c \in Conns |-> IdleConn]
    /\ UNCHANGED <<outbox, requested, deliveredDisk, torn, phoneVars, markerVars, drops, faults>>

-----------------------------------------------------------------------------
Serve(c) ==
    \/ Drain(c) \/ SaveOpen(c) \/ SaveWrite(c) \/ SaveFails(c) \/ AcquireHold(c)
    \/ Expire(c) \/ ReleaseHold(c) \/ Reply(c)

Next ==
    \/ \E i \in Items : PostItem(i)
    \/ \E o \in Confirms : RequestConfirm(o)
    \/ DropMarker
    \/ \E c \in Conns : Poll(c)
    \/ \E c \in Conns : Serve(c)
    \/ \E c \in Conns : Disconnect(c)
    \/ Restart

Spec == Init /\ [][Next]_vars

\* The server's threads run (the drain lock is a fair one for them), and the
\* phone keeps polling on each connection it has.
FairSpec ==
    /\ Spec
    /\ \A c \in Conns : SF_vars(Drain(c))
    /\ \A c \in Conns : WF_vars(Serve(c))
    /\ \A c \in Conns : WF_vars(Poll(c))

-----------------------------------------------------------------------------
(* Every variable has its type.                                               *)
TypeOK ==
    /\ outbox \subseteq Items
    /\ pendingOps \subseteq Confirms /\ requested \subseteq Confirms
    /\ loaded \in BOOLEAN /\ torn \in BOOLEAN /\ unsaved \in BOOLEAN
    /\ deliveredMem \subseteq Items /\ deliveredDisk \subseteq Items
    /\ drainLock \subseteq Conns
    /\ holding \in Nat
    /\ conn \in [Conns -> Thread]
    /\ devRev \in Nat
    /\ copies \in [Items -> Nat]
    /\ confirmed \subseteq Confirms
    /\ marker \in BOOLEAN /\ markers \in Nat /\ resyncs \in Nat
    /\ lapses \in Nat /\ drops \in Nat /\ crashes \in Nat /\ faults \in Nat

(* Whatever connections are lost and however often the proxy restarts, the    *)
(* phone gets no item twice, but for the times the proxy stopped while        *)
(* delivered_ids.json was being rewritten or after its last write had failed. *)
AtMostOnce == \A i \in Items : copies[i] <= 1 + lapses

(* What the phone got since, or a thread is about to answer, was in a         *)
(* complete write of delivered_ids.json before the answer left, unless the    *)
(* last write failed.                                                         *)
SavedBeforeAnswer ==
    \A i \in Items :
        (copies[i] > lapses \/ \E c \in Conns : /\ i \in conn[c].items
                                                 /\ conn[c].phase \in {"release", "reply"})
            => unsaved \/ i \in deliveredDisk

(* The counter _holding is the number of threads that hold a slot and never   *)
(* exceeds FETCHOPS_MAX_HOLD, so the phone keeps connections for its sends    *)
(* and no slot leaks when a held poll is answered early or its phone is gone. *)
HoldAccounting ==
    /\ holding = Cardinality({c \in Conns : conn[c].held = "slot"})
    /\ holding <= MaxHold

\* In the outbox, and neither memory nor the file says it was delivered.
Unclaimed(i) ==
    /\ i \in outbox \ deliveredMem
    /\ i \in deliveredDisk => loaded \/ torn

(* An item no poll has claimed reaches the phone once connections stop being  *)
(* lost and the proxy stops restarting; also an item a crashed drain had      *)
(* claimed without saving it, or that a lost file forgot.                     *)
ItemReachesPhone ==
    \A i \in Items \ Silent :
        (/\ Unclaimed(i)
         /\ drops = MaxDrops /\ crashes = MaxCrashes
         /\ \A c \in Conns : conn[c].alive) ~> copies[i] > 0

(* Every poll ends, with ops or empty, so no connection stays occupied.       *)
PollEnds == \A c \in Conns : Busy(c) ~> ~Busy(c)

(* The proxy is a mailbox that hands each item out once, and once more per     *)
(* restart that lost the file.                                                *)
MB == INSTANCE Mailbox WITH posted <- outbox, taken <- Delivered, got <- copies
ImplementsMailbox == MB!Spec
=============================================================================

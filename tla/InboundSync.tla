----------------------------- MODULE InboundSync -----------------------------
(***************************************************************************)
(* What LINE sends, on its way to the outbox.  bridge_worker.mjs syncs the *)
(* account's operations behind a revision it keeps in memory and saves at  *)
(* the end of a round; it appends messages and receipts to recv_out.jsonl  *)
(* as they come, contact, profile and group events at the end of a round,  *)
(* and holds back messages the account itself sent until it knows whether  *)
(* they came from the phone.  An operation that cannot be forwarded is     *)
(* passed over: the revision in memory has moved on before.                *)
(* local_worker.py moves the new lines into outbox.json behind a cursor.   *)
(*                                                                         *)
(* An operation is its id, its revision its place in lineLog.  Left out:   *)
(* operations the bridge ignores, and which block events the phone may see *)
(* (module BlockState).                                                    *)
(***************************************************************************)
EXTENDS Naturals, Sequences, FiniteSets, SequencesExt

CONSTANTS
    Ops,       \* operations of the account
    None,      \* no operation
    SyncLimit, \* operations one sync returns at most (100)
    MaxBridgeRestarts, \* bound: restarts of the bridge
    MaxFaults          \* bound: failures in it and restarts of the worker together

ASSUME InboundAssumption ==
    /\ SyncLimit \in Nat \ {0} /\ None \notin Ops
    /\ MaxBridgeRestarts \in Nat /\ MaxFaults \in Nat

\* Messages and read positions of others go straight to recv_out.jsonl; three
\* classes of operations become events at the end of a round; a message of the
\* account itself was sent by the bridge or from another device.
Events == {"contact", "profile", "group"}
Kinds == {"direct", "mine", "elsewhere"} \cup Events

VARIABLES
    kind,        \* the kind of each operation: "none" while it did not happen
    cut,         \* messages whose line the worker's splitlines() cuts in two
    lineLog,     \* the account's operations, in the order of LINE
    outstanding, \* sends LINE accepted and has not answered yet
    ownSent,     \* ownSentIds: answered sends, in memory
    sendOut,     \* answered sends in send_out.jsonl
    rev,         \* sync.revision
    savedRev,    \* the revision on disk
    busy,        \* is a round of recvLoop under way?
    batch,       \* its operations not yet handled
    events,      \* its contactEvents, profileEvents and groupEvents
    selfPending, \* self-sent messages held back
    flushing,    \* the one flushSelfPending is about to append
    recvOut,     \* recv_out.jsonl
    curRecv,     \* .cur_recv
    pump,        \* where pump_recv is: "idle", "sized" or "moved"
    size,        \* the size it took
    outbox,      \* outbox.json
    lost,        \* operations the bridge passed over when it could not forward them
    bridgeRestarts, bridgeErrors, workerRestarts

sendVars   == <<outstanding, ownSent, sendOut>>
roundVars  == <<rev, savedRev, busy, batch, events>>
selfVars   == <<selfPending, flushing>>
workerVars == <<curRecv, pump, size, outbox>>
faultVars  == <<lost, bridgeRestarts, bridgeErrors, workerRestarts>>
lineVars   == <<kind, cut, lineLog>>
vars == <<lineVars, sendVars, roundVars, selfVars, recvOut, workerVars, faultVars>>

\* May another failure or restart of the worker happen?
MayFault == bridgeErrors + workerRestarts < MaxFaults

SelfSent(o) == kind[o] \in {"mine", "elsewhere"}

NoEvents == [c \in Events |-> <<>>]

-----------------------------------------------------------------------------
Init ==
    /\ kind = [o \in Ops |-> "none"] /\ cut = {}
    /\ lineLog = <<>> /\ outstanding = {} /\ ownSent = {} /\ sendOut = {}
    /\ rev = 0 /\ savedRev = 0 /\ busy = FALSE /\ batch = <<>> /\ events = NoEvents
    /\ selfPending = {} /\ flushing = None
    /\ recvOut = <<>>
    /\ curRecv = 0 /\ pump = "idle" /\ size = 0 /\ outbox = <<>>
    /\ lost = {} /\ bridgeRestarts = 0 /\ bridgeErrors = 0 /\ workerRestarts = 0

\* Something happens on the account.  A message may hold U+2028, U+2029 or
\* U+0085, which JSON.stringify writes as it is.
LineOp(o) ==
    /\ kind[o] = "none"
    /\ \E k \in Kinds \ {"mine"} :
         /\ kind' = [kind EXCEPT ![o] = k]
         /\ cut' \in {cut, IF k \in Events THEN cut ELSE cut \cup {o}}
    /\ lineLog' = Append(lineLog, o)
    /\ UNCHANGED <<sendVars, roundVars, selfVars, recvOut, workerVars, faultVars>>

\* The send loop calls LINE, and LINE tells every device of the message ...
SendMine(o) ==
    /\ kind[o] = "none" /\ kind' = [kind EXCEPT ![o] = "mine"]
    /\ cut' \in {cut, cut \cup {o}}
    /\ lineLog' = Append(lineLog, o)
    /\ outstanding' = outstanding \cup {o}
    /\ UNCHANGED <<ownSent, sendOut, roundVars, selfVars, recvOut, workerVars, faultVars>>

\* ... before the call returns: dispatchSend remembers the id LINE gave.
Answer(o) ==
    /\ o \in outstanding
    /\ outstanding' = outstanding \ {o}
    /\ ownSent' = ownSent \cup {o} /\ sendOut' = sendOut \cup {o}
    /\ UNCHANGED <<lineVars, roundVars, selfVars, recvOut, workerVars, faultVars>>

\* client.talk.sync: the next operations after the revision in memory.
Sync ==
    /\ ~busy
    /\ \E n \in 1..SyncLimit :
         /\ rev + n <= Len(lineLog)
         /\ batch' = SubSeq(lineLog, rev + 1, rev + n)
    /\ busy' = TRUE /\ events' = NoEvents
    /\ UNCHANGED <<lineVars, sendVars, rev, savedRev, selfVars, recvOut, workerVars, faultVars>>

\* The events of the round with this operation added, if it is one.
Collected(o) == [c \in Events |-> IF kind[o] = c THEN Append(events[c], o) ELSE events[c]]

\* What the operations that cannot be forwarded are counted as.
Lose(ops) ==
    /\ MayFault
    /\ bridgeErrors' = bridgeErrors + 1
    /\ lost' = lost \cup (ops \ ToSet(recvOut))

\* The events collected so far.
Waiting(evs) == UNION {ToSet(evs[c]) : c \in Events}

\* handleOperations, one operation: the revision moves on first.
HandleOp ==
    /\ busy /\ batch # <<>>
    /\ LET o == Head(batch) IN
         /\ rev' = rev + 1
         /\ recvOut' = IF kind[o] = "direct" THEN Append(recvOut, o) ELSE recvOut
         /\ events' = Collected(o)
         /\ selfPending' = IF SelfSent(o) THEN selfPending \cup {o} ELSE selfPending
    /\ batch' = Tail(batch)
    /\ UNCHANGED <<lineVars, sendVars, savedRev, busy, flushing, workerVars, faultVars>>

\* The body of a message cannot be fetched or its line not be appended: that is
\* logged and the next operation follows ...
SkipMessage ==
    /\ busy /\ batch # <<>> /\ kind[Head(batch)] = "direct"
    /\ rev' = rev + 1 /\ batch' = Tail(batch)
    /\ Lose({Head(batch)})
    /\ UNCHANGED <<lineVars, sendVars, savedRev, busy, events, selfVars, recvOut, workerVars,
                   bridgeRestarts, workerRestarts>>

\* ... but where it is a receipt the round ends and its events are dropped; the
\* operations behind it are synced again.
AbortRound ==
    /\ busy /\ batch # <<>> /\ kind[Head(batch)] = "direct"
    /\ rev' = rev + 1 /\ batch' = <<>> /\ busy' = FALSE /\ events' = NoEvents
    /\ Lose({Head(batch)} \cup Waiting(events))
    /\ UNCHANGED <<lineVars, sendVars, savedRev, selfVars, recvOut, workerVars,
                   bridgeRestarts, workerRestarts>>

\* Its end, one event: contact events first, then profile, then group events.
AppendEvent ==
    /\ busy /\ batch = <<>>
    /\ \E class \in Events :
         /\ events[class] # <<>>
         /\ class \in {"profile", "group"} => events.contact = <<>>
         /\ class = "group" => events.profile = <<>>
         /\ recvOut' = Append(recvOut, Head(events[class]))
         /\ events' = [events EXCEPT ![class] = Tail(@)]
    /\ UNCHANGED <<lineVars, sendVars, rev, savedRev, busy, batch, selfVars, workerVars,
                   faultVars>>

\* A call to LINE, an append or saveRev throws at the end of the round: the events
\* left are dropped, and nothing is saved.
EndFails ==
    /\ busy /\ batch = <<>>
    /\ busy' = FALSE /\ events' = NoEvents
    /\ Lose(Waiting(events))
    /\ UNCHANGED <<lineVars, sendVars, rev, savedRev, batch, selfVars, recvOut, workerVars,
                   bridgeRestarts, workerRestarts>>

\* Mutant: the revision is saved while the events are not yet written.
RoundOverEarly == busy /\ batch = <<>>

\* The round is over when everything it brought is written or held back.
RoundOver == busy /\ batch = <<>> /\ events = NoEvents

\* saveRev.
SaveRev ==
    /\ RoundOver
    /\ savedRev' = rev /\ busy' = FALSE /\ events' = NoEvents
    /\ UNCHANGED <<lineVars, sendVars, rev, batch, selfVars, recvOut, workerVars, faultVars>>

\* Mutant: only the ids in memory are compared.
OwnInMemory(o) == o \in ownSent

\* Did this bridge send the message?  ownSentIds, then sentByBridge.
Own(o) == o \in ownSent \/ o \in sendOut

\* flushSelfPending, by recvLoop or by its timer: a message whose grace period
\* is over (LINE is taken to answer a send within it) leaves the queue, and is
\* dropped when it is the phone's own.
FlushTake(o) ==
    /\ flushing = None /\ o \in selfPending
    /\ o \notin outstanding
    /\ selfPending' = selfPending \ {o}
    /\ flushing' = IF Own(o) THEN None ELSE o
    /\ UNCHANGED <<lineVars, sendVars, roundVars, recvOut, workerVars, faultVars>>

\* After its body was fetched it is appended.
FlushAppend ==
    /\ flushing # None
    /\ recvOut' = Append(recvOut, flushing)
    /\ flushing' = None
    /\ UNCHANGED <<lineVars, sendVars, roundVars, selfPending, workerVars, faultVars>>

\* ... or that fails, which is only logged.
FlushFails ==
    /\ flushing # None
    /\ flushing' = None
    /\ Lose({flushing})
    /\ UNCHANGED <<lineVars, sendVars, roundVars, selfPending, recvOut, workerVars,
                   bridgeRestarts, workerRestarts>>

\* The bridge starts again from the saved revision; calls under way are lost.
BridgeRestart ==
    /\ bridgeRestarts < MaxBridgeRestarts
    /\ bridgeRestarts' = bridgeRestarts + 1
    /\ outstanding' = {} /\ ownSent' = {}
    /\ rev' = savedRev /\ busy' = FALSE /\ batch' = <<>> /\ events' = NoEvents
    /\ selfPending' = {} /\ flushing' = None
    /\ UNCHANGED <<lineVars, sendOut, savedRev, recvOut, workerVars, lost, bridgeErrors,
                   workerRestarts>>

-----------------------------------------------------------------------------
\* pump_recv takes the size of recv_out.jsonl ...
PumpSize ==
    /\ pump = "idle" /\ Len(recvOut) > curRecv
    /\ size' = Len(recvOut) /\ pump' = "sized"
    /\ UNCHANGED <<lineVars, sendVars, roundVars, selfVars, recvOut, curRecv, outbox, faultVars>>

\* Mutant: nothing is compared with what the outbox holds.
AppendAll(items) == outbox \o items

\* The pieces of a line that is cut do not parse; append_outbox adds only ids the
\* outbox does not have, each once.
AppendNew(items) ==
    LET box[n \in 0..Len(items)] ==
            IF n = 0 THEN outbox
            ELSE IF items[n] \in cut \/ Contains(box[n - 1], items[n]) THEN box[n - 1]
                 ELSE Append(box[n - 1], items[n])
    IN box[Len(items)]

\* ... reads to the end of the file, which may be further, ...
PumpMove ==
    /\ pump = "sized"
    /\ outbox' = AppendNew(SubSeq(recvOut, curRecv + 1, Len(recvOut)))
    /\ pump' = "moved"
    /\ UNCHANGED <<lineVars, sendVars, roundVars, selfVars, recvOut, curRecv, size, faultVars>>

\* Mutant: the cursor is set to the size the file has by then.
CursorNow == Len(recvOut)

\* The cursor written after a move.
CursorAfter == size

\* ... and writes the cursor.
PumpCursor ==
    /\ pump = "moved"
    /\ curRecv' = CursorAfter /\ pump' = "idle"
    /\ UNCHANGED <<lineVars, sendVars, roundVars, selfVars, recvOut, size, outbox, faultVars>>

\* The worker stops in between; while it writes the cursor it may leave the file
\* empty, which read_int takes for 0.
WorkerRestart ==
    /\ pump # "idle" /\ MayFault
    /\ workerRestarts' = workerRestarts + 1 /\ pump' = "idle"
    /\ curRecv' \in {curRecv, IF pump = "moved" THEN 0 ELSE curRecv}
    /\ UNCHANGED <<lineVars, sendVars, roundVars, selfVars, recvOut, size, outbox,
                   lost, bridgeErrors, bridgeRestarts>>

-----------------------------------------------------------------------------
Round == Sync \/ HandleOp \/ AppendEvent \/ SaveRev
Flush == FlushAppend \/ \E o \in Ops : FlushTake(o)
Pump  == PumpSize \/ PumpMove \/ PumpCursor

Next ==
    \/ \E o \in Ops : LineOp(o) \/ SendMine(o) \/ Answer(o)
    \/ Round \/ Flush \/ SkipMessage \/ AbortRound \/ EndFails \/ FlushFails \/ BridgeRestart
    \/ Pump \/ WorkerRestart

Spec == Init /\ [][Next]_vars

\* recvLoop, its timer and the worker's loop run for ever; every call to LINE
\* returns in the end.
FairSpec ==
    /\ Spec
    /\ WF_vars(Round) /\ WF_vars(Pump) /\ WF_vars(Flush)
    /\ WF_vars(\E o \in Ops : Answer(o))

-----------------------------------------------------------------------------
(* Every variable has its type, and no cursor points past its file.          *)
TypeOK ==
    /\ kind \in [Ops -> Kinds \cup {"none"}] /\ cut \subseteq Ops /\ lost \subseteq Ops
    /\ lineLog \in Seq(Ops) /\ IsInjective(lineLog)
    /\ outstanding \subseteq Ops /\ ownSent \subseteq sendOut /\ sendOut \subseteq Ops
    /\ savedRev \in 0..rev /\ rev \in 0..Len(lineLog)
    /\ busy \in BOOLEAN /\ batch \in Seq(Ops)
    /\ events \in [Events -> Seq(Ops)]
    /\ selfPending \subseteq Ops /\ flushing \in Ops \cup {None}
    /\ recvOut \in Seq(Ops) /\ outbox \in Seq(Ops)
    /\ curRecv \in 0..Len(recvOut) /\ size \in 0..Len(recvOut)
    /\ pump \in {"idle", "sized", "moved"}
    /\ bridgeRestarts \in Nat /\ bridgeErrors \in Nat /\ workerRestarts \in Nat

(* The saved revision never passes an operation that is not in              *)
(* recv_out.jsonl yet, so a restart of the bridge loses no message, receipt *)
(* or event of others; what is missing failed while the bridge ran.         *)
SavedMeansForwarded ==
    \A k \in 1..savedRev :
        SelfSent(lineLog[k]) \/ lineLog[k] \in ToSet(recvOut) \cup lost

(* A message the phone sent, and whose answer the bridge recorded, does not *)
(* come back to the phone, even when the bridge restarts and syncs it again. *)
NoSelfEcho ==
    \A o \in Ops : kind[o] = "mine" /\ o \in sendOut => o \notin ToSet(recvOut)

(* Every operation of others gets into the outbox, whatever restarts; so    *)
(* does a message sent from another device after the last restart.  Not so  *)
(* a message whose line is cut, or an operation whose forwarding failed.    *)
OpReachesOutbox ==
    \A o \in Ops :
        (\/ kind[o] \in {"direct"} \cup Events
         \/ /\ kind[o] = "elsewhere" /\ bridgeRestarts = MaxBridgeRestarts
            /\ o \notin ToSet(SubSeq(lineLog, 1, rev)))
        ~> o \in ToSet(outbox) \cup cut \cup lost

(* Messages and receipts come out in the order of LINE, each once, and one  *)
(* failure of the bridge loses one at most: pumping twice, syncing twice    *)
(* and restarts are absorbed.  Messages whose line is cut never come, and   *)
(* a restart may bring one that was lost after all, behind its followers:   *)
(* these two the relay does not speak of.                                   *)
Through == {o \in Ops \ (cut \cup lost) : kind[o] = "direct"}
Passing(s) ==
    LET kept[n \in 0..Len(s)] ==
            IF n = 0 THEN <<>>
            ELSE IF s[n] \in Through THEN Append(kept[n - 1], s[n]) ELSE kept[n - 1]
    IN kept[Len(s)]
R == INSTANCE Relay WITH Values <- Ops, source <- Passing(lineLog),
                         sink <- Passing(outbox), failures <- bridgeErrors
ImplementsRelay == R!Spec
=============================================================================

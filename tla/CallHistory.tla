----------------------------- MODULE CallHistory -----------------------------
(***************************************************************************)
(* The calls the account made, on their way into the phone's history: the  *)
(* call gateway appends a line to call_log_out.jsonl for a call of the     *)
(* phone, and LINE sends a message about every call, the phone's too,      *)
(* which the bridge appends to recv_out.jsonl.  local_worker.py moves both *)
(* into outbox.json, one file after the other in each round, and drops a   *)
(* message when a call of the log, kept in memory, is near it in time.     *)
(***************************************************************************)
EXTENDS Naturals, Sequences, FiniteSets, SequencesExt

CONSTANTS
    Calls,      \* the calls
    Peers,      \* who is called
    Window,     \* CALLOUT_MATCH_MS
    MaxRecent,  \* 50, the calls of the log remembered at most
    MaxNow, MaxRestarts   \* bounds

CallHistoryAssumption == Window \in Nat /\ MaxRecent \in Nat \ {0}

VARIABLES
    now,        \* the clock
    peer,       \* whom each call is to
    ours,       \* the calls the phone made; the others came from another device
    ended,      \* per call when it ended; 0: not yet
    callLog,    \* call_log_out.jsonl
    recvOut,    \* recv_out.jsonl
    curLog, curRecv,   \* the cursors of both
    recent,     \* _recent_callouts
    pump,       \* the step the round is at, and up to where the file is moved
    outbox,     \* what outbox.json has: a call from the log or from a message
    dropped,    \* messages dropped as duplicates
    early,      \* calls whose message was moved before their line of the log
    forgotten,  \* calls of the log no longer in memory
    restarts    \* counter

files == <<callLog, recvOut, curLog, curRecv>>
calls == <<now, peer, ours, ended>>
vars == <<calls, files, recent, pump, outbox, dropped, early, forgotten, restarts>>

Init ==
    /\ now = 1 /\ peer \in [Calls -> Peers] /\ ours \in SUBSET Calls
    /\ ended = [c \in Calls |-> 0]
    /\ callLog = <<>> /\ recvOut = <<>> /\ curLog = 0 /\ curRecv = 0
    /\ recent = <<>> /\ pump = [step |-> "recv", size |-> 0]
    /\ outbox = {} /\ dropped = {} /\ early = {} /\ forgotten = {} /\ restarts = 0

Tick ==
    /\ now < MaxNow /\ now' = now + 1
    /\ UNCHANGED <<peer, ours, ended, files, recent, pump, outbox, dropped, early, forgotten, restarts>>

EndCall(c) ==
    /\ ended[c] = 0 /\ ended' = [ended EXCEPT ![c] = now]
    /\ UNCHANGED <<now, peer, ours, files, recent, pump, outbox, dropped, early, forgotten, restarts>>

\* The gateway logs a call; LINE's message comes, with a time of LINE's own, in any order.
LogCall(c) ==
    /\ c \in ours /\ ended[c] # 0 /\ ~Contains(callLog, c)
    /\ callLog' = Append(callLog, c)
    /\ UNCHANGED <<calls, recvOut, curLog, curRecv, recent, pump, outbox, dropped, early,
                   forgotten, restarts>>
Message(c) ==
    /\ ended[c] # 0 /\ \A i \in 1..Len(recvOut) : recvOut[i].call # c
    /\ \E at \in 0..(ended[c] + Window + 1) : recvOut' = Append(recvOut, [call |-> c, at |-> at])
    /\ UNCHANGED <<calls, callLog, curLog, curRecv, recent, pump, outbox, dropped, early,
                   forgotten, restarts>>

-----------------------------------------------------------------------------
(* A round of the worker *)

\* is_duplicate_callout, for a message m and a call c of the log.
LaterOnly(m, c) == peer[m.call] = peer[c] /\ m.at <= ended[c]   \* Mutant: one side of the window
Near(m, c) == peer[m.call] = peer[c] /\ m.at <= ended[c] + Window /\ ended[c] <= m.at + Window
Duplicate(m) == \E c \in ToSet(recent) : Near(m, c)

\* pump_recv: the new messages, less the duplicates, into the outbox, where an id is
\* put only once; then the cursor.
PumpRecv ==
    LET new == ToSet(SubSeq(recvOut, curRecv + 1, Len(recvOut))) IN
    /\ pump.step = "recv"
    /\ outbox' = outbox \cup {[from |-> "message", call |-> m.call] :
                              m \in {n \in new : ~Duplicate(n)}}
    /\ dropped' = dropped \cup {m.call : m \in {n \in new : Duplicate(n)}}
    /\ early' = early \cup {m.call : m \in {n \in new :
                     [from |-> "log", call |-> n.call] \notin outbox}}
    /\ pump' = [step |-> "recvCursor", size |-> Len(recvOut)]
    /\ UNCHANGED <<calls, files, recent, forgotten, restarts>>
RecvCursor ==
    /\ pump.step = "recvCursor"
    /\ curRecv' = pump.size /\ pump' = [step |-> "log", size |-> 0]
    /\ UNCHANGED <<calls, callLog, recvOut, curLog, recent, outbox, dropped, early, forgotten, restarts>>

\* pump_calllog: the new lines are remembered, the last MaxRecent of all, and moved.
Remembered(all) ==
    SubSeq(all, IF Len(all) > MaxRecent THEN Len(all) - MaxRecent + 1 ELSE 1, Len(all))
PumpCallLog ==
    LET new == SubSeq(callLog, curLog + 1, Len(callLog)) IN
    /\ pump.step = "log"
    /\ recent' = Remembered(recent \o new)
    /\ forgotten' = forgotten \cup (ToSet(recent \o new) \ ToSet(recent'))
    /\ outbox' = outbox \cup {[from |-> "log", call |-> c] : c \in ToSet(new)}
    /\ pump' = [step |-> "logCursor", size |-> Len(callLog)]
    /\ UNCHANGED <<calls, files, dropped, early, restarts>>
LogCursor ==
    /\ pump.step = "logCursor"
    /\ curLog' = pump.size /\ pump' = [step |-> "recv", size |-> 0]
    /\ UNCHANGED <<calls, callLog, recvOut, curRecv, recent, outbox, dropped, early, forgotten, restarts>>

\* The worker starts anew.  A cursor that was being rewritten in place may read as 0.
Restart ==
    /\ restarts < MaxRestarts /\ restarts' = restarts + 1
    /\ recent' = <<>> /\ forgotten' = forgotten \cup ToSet(recent)
    /\ curRecv' \in {curRecv} \cup (IF pump.step = "recvCursor" THEN {0} ELSE {})
    /\ curLog' \in {curLog} \cup (IF pump.step = "logCursor" THEN {0} ELSE {})
    /\ pump' = [step |-> "recv", size |-> 0]
    /\ UNCHANGED <<calls, callLog, recvOut, outbox, dropped, early>>

Next ==
    \/ Tick \/ PumpRecv \/ RecvCursor \/ PumpCallLog \/ LogCursor \/ Restart
    \/ \E c \in Calls : EndCall(c) \/ LogCall(c) \/ Message(c)

Spec == Init /\ [][Next]_vars

-----------------------------------------------------------------------------
\* A call is in the phone's history once: from the log or from LINE's message, and one
\* of them when both were moved.  The exceptions: the message was moved before the line
\* of the log; the worker forgot the call, by a restart or after MaxRecent newer ones;
\* LINE's time is not within 60 s of the gateway's; and a call of another device near
\* one of the phone's to the same peer, which is lost.
Listed(from, c) == [from |-> from, call |-> c] \in outbox
FarOff(c) ==
    \E m \in ToSet(recvOut) :
        m.call = c /\ (m.at > ended[c] + Window \/ ended[c] > m.at + Window)
NearOne(c) == \E d \in ours \ {c} : peer[d] = peer[c]
CallListedOnce ==
    \A c \in Calls :
        /\ Listed("message", c) /\ Listed("log", c) => c \in early \cup forgotten \/ FarOff(c)
        /\ c \in dropped => Listed("message", c) \/ Listed("log", c) \/ NearOne(c)
=============================================================================

----------------------------- MODULE PushNotify -----------------------------
(***************************************************************************)
(* line_skyglow_notify.py: one loop that follows recv_out.jsonl and        *)
(* call_ops.jsonl in turn, one line of each per round, and posts a push to *)
(* every routing key.  Each file has an offset in memory and in a file of  *)
(* its own, which is written when all keys of a line have been served; any *)
(* error leaves the line where it is and starts the round again.           *)
(*                                                                         *)
(* A line is its record; what a push says is left out.  The two files only *)
(* grow here (the code starts over in a file that became shorter).         *)
(***************************************************************************)
EXTENDS Naturals, Sequences, FiniteSets

CONSTANTS
    Devices,      \* routing keys to notify
    Rejected,     \* those the Skyglow server refuses for good
    Messages,     \* records of messages from others
    Receipts,     \* any other record of recv_out.jsonl
    Rings,        \* records of incoming calls (type 50)
    Incomplete,   \* those of them without caller or route: no push can be made of them
    Cancels,      \* any other record of call_ops.jsonl
    None,         \* no offset file
    Fresh,        \* is this the first start, without offset files?
    MaxFailures,  \* bound: posts and writes of an offset that fail
    MaxRestarts   \* bound: restarts of the notifier

Records == Messages \cup Receipts \cup Rings \cup Cancels
Pushable == Messages \cup Rings
Files == {"recv_out", "call_ops"}

ASSUME PushAssumption ==
    /\ IsFiniteSet(Devices) /\ Rejected \subseteq Devices /\ Incomplete \subseteq Rings
    /\ (Messages \cup Receipts) \cap (Rings \cup Cancels) = {}
    /\ Pushable \cap (Receipts \cup Cancels) = {}
    /\ None \notin Nat /\ Fresh \in BOOLEAN
    /\ MaxFailures \in Nat /\ MaxRestarts \in Nat

VARIABLES
    lines,    \* the lines of the two files
    offset,   \* message_offset and call_offset
    saved,    \* the offset files
    at,       \* the file this half of the round is about
    step,     \* "read", "push" or "save"
    todo,     \* keys the current line has not been posted for
    pushes,   \* how often each device got each record
    failures, restarts

vars == <<lines, offset, saved, at, step, todo, pushes, failures, restarts>>

FileOf(r) == IF r \in Messages \cup Receipts THEN "recv_out" ELSE "call_ops"

Other(f) == IF f = "recv_out" THEN "call_ops" ELSE "recv_out"

Written(r) == \E f \in Files : \E k \in 1..Len(lines[f]) : lines[f][k] = r

-----------------------------------------------------------------------------
Init ==
    /\ lines = [f \in Files |-> <<>>]
    /\ offset = [f \in Files |-> 0]
    /\ saved = [f \in Files |-> IF Fresh THEN None ELSE 0]
    /\ at = "recv_out" /\ step = "read" /\ todo = {}
    /\ pushes = [d \in Devices |-> [r \in Records |-> 0]]
    /\ failures = 0 /\ restarts = 0

\* The bridge appends a record.
AppendRecord(r) ==
    /\ ~Written(r)
    /\ lines' = [lines EXCEPT ![FileOf(r)] = Append(@, r)]
    /\ UNCHANGED <<offset, saved, at, step, todo, pushes, failures, restarts>>

\* read_line: the next line and the keys it goes to, if it is one to push; at
\* the end of the file it is the other file's turn.
ReadLine ==
    /\ step = "read"
    /\ IF offset[at] < Len(lines[at])
       THEN /\ step' = "push"
            /\ todo' = IF lines[at][offset[at] + 1] \in Pushable THEN Devices ELSE {}
            /\ UNCHANGED at
       ELSE at' = Other(at) /\ UNCHANGED <<step, todo>>
    /\ UNCHANGED <<lines, offset, saved, pushes, failures, restarts>>

Current == lines[at][offset[at] + 1]
Pushed(d) == [pushes EXCEPT ![d][Current] = @ + 1]

\* No push of the line will ever reach the device.
Hopeless(d) == d \in Rejected \/ Current \in Incomplete

\* post_payload for one key.
Post(d) ==
    /\ step = "push" /\ d \in todo /\ ~Hopeless(d)
    /\ pushes' = Pushed(d)
    /\ todo' = todo \ {d}
    /\ UNCHANGED <<lines, offset, saved, at, step, failures, restarts>>

\* Mutant: a line that could not be pushed is passed over.
OffsetPastFailed == [offset EXCEPT ![at] = @ + 1]

\* The offsets after a post that failed.
OffsetAfterFailure == offset

\* A post fails, with or without the push on its way, the keys cannot be had, or
\* the push cannot be made: the round starts again, with recv_out.jsonl.
Retry ==
    /\ step' = "read" /\ at' = "recv_out" /\ todo' = {}
    /\ offset' = OffsetAfterFailure
    /\ UNCHANGED <<lines, saved, restarts>>

PostFails(d) ==
    /\ step = "push" /\ d \in todo
    /\ Hopeless(d) \/ failures < MaxFailures
    /\ failures' = IF Hopeless(d) THEN failures ELSE failures + 1
    /\ pushes' \in {pushes} \cup (IF Hopeless(d) THEN {} ELSE {Pushed(d)})
    /\ Retry

\* Mutant: the line is done as soon as one key has been served.
ServedFirst == step = "push" /\ todo # Devices

\* Every key of the line has been served.
Served == step = "push" /\ todo = {}

\* The offset in memory moves on ...
Advance ==
    /\ Served
    /\ offset' = [offset EXCEPT ![at] = @ + 1]
    /\ step' = "save" /\ todo' = {}
    /\ UNCHANGED <<lines, saved, at, pushes, failures, restarts>>

\* Mutant: the offset is written for the messages only.
SavedMessages == [saved EXCEPT !["recv_out"] = offset["recv_out"]]

\* The offset files with the one of this file written.
SavedNow == [saved EXCEPT ![at] = offset[at]]

\* ... write_offset puts it on disk, and the other file has its turn.
WriteOffset ==
    /\ step = "save"
    /\ saved' = SavedNow
    /\ at' = Other(at) /\ step' = "read"
    /\ UNCHANGED <<lines, offset, todo, pushes, failures, restarts>>

\* It cannot be written: the round starts again, one line further.
WriteFails ==
    /\ step = "save" /\ failures < MaxFailures
    /\ failures' = failures + 1
    /\ at' = "recv_out" /\ step' = "read"
    /\ UNCHANGED <<lines, offset, saved, todo, pushes, restarts>>

\* read_offset: the end of the file as long as no offset was ever written.
StartOffset(f) == IF saved[f] = None THEN Len(lines[f]) ELSE saved[f]

Restart ==
    /\ restarts < MaxRestarts
    /\ restarts' = restarts + 1
    /\ offset' = [f \in Files |-> StartOffset(f)]
    /\ at' = "recv_out" /\ step' = "read" /\ todo' = {}
    /\ UNCHANGED <<lines, saved, pushes, failures>>

-----------------------------------------------------------------------------
Loop ==
    \/ ReadLine \/ Advance \/ WriteOffset \/ WriteFails
    \/ \E d \in Devices : Post(d) \/ PostFails(d)

Next ==
    \/ \E r \in Records : AppendRecord(r)
    \/ Loop
    \/ Restart

Spec == Init /\ [][Next]_vars

\* The notifier's loop runs for ever.
FairSpec == Spec /\ WF_vars(Loop)

-----------------------------------------------------------------------------
(* Every variable has its type, and no offset passes the end of its file.    *)
TypeOK ==
    /\ lines \in [Files -> Seq(Records)]
    /\ offset \in [Files -> Nat] /\ saved \in [Files -> Nat \cup {None}]
    /\ \A f \in Files : /\ offset[f] <= Len(lines[f])
                        /\ saved[f] = None \/ saved[f] <= offset[f]
    /\ at \in Files /\ step \in {"read", "push", "save"}
    /\ todo \subseteq Devices
    /\ pushes \in [Devices -> [Records -> Nat]]
    /\ failures \in Nat /\ restarts \in Nat

(* No line is passed before every device got its push, whatever posts fail   *)
(* and however often the notifier restarts.                                  *)
NothingSkipped ==
    \A f \in Files : \A k \in 1..offset[f] :
        lines[f][k] \in Pushable => \A d \in Devices : pushes[d][lines[f][k]] > 0

(* A device gets a push again only because of a failed post, a failed write of *)
(* an offset or a restart, and then of one line only: no fault replays the    *)
(* file.                                                                     *)
OneLineRepeated ==
    \A d \in Devices :
        Cardinality({r \in Pushable : pushes[d][r] > 1}) <= failures + restarts

\* A call no push can be made of is raised about in every round, and no call after it
\* has its turn.
Blocked(r) == \E f \in Files : \E k \in 1..Len(lines[f]) :
    lines[f][k] = r /\ \E j \in 1..k : lines[f][j] \in Incomplete

(* When the server refuses no device, every message is pushed to every device  *)
(* in the end, although messages and calls share one loop and a call may fail  *)
(* for ever, and so is every call with none before it that fails for ever.     *)
EveryDeviceNotified ==
    \A r \in Pushable, d \in Devices :
        Written(r) /\ ~Blocked(r) /\ Rejected = {} ~> pushes[d][r] > 0
=============================================================================

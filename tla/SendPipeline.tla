---------------------------- MODULE SendPipeline ----------------------------
(***************************************************************************)
(* What the phone sends, on its way to LINE: legy_proxy.py queues a job in *)
(* send_queue.jsonl, local_worker.py copies the lines to send_in.jsonl     *)
(* behind a cursor, bridge_worker.mjs reads send_in.jsonl behind an offset *)
(* of its own, calls LINE, appends the result to send_out.jsonl and the id *)
(* to send_done.txt, and a C5 handler waits for that result.               *)
(*                                                                         *)
(* Each file is the sequence of its lines, a line is its job.  The three   *)
(* processes crash apart from each other; the files survive.  What happens *)
(* inside a media or group job is in MediaConfirm, VideoSend, GroupWrite.  *)
(***************************************************************************)
EXTENDS Naturals, Sequences, FiniteSets, SequencesExt

CONSTANTS
    None,            \* no job
    MaxJobs,         \* bound: send jobs, one per request of the phone
    MaxFaults        \* bound: crashes of the two and failed writes together

\* A job's id holds the millisecond of its request, so ids grow.
Jobs == 1..MaxJobs

ASSUME SendAssumption ==
    /\ MaxJobs \in Nat /\ None \notin Jobs
    /\ MaxFaults \in Nat

\* C5 over HTTP waits for its delivery result; everything else is answered at
\* once: sendMessage and C5 over SPDY, with a text or with a content type,
\* whose body the phone uploads after the answer.
Kinds == {"waiting", "text", "media"}

VARIABLES
    kind,        \* how each job was sent: "none" while it was not
    cut,         \* jobs whose line the worker's splitlines() cuts in two
    phone,       \* what the phone knows of each job
    queue,       \* send_queue.jsonl
    curSend,     \* .cur_send: lines of queue already copied
    pumped,      \* 0, or the lines copied while the cursor is not yet written
    sendIn,      \* send_in.jsonl
    bridgeUp,    \* does the bridge run?
    offset,      \* lines of sendIn it has read
    batch,       \* lines read and not yet dispatched
    deferred,    \* media jobs waiting for their body
    doneMem,     \* the ids in its memory
    cur,         \* the job whose answer from LINE it holds, and
    curOk,       \* whether that answer was a success
    recorded,    \* is that result already in send_out.jsonl?
    sendOut,     \* send_out.jsonl: the results, by job
    doneDisk,    \* send_done.txt
    lineLog,     \* what LINE accepted, in order
    uploaded,    \* media bodies that arrived
    overdue,     \* media jobs whose 120 seconds are over
    tears,       \* crashes of the worker that left .cur_send cut
    workerCrashes, bridgeCrashes, writeErrors

phoneVars  == <<kind, cut, phone>>
workerVars == <<curSend, pumped, sendIn>>
bridgeVars == <<bridgeUp, offset, batch, deferred, doneMem, cur, curOk, recorded>>
resultVars == <<sendOut, doneDisk>>
bodyVars   == <<uploaded, overdue>>
faultVars  == <<tears, workerCrashes, bridgeCrashes, writeErrors>>
vars == <<phoneVars, queue, workerVars, bridgeVars, resultVars, lineLog, bodyVars, faultVars>>

\* May another fault happen?
MayFault == workerCrashes + bridgeCrashes + writeErrors < MaxFaults

Result(j, ok) == [job |-> j, ok |-> ok]

-----------------------------------------------------------------------------
Init ==
    /\ kind = [j \in Jobs |-> "none"] /\ cut = {}
    /\ phone = [j \in Jobs |-> "new"]
    /\ queue = <<>> /\ curSend = 0 /\ pumped = 0 /\ sendIn = <<>>
    /\ bridgeUp = TRUE /\ offset = 0 /\ batch = <<>> /\ deferred = {}
    /\ doneMem = {} /\ cur = None /\ curOk = FALSE /\ recorded = FALSE
    /\ sendOut = {} /\ doneDisk = {} /\ lineLog = <<>>
    /\ uploaded = {} /\ overdue = {}
    /\ tears = 0 /\ workerCrashes = 0 /\ bridgeCrashes = 0 /\ writeErrors = 0

\* The next request of the phone.
IsNext(j) == phone[j] = "new" /\ \A i \in Jobs : i < j => phone[i] # "new"

\* The phone sends; the proxy appends the job to send_queue.jsonl.  A text may
\* hold a character that the proxy writes as it is and splitlines() takes for
\* the end of a line (so may the text of a C5, which then times out).
Submit(j) ==
    /\ IsNext(j)
    /\ \E k \in Kinds :
         /\ kind' = [kind EXCEPT ![j] = k]
         /\ phone' = [phone EXCEPT ![j] = IF k = "waiting" THEN "waiting" ELSE "acked"]
         /\ cut' \in {cut, IF k = "text" THEN cut \cup {j} ELSE cut}
    /\ queue' = Append(queue, j)
    /\ UNCHANGED <<workerVars, bridgeVars, resultVars, lineLog, bodyVars, faultVars>>

\* The append fails: C5 answers 503, everything else succeeds all the same.
SubmitFails(j) ==
    /\ IsNext(j) /\ MayFault
    /\ writeErrors' = writeErrors + 1
    /\ \E k \in Kinds :
         /\ kind' = [kind EXCEPT ![j] = k]
         /\ phone' = [phone EXCEPT ![j] = IF k = "waiting" THEN "failed" ELSE "acked"]
    /\ UNCHANGED <<cut, queue, workerVars, bridgeVars, resultVars, lineLog, bodyVars,
                   tears, workerCrashes, bridgeCrashes>>

\* Mutant: any result of the job is a success.
AnyResult(j) == \E r \in sendOut : r.job = j

\* The result wait_send_result looks for.
Delivered(j) == Result(j, TRUE) \in sendOut

\* wait_send_result finds the job's line in send_out.jsonl.
AnswerC5(j) ==
    /\ phone[j] = "waiting"
    /\ \E r \in sendOut : r.job = j
    /\ phone' = [phone EXCEPT ![j] = IF Delivered(j) THEN "acked" ELSE "failed"]
    /\ UNCHANGED <<kind, cut, queue, workerVars, bridgeVars, resultVars, lineLog, bodyVars, faultVars>>

\* Ten seconds pass without one, or the proxy restarts and the connection is
\* lost: to the phone the message is unsent.
GiveUpC5(j) ==
    /\ phone[j] = "waiting"
    /\ phone' = [phone EXCEPT ![j] = "failed"]
    /\ UNCHANGED <<kind, cut, queue, workerVars, bridgeVars, resultVars, lineLog, bodyVars, faultVars>>

\* The lines that parse.
Parsed(s) ==
    LET kept[n \in 0..Len(s)] ==
            IF n = 0 THEN <<>>
            ELSE IF s[n] \in cut THEN kept[n - 1] ELSE Append(kept[n - 1], s[n])
    IN kept[Len(s)]

\* pump_send, first half: every new line that parses is appended.
PumpAppend ==
    /\ pumped = 0 /\ curSend < Len(queue)
    /\ sendIn' = sendIn \o Parsed(SubSeq(queue, curSend + 1, Len(queue)))
    /\ pumped' = Len(queue)
    /\ UNCHANGED <<phoneVars, queue, curSend, bridgeVars, resultVars, lineLog, bodyVars, faultVars>>

\* pump_send, second half: the cursor follows, to the lines read before.
PumpCursor ==
    /\ pumped > 0
    /\ curSend' = pumped /\ pumped' = 0
    /\ UNCHANGED <<phoneVars, queue, sendIn, bridgeVars, resultVars, lineLog, bodyVars, faultVars>>

\* What .cur_send says after a stop or a failure in the second half: write_int
\* truncates it first, and read_int takes an empty file for 0.
CursorLeft == {curSend, 0}

\* The worker stops between the two or while it writes the cursor, or that write
\* raises, which main only logs: it copies these lines again, or all of them.
WorkerCrash ==
    /\ pumped > 0 /\ MayFault
    /\ curSend' \in CursorLeft
    /\ pumped' = 0 /\ workerCrashes' = workerCrashes + 1
    /\ tears' = IF curSend' = curSend THEN tears ELSE tears + 1
    /\ UNCHANGED <<phoneVars, queue, sendIn, bridgeVars, resultVars, lineLog,
                   bodyVars, bridgeCrashes, writeErrors>>

-----------------------------------------------------------------------------
Idle == bridgeUp /\ cur = None

\* sendLoop reads the lines past its offset.
ReadLines ==
    /\ Idle /\ batch = <<>> /\ offset < Len(sendIn)
    /\ batch' = SubSeq(sendIn, offset + 1, Len(sendIn))
    /\ offset' = Len(sendIn)
    /\ UNCHANGED <<phoneVars, queue, workerVars, bridgeUp, deferred, doneMem, cur, curOk,
                   recorded, resultVars, lineLog, bodyVars, faultVars>>

\* Mutant: a line read once is not remembered.
NeverAnswered(j) == FALSE

\* Mutant: an id counts as done as soon as its line is read.
AnsweredWhenRead(j) == j \in ToSet(SubSeq(sendIn, 1, offset))

\* The job of this line was answered before.
AlreadyAnswered(j) == j \in doneMem

\* A line whose job was answered before is dropped.
DropDone ==
    /\ Idle /\ batch # <<>> /\ AlreadyAnswered(Head(batch))
    /\ batch' = Tail(batch)
    /\ UNCHANGED <<phoneVars, queue, workerVars, bridgeUp, offset, deferred, doneMem, cur,
                   curOk, recorded, resultVars, lineLog, bodyVars, faultVars>>

\* handleSend(j): the answer of LINE, which may accept a job and lose the answer
\* on the way; a media job without a body after its 120 seconds fails.
Attempt(j) ==
    /\ cur' = j /\ recorded' = FALSE
    /\ IF kind[j] = "media" /\ j \notin uploaded
       THEN j \in overdue /\ curOk' = FALSE /\ UNCHANGED lineLog
       ELSE \E accepted \in BOOLEAN, answered \in BOOLEAN :
              /\ curOk' = (accepted /\ answered)
              /\ lineLog' = IF accepted THEN Append(lineLog, j) ELSE lineLog

\* Mutant: the next line is dispatched in front of this one.
NextLine == batch[Len(batch)]

\* The line to dispatch.
ThisLine == Head(batch)

\* dispatchSend of a new line: LINE is called ...
DispatchLine ==
    /\ Idle /\ batch # <<>> /\ ~AlreadyAnswered(ThisLine)
    /\ Attempt(ThisLine)
    /\ batch' = RemoveFirst(batch, ThisLine)
    /\ UNCHANGED <<phoneVars, queue, workerVars, bridgeUp, offset, deferred, doneMem,
                   resultVars, bodyVars, faultVars>>

\* ... or the job waits for its body.
DeferLine ==
    /\ Idle /\ batch # <<>> /\ ~AlreadyAnswered(ThisLine)
    /\ kind[ThisLine] = "media" /\ ThisLine \notin uploaded \cup overdue
    /\ deferred' = deferred \cup {ThisLine}
    /\ batch' = RemoveFirst(batch, ThisLine)
    /\ UNCHANGED <<phoneVars, queue, workerVars, bridgeUp, offset, doneMem, cur, curOk, recorded, resultVars, lineLog, bodyVars, faultVars>>

\* After the lines of a round, the deferred jobs are tried again; those still
\* without a body stay.
RetryDeferred(j) ==
    /\ Idle /\ batch = <<>> /\ j \in deferred
    /\ Attempt(j)
    /\ UNCHANGED <<phoneVars, queue, workerVars, bridgeUp, offset, batch, deferred, doneMem, resultVars, bodyVars, faultVars>>

\* The result goes to send_out.jsonl, and a deferred job is over.
RecordResult ==
    /\ bridgeUp /\ cur # None /\ ~recorded
    /\ sendOut' = sendOut \cup {Result(cur, curOk)}
    /\ recorded' = TRUE
    /\ deferred' = deferred \ {cur}
    /\ UNCHANGED <<phoneVars, queue, workerVars, bridgeUp, offset, batch, doneMem, cur, curOk, doneDisk, lineLog, bodyVars, faultVars>>

\* That append throws: the loop drops what is left of the lines it has read.
RecordFails ==
    /\ bridgeUp /\ cur # None /\ ~recorded
    /\ MayFault
    /\ writeErrors' = writeErrors + 1
    /\ deferred' = deferred \ {cur}
    /\ batch' = <<>> /\ cur' = None /\ curOk' = FALSE
    /\ UNCHANGED <<phoneVars, queue, workerVars, bridgeUp, offset, doneMem, recorded,
                   resultVars, lineLog, bodyVars, tears, workerCrashes, bridgeCrashes>>

\* markDone: the id in memory and in send_done.txt.
MarkDone ==
    /\ bridgeUp /\ cur # None /\ recorded
    /\ doneMem' = doneMem \cup {cur} /\ doneDisk' = doneDisk \cup {cur}
    /\ cur' = None /\ curOk' = FALSE /\ recorded' = FALSE
    /\ UNCHANGED <<phoneVars, queue, workerVars, bridgeUp, offset, batch, deferred, sendOut, lineLog, bodyVars, faultVars>>

BridgeCrash ==
    /\ bridgeUp /\ MayFault
    /\ bridgeUp' = FALSE /\ bridgeCrashes' = bridgeCrashes + 1
    /\ offset' = 0 /\ batch' = <<>> /\ deferred' = {} /\ doneMem' = {}
    /\ cur' = None /\ curOk' = FALSE /\ recorded' = FALSE
    /\ UNCHANGED <<phoneVars, queue, workerVars, resultVars, lineLog,
                   bodyVars, tears, workerCrashes, writeErrors>>

\* A starting bridge reads from the end of send_in.jsonl.
StartOffset == Len(sendIn)

\* loadDone.
LoadedDone == doneDisk

BridgeStart ==
    /\ ~bridgeUp
    /\ bridgeUp' = TRUE
    /\ offset' = StartOffset
    /\ doneMem' = LoadedDone
    /\ UNCHANGED <<phoneVars, queue, workerVars, batch, deferred, cur, curOk, recorded,
                   resultVars, lineLog, bodyVars, faultVars>>

\* The phone uploads the body of a media job it was answered for.
Upload(j) ==
    /\ kind[j] = "media" /\ j \notin uploaded /\ phone[j] = "acked"
    /\ uploaded' = uploaded \cup {j}
    /\ UNCHANGED <<phoneVars, queue, workerVars, bridgeVars, resultVars, lineLog, overdue, faultVars>>

\* The 120 seconds of a media job are over and its body has not come.
UploadOverdue(j) ==
    /\ kind[j] = "media" /\ j \notin overdue \cup uploaded /\ phone[j] = "acked"
    /\ overdue' = overdue \cup {j}
    /\ UNCHANGED <<phoneVars, queue, workerVars, bridgeVars, resultVars, lineLog, uploaded, faultVars>>

-----------------------------------------------------------------------------
Worker == PumpAppend \/ PumpCursor

Bridge ==
    \/ ReadLines \/ DropDone \/ DispatchLine \/ DeferLine
    \/ \E j \in Jobs : RetryDeferred(j)
    \/ RecordResult \/ MarkDone \/ BridgeStart

Next ==
    \/ \E j \in Jobs : \/ Submit(j) \/ SubmitFails(j) \/ AnswerC5(j) \/ GiveUpC5(j)
                       \/ Upload(j) \/ UploadOverdue(j)
    \/ Worker \/ Bridge
    \/ WorkerCrash \/ BridgeCrash \/ RecordFails

Spec == Init /\ [][Next]_vars

\* The worker and the bridge loop for ever, and time passes.
FairSpec ==
    /\ Spec
    /\ WF_vars(Worker) /\ WF_vars(Bridge)
    /\ \A j \in Jobs : WF_vars(UploadOverdue(j))

-----------------------------------------------------------------------------
(* Every variable has its type, and no cursor points past its file.          *)
TypeOK ==
    /\ kind \in [Jobs -> Kinds \cup {"none"}] /\ cut \subseteq Jobs
    /\ phone \in [Jobs -> {"new", "waiting", "acked", "failed"}]
    /\ queue \in Seq(Jobs) /\ sendIn \in Seq(Jobs) /\ batch \in Seq(Jobs)
    /\ curSend \in 0..Len(queue) /\ pumped \in 0..Len(queue)
    /\ bridgeUp \in BOOLEAN /\ offset \in 0..Len(sendIn)
    /\ deferred \subseteq Jobs /\ doneMem \subseteq Jobs /\ doneDisk \subseteq Jobs
    /\ cur \in Jobs \cup {None} /\ curOk \in BOOLEAN /\ recorded \in BOOLEAN
    /\ sendOut \subseteq [job : Jobs, ok : BOOLEAN]
    /\ lineLog \in Seq(Jobs)
    /\ uploaded \subseteq Jobs /\ overdue \subseteq Jobs
    /\ tears \in Nat /\ workerCrashes \in Nat /\ bridgeCrashes \in Nat /\ writeErrors \in Nat

TimesAccepted(j) == Cardinality({i \in 1..Len(lineLog) : lineLog[i] = j})

(* LINE gets a job at most once as long as only one side misbehaves: the ids *)
(* in send_done.txt absorb lines copied twice, the offset at the end absorbs *)
(* a restart of the bridge.  Together the two faults can send a job twice.   *)
AtMostOnce ==
    workerCrashes = 0 \/ bridgeCrashes + writeErrors = 0
        => \A j \in Jobs : TimesAccepted(j) <= 1

(* LINE gets the jobs without a body in the order in which the phone sent    *)
(* them, across lines copied twice and restarts: only a cursor cut while it   *)
(* was written, which copies the whole queue again, brings a job that a fault *)
(* of the bridge had skipped to LINE behind a later one.                      *)
DeliveryOrder ==
    tears = 0 \/ bridgeCrashes + writeErrors = 0
        => \A i, k \in 1..Len(lineLog) :
              i < k /\ kind[lineLog[i]] # "media" /\ kind[lineLog[k]] # "media"
                  => lineLog[i] <= lineLog[k]

(* A C5 the phone sees succeed was accepted by LINE, whatever crashed.       *)
AckMeansAccepted ==
    \A j \in Jobs : kind[j] = "waiting" /\ phone[j] = "acked" => TimesAccepted(j) >= 1

(* A job not yet copied when the last fault is over is answered, lines copied *)
(* twice or not, and with a body that never comes.                            *)
JobAnswered ==
    \A j \in Jobs :
        (/\ j \in ToSet(queue) \ (ToSet(sendIn) \cup cut)
         /\ bridgeUp /\ ~MayFault) ~> j \in doneDisk
=============================================================================

------------------------------ MODULE VideoSend ------------------------------
(***************************************************************************)
(* A video job: delegateVideo of bridge_worker.mjs appends a request to    *)
(* video_in.jsonl and reads video_out.jsonl for its result for at most 300 *)
(* seconds, blocking the send loop; video_worker.mjs reads all of          *)
(* video_in.jsonl over and over, sends what is not in its done file, and   *)
(* appends the result, then the id.  The bridge, the video worker and      *)
(* local_worker, which may hand the bridge a job again, restart apart from *)
(* each other.                                                             *)
(***************************************************************************)
EXTENDS Naturals, Sequences, FiniteSets

CONSTANTS
    Videos,            \* video jobs
    None,              \* no job
    MaxDispatches,     \* bound: times a job's line reaches the bridge
    MaxVideoRestarts,  \* bound: restarts of video_worker.mjs
    MaxBridgeRestarts  \* bound: restarts of bridge_worker.mjs

VARIABLES
    lines,     \* lines of each job the bridge was handed
    waitFor,   \* the job delegateVideo waits for
    answered,  \* jobs in the bridge's send_done.txt
    outcome,   \* what send_out.jsonl says of each job
    videoIn,   \* video_in.jsonl
    videoOut,  \* video_out.jsonl, as job and success
    videoUp,   \* does video_worker run?
    doneMem,   \* the ids it knows as done
    doneDisk,  \* its done file
    at,        \* how far it has read in this round
    cur,       \* the job it works on
    step,      \* how far that is: "send", "record" or "mark"
    curOk,     \* did LINE accept it, as far as the worker knows?
    accepted,  \* how often LINE accepted each video
    videoRestarts, bridgeRestarts

bridgeVars == <<lines, waitFor, answered, outcome>>
videoVars  == <<videoUp, doneMem, doneDisk, at, cur, step, curOk>>
vars == <<bridgeVars, videoIn, videoOut, videoVars, accepted, videoRestarts, bridgeRestarts>>

Result(j, ok) == [job |-> j, ok |-> ok]

-----------------------------------------------------------------------------
Init ==
    /\ lines = [j \in Videos |-> 0] /\ waitFor = None /\ answered = {}
    /\ outcome = [j \in Videos |-> "none"]
    /\ videoIn = <<>> /\ videoOut = {}
    /\ videoUp = TRUE /\ doneMem = {} /\ doneDisk = {} /\ at = 0
    /\ cur = None /\ step = "send" /\ curOk = FALSE
    /\ accepted = [j \in Videos |-> 0]
    /\ videoRestarts = 0 /\ bridgeRestarts = 0

\* The send loop reaches a line of the job that was not answered: delegateVideo
\* appends a request and starts to wait.
Delegate(j) ==
    /\ waitFor = None /\ j \notin answered /\ lines[j] < MaxDispatches
    /\ lines' = [lines EXCEPT ![j] = @ + 1]
    /\ videoIn' = Append(videoIn, j) /\ waitFor' = j
    /\ UNCHANGED <<answered, outcome, videoOut, videoVars, accepted, videoRestarts,
                   bridgeRestarts>>

\* What video_out.jsonl says of the job waited for.
ResultsHere == {r.ok : r \in {q \in videoOut : q.job = waitFor}}

\* A result is there ...
Answer ==
    /\ waitFor # None
    /\ \E ok \in ResultsHere :
         outcome' = [outcome EXCEPT ![waitFor] = IF ok THEN "ok" ELSE "failed"]
    /\ answered' = answered \cup {waitFor} /\ waitFor' = None
    /\ UNCHANGED <<lines, videoIn, videoOut, videoVars, accepted, videoRestarts, bridgeRestarts>>

\* ... or the 300 seconds are over.
GiveUp ==
    /\ waitFor # None
    /\ outcome' = [outcome EXCEPT ![waitFor] = "failed"]
    /\ answered' = answered \cup {waitFor} /\ waitFor' = None
    /\ UNCHANGED <<lines, videoIn, videoOut, videoVars, accepted, videoRestarts, bridgeRestarts>>

\* The bridge stops while it waits: the job has no result.
BridgeRestart ==
    /\ waitFor # None /\ bridgeRestarts < MaxBridgeRestarts
    /\ bridgeRestarts' = bridgeRestarts + 1 /\ waitFor' = None
    /\ UNCHANGED <<lines, answered, outcome, videoIn, videoOut, videoVars, accepted,
                   videoRestarts>>

-----------------------------------------------------------------------------
\* Mutant: requests are not compared with the ones that are done.
NeverDone(j) == TRUE

\* Is the request still to be done?
Todo(j) == j \notin doneMem

\* Mutant: it starts at the end of the file, like the bridge's send loop.
StartAtEnd == Len(videoIn)

\* Where video_worker starts, and starts over.
StartAt == 0

\* video_worker comes to the next line; at the end it starts over.
NextLine ==
    /\ videoUp /\ cur = None /\ videoIn # <<>>
    /\ IF at = Len(videoIn) THEN at' = StartAt /\ UNCHANGED <<cur, step>>
       ELSE /\ at' = at + 1
            /\ IF Todo(videoIn[at + 1]) THEN cur' = videoIn[at + 1] /\ step' = "send"
                                        ELSE UNCHANGED <<cur, step>>
    /\ UNCHANGED <<bridgeVars, videoIn, videoOut, videoUp, doneMem, doneDisk, curOk, accepted,
                   videoRestarts, bridgeRestarts>>

\* Upload and sendMessage: accepted, refused, or accepted with the answer lost.
SendVideo ==
    /\ cur # None /\ step = "send"
    /\ \E got \in BOOLEAN, told \in BOOLEAN :
         /\ curOk' = (got /\ told)
         /\ accepted' = [accepted EXCEPT ![cur] = IF got THEN @ + 1 ELSE @]
    /\ step' = "record"
    /\ UNCHANGED <<bridgeVars, videoIn, videoOut, videoUp, doneMem, doneDisk, at, cur,
                   videoRestarts, bridgeRestarts>>

\* The result is appended to video_out.jsonl ...
RecordVideo ==
    /\ cur # None /\ step = "record"
    /\ videoOut' = videoOut \cup {Result(cur, curOk)}
    /\ step' = "mark"
    /\ UNCHANGED <<bridgeVars, videoIn, videoUp, doneMem, doneDisk, at, cur, curOk, accepted,
                   videoRestarts, bridgeRestarts>>

\* ... and the id to the done file.
MarkVideo ==
    /\ cur # None /\ step = "mark"
    /\ doneDisk' = doneDisk \cup {cur} /\ doneMem' = doneMem \cup {cur}
    /\ cur' = None /\ step' = "send"
    /\ UNCHANGED <<bridgeVars, videoIn, videoOut, videoUp, at, curOk, accepted, videoRestarts,
                   bridgeRestarts>>

\* video_worker stops; it may stay away.
VideoStop ==
    /\ videoUp /\ videoRestarts < MaxVideoRestarts
    /\ videoRestarts' = videoRestarts + 1
    /\ videoUp' = FALSE /\ doneMem' = {} /\ at' = 0 /\ cur' = None /\ step' = "send"
    /\ curOk' = FALSE
    /\ UNCHANGED <<bridgeVars, videoIn, videoOut, doneDisk, accepted, bridgeRestarts>>

VideoStart ==
    /\ ~videoUp
    /\ videoUp' = TRUE /\ doneMem' = doneDisk /\ at' = StartAt
    /\ UNCHANGED <<bridgeVars, videoIn, videoOut, doneDisk, cur, step, curOk, accepted,
                   videoRestarts, bridgeRestarts>>

-----------------------------------------------------------------------------
Bridge == Answer \/ GiveUp
Worker == NextLine \/ SendVideo \/ RecordVideo \/ MarkVideo

Next ==
    \/ \E j \in Videos : Delegate(j)
    \/ Bridge \/ BridgeRestart
    \/ Worker \/ VideoStop \/ VideoStart

Spec == Init /\ [][Next]_vars

\* Both loops run while their process does; nobody promises that a stopped
\* video_worker comes back.
FairSpec == Spec /\ WF_vars(Bridge) /\ WF_vars(Worker)

-----------------------------------------------------------------------------
(* Every variable has its type; an id known as done is in the done file.     *)
TypeOK ==
    /\ lines \in [Videos -> 0..MaxDispatches] /\ waitFor \in Videos \cup {None}
    /\ answered \subseteq Videos /\ outcome \in [Videos -> {"none", "ok", "failed"}]
    /\ videoIn \in Seq(Videos) /\ videoOut \subseteq [job : Videos, ok : BOOLEAN]
    /\ videoUp \in BOOLEAN /\ doneMem \subseteq doneDisk /\ doneDisk \subseteq Videos
    /\ at \in 0..Len(videoIn) /\ cur \in Videos \cup {None}
    /\ step \in {"send", "record", "mark"} /\ curOk \in BOOLEAN
    /\ accepted \in [Videos -> Nat] /\ videoRestarts \in Nat /\ bridgeRestarts \in Nat

\* What LINE accepted of a video after the first time.
Copies == UNION {{j} \X (2..accepted[j]) : j \in Videos}

(* A restart of the video worker costs at most one video a second copy: the *)
(* one it was working on.  Lines handed over again cost nothing.            *)
ExtraCopies == Cardinality(Copies) <= videoRestarts

(* A video handed over is tried in the end, even when the bridge gave up on  *)
(* it or restarted, or the video worker did: it runs again is all it takes.  *)
RequestServed ==
    \A j \in Videos :
        (/\ \E i \in 1..Len(videoIn) : videoIn[i] = j
         /\ videoUp /\ videoRestarts = MaxVideoRestarts) ~> j \in doneDisk

=============================================================================

----------------------------- MODULE HiddenState -----------------------------
(***************************************************************************)
(* Who is hidden: hidden_mids.json, which legy_proxy.py serves.            *)
(* bridge_worker.mjs writes it from three places: recvLoop rebuilds it     *)
(* with every dump of the contacts, sendLoop changes one entry after it    *)
(* hid or showed somebody for the phone, and syncContactState rebuilds it  *)
(* at the start from contacts.json, which may be hours old, since a fresh  *)
(* enough dump is not repeated.  The loops meet at every await; reading,   *)
(* changing and renaming the file is one step.                             *)
(***************************************************************************)
EXTENDS Naturals, FiniteSets

CONSTANTS
    Mids,       \* contacts
    MaxOps, MaxJobs, MaxFailures, MaxRestarts   \* bounds

HiddenAssumption ==
    MaxOps \in Nat /\ MaxJobs \in Nat /\ MaxFailures \in Nat /\ MaxRestarts \in Nat

VARIABLES
    hidden,     \* who is hidden at LINE
    pending,    \* are there contact operations recvLoop has not fetched?
    dump,       \* the dump: "idle", "asked" or "answered", what LINE said, for a round?
    dumped,     \* who is hidden by contacts.json
    file,       \* hidden_mids.json
    job,        \* the hiding that waits for LINE: whom, and whether to hide
    met,        \* was a contact hidden through the bridge during a dump?
    old,        \* was the file rebuilt from an old dump?
    ops, jobs, failures, restarts   \* counters

counters == <<ops, jobs, failures, restarts>>
vars == <<hidden, pending, dump, dumped, file, job, met, old, counters>>

NoDump == [phase |-> "idle", seen |-> {}, round |-> FALSE]
NoJob  == [who |-> {}, hide |-> FALSE]

Init ==
    /\ hidden = {} /\ pending = FALSE /\ dump = NoDump /\ dumped = {} /\ file = {}
    /\ job = NoJob /\ met = FALSE /\ old = FALSE
    /\ ops = 0 /\ jobs = 0 /\ failures = 0 /\ restarts = 0

Toggled(set, m) == IF m \in set THEN set \ {m} ELSE set \cup {m}

\* Another device hides or shows somebody.
OtherDevice(m) ==
    /\ ops < MaxOps /\ ops' = ops + 1
    /\ hidden' = Toggled(hidden, m) /\ pending' = TRUE
    /\ UNCHANGED <<dump, dumped, file, job, met, old, jobs, failures, restarts>>

\* recvLoop has an operation on a contact (4, 5 or 49), or on a group: it dumps.
Round ==
    /\ pending /\ pending' = FALSE
    /\ dump.phase = "idle" /\ dump' = [NoDump EXCEPT !.phase = "asked", !.round = TRUE]
    /\ met' = (met \/ job # NoJob)
    /\ UNCHANGED <<hidden, dumped, file, job, old, counters>>

\* LINE answers; contacts.json and then the hidden ones are written; or it fails.
DumpAnswered ==
    /\ dump.phase = "asked"
    /\ dump' = [dump EXCEPT !.phase = "answered", !.seen = hidden]
    /\ UNCHANGED <<hidden, pending, dumped, file, job, met, old, counters>>
DumpWritten ==
    /\ dump.phase = "answered" /\ dump' = NoDump
    /\ dumped' = dump.seen /\ file' = dump.seen
    /\ UNCHANGED <<hidden, pending, job, met, old, counters>>
DumpFails ==
    /\ dump.phase # "idle" /\ failures < MaxFailures /\ failures' = failures + 1
    /\ dump' = NoDump
    /\ file' = IF dump.round THEN file ELSE dumped
    /\ UNCHANGED <<hidden, pending, dumped, job, met, old, ops, jobs, restarts>>

\* contact_hide and contact_unhide of the phone reach LINE, which may tell the bridge of
\* it like of any other operation ...
HideAtLine(m) ==
    /\ job = NoJob /\ jobs < MaxJobs /\ jobs' = jobs + 1
    /\ dump.phase = "idle" \/ dump.round   \* not before the loops start
    /\ job' = [who |-> {m}, hide |-> m \notin hidden]
    /\ hidden' = Toggled(hidden, m)
    /\ \E echo \in BOOLEAN : pending' = (pending \/ echo)
    /\ met' = (met \/ dump # NoDump)
    /\ UNCHANGED <<dump, dumped, file, old, ops, failures, restarts>>

Updated == IF job.hide THEN file \cup job.who ELSE file \ job.who

\* ... and its answer changes the file, or is lost and nothing follows what LINE did.
HideReturns ==
    /\ job # NoJob /\ job' = NoJob
    /\ file' = Updated
    /\ UNCHANGED <<hidden, pending, dump, dumped, met, old, counters>>

AnswerLost ==
    /\ job # NoJob /\ job' = NoJob
    /\ failures < MaxFailures /\ failures' = failures + 1
    /\ UNCHANGED <<hidden, pending, dump, dumped, file, met, old, ops, jobs, restarts>>

\* A start: a dump, unless contacts.json is fresh enough; then syncContactState rebuilds
\* the file from it.  A round that was under way is fetched again.
Restart ==
    /\ restarts < MaxRestarts /\ restarts' = restarts + 1
    /\ pending' = (pending \/ dump.round)
    /\ job' = NoJob
    /\ \/ dump' = [NoDump EXCEPT !.phase = "asked"] /\ UNCHANGED <<file, old>>
       \/ dump' = NoDump /\ file' = dumped /\ old' = (old \/ dumped # hidden)
    /\ UNCHANGED <<hidden, dumped, met, ops, jobs, failures>>

Next ==
    \/ \E m \in Mids : OtherDevice(m) \/ HideAtLine(m)
    \/ Round \/ DumpAnswered \/ DumpWritten \/ DumpFails \/ HideReturns
    \/ AnswerLost \/ Restart

Spec == Init /\ [][Next]_vars

-----------------------------------------------------------------------------
\* When the bridge has nothing left to do, the file lists who is hidden at LINE: no
\* operation and no job is lost between the three writers.  The exceptions: a dump that
\* was asked for before a job undoes it, a dump failed, the answer to a job LINE performed
\* was lost, the bridge started with an old dump.
FileIsCurrent ==
    dump = NoDump /\ job = NoJob /\ ~pending =>
        file = hidden \/ met \/ old \/ failures > 0
=============================================================================

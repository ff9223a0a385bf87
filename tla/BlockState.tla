------------------------------ MODULE BlockState ------------------------------
(***************************************************************************)
(* Who is blocked: blocked_mids.json, which legy_proxy.py serves to the    *)
(* phone, and the block events the phone gets.  bridge_worker.mjs rewrites *)
(* the file in refreshBlockState, which reads it, asks LINE for the status *)
(* of everybody concerned, and writes it.  recvLoop calls it for the block *)
(* operations of a round, sendLoop after it blocked or unblocked somebody  *)
(* for the phone; the two run side by side and meet at every await.        *)
(***************************************************************************)
EXTENDS Naturals, Sequences, FiniteSets, SequencesExt

CONSTANTS
    Mids,         \* contacts
    MaxOps,       \* bound: block operations on the account
    MaxJobs,      \* bound: blocks and unblocks sent by the phone
    MaxFailures,  \* bound: calls to LINE that fail, or whose answer is lost
    MaxRestarts   \* bound: restarts of the bridge

BlockAssumption ==
    MaxOps \in Nat /\ MaxJobs \in Nat /\ MaxFailures \in Nat /\ MaxRestarts \in Nat

\* How LINE sees a contact.  "gone": deleted and blocked, which no block list
\* shows.
ContactStates == {"free", "blocked", "gone"}

VARIABLES
    status,   \* at LINE
    log,      \* block (6) and unblock (7) operations of the account
    rev,      \* sync.revision
    savedRev, \* the revision on disk
    recv,     \* the refresh of recvLoop
    send,     \* the refresh of sendLoop
    starting, \* is syncContactState under way, before the loops start?
    file,     \* blocked_mids.json
    outbox,   \* revisions of the operations passed on to the phone
    met,      \* were both loops ever at it at once?  (for the properties only)
    jobs, failures, restarts

countVars == <<jobs, failures, restarts>>
vars == <<status, log, rev, savedRev, recv, send, starting, file, outbox, met, countVars>>

\* A refresh: the candidates, those whose outcome is expected, what the file
\* said at its start, what LINE answered, the operations it is for.
Idle == [phase |-> "idle", cand |-> {}, block |-> {}, unblock |-> {}, prev |-> {},
         seen |-> [m \in Mids |-> "unknown"], result |-> {}, ops |-> <<>>]

Refresh == [phase : {"idle", "called", "asked", "answered", "forward", "save"},
            cand : SUBSET Mids, block : SUBSET Mids, unblock : SUBSET Mids,
            prev : SUBSET Mids, seen : [Mids -> ContactStates \cup {"unknown"}],
            result : SUBSET Mids, ops : Seq(Nat)]

Operation(n, m) == [op |-> n, mid |-> m]

\* refreshBlockState, before its first await: the file is read.
Started(cand, block, unblock, ops) ==
    [Idle EXCEPT !.phase = "asked", !.cand = cand, !.block = block, !.unblock = unblock,
                 !.prev = file, !.ops = ops]

\* Mutant: only the candidates are asked for.
TargetsCandidates(r) == r.cand

\* Everybody the refresh asks LINE about.
Targets(r) == r.cand \cup r.prev

\* Mutant: deleted contacts count as blocked.
OutcomeGone(r) ==
    {m \in Targets(r) : \/ r.seen[m] \in {"blocked", "gone"}
                        \/ r.seen[m] = "unknown" /\ m \notin r.unblock}

\* What it writes: whom LINE says is blocked and, where LINE did not say, whom
\* an operation blocked, the file had or the list of blocked contacts named.
Outcome(r) ==
    {m \in Targets(r) : \/ r.seen[m] = "blocked"
                        \/ r.seen[m] = "unknown" /\ m \notin r.unblock}

\* The mids whose last operation among ops is n.
LastIs(n, ops) ==
    {m \in Mids : \E i \in 1..Len(ops) :
        /\ log[ops[i]] = Operation(n, m)
        /\ \A k \in (i + 1)..Len(ops) : log[ops[k]].mid # m}

\* A block is passed on only of somebody the refresh found blocked.
Passes(r, k) == log[k].op = 6 => log[k].mid \in r.result

\* The outbox with the operations that pass and that it does not have yet: an
\* event's id is made of its revision.
Forwarded(r) ==
    LET box[n \in 0..Len(r.ops)] ==
            IF n = 0 THEN outbox
            ELSE IF Passes(r, r.ops[n]) /\ ~Contains(box[n - 1], r.ops[n])
                 THEN Append(box[n - 1], r.ops[n])
                 ELSE box[n - 1]
    IN box[Len(r.ops)]

-----------------------------------------------------------------------------
Init ==
    /\ status = [m \in Mids |-> "free"] /\ log = <<>>
    /\ rev = 0 /\ savedRev = 0
    /\ recv = Idle /\ send = Idle /\ starting = FALSE
    /\ file = {} /\ outbox = <<>> /\ met = FALSE
    /\ jobs = 0 /\ failures = 0 /\ restarts = 0

\* Another device blocks or unblocks somebody.
OtherDevice(m) ==
    /\ Len(log) < MaxOps
    /\ \/ /\ status[m] = "free"
          /\ \E s \in {"blocked", "gone"} : status' = [status EXCEPT ![m] = s]
          /\ log' = Append(log, Operation(6, m))
       \/ /\ status[m] # "free"
          /\ status' = [status EXCEPT ![m] = "free"]
          /\ log' = Append(log, Operation(7, m))
    /\ UNCHANGED <<rev, savedRev, recv, send, starting, file, outbox, met, countVars>>

\* recvLoop: a round with block operations; their refresh starts.
SyncRound ==
    /\ recv.phase = "idle" /\ ~starting
    /\ \E n \in (rev + 1)..Len(log) :
         LET ops == [i \in 1..(n - rev) |-> rev + i] IN
         /\ recv' = Started({log[k].mid : k \in ToSet(ops)}, LastIs(6, ops),
                            LastIs(7, ops), ops)
         /\ rev' = n
    /\ met' = (met \/ send.phase # "idle")
    /\ UNCHANGED <<status, log, savedRev, send, starting, file, outbox, countVars>>

\* sendLoop: contact_block or contact_unblock reaches LINE, which may tell the
\* bridge of it like of any other operation ...
CallLine(m) ==
    /\ send.phase = "idle" /\ ~starting /\ jobs < MaxJobs
    /\ \E n \in {6, 7}, echo \in BOOLEAN :
         /\ status' = [status EXCEPT ![m] = IF n = 6 THEN "blocked" ELSE "free"]
         /\ log' = IF echo /\ Len(log) < MaxOps THEN Append(log, Operation(n, m)) ELSE log
         /\ send' = [Idle EXCEPT !.phase = "called", !.cand = {m},
                                 !.block = IF n = 6 THEN {m} ELSE {},
                                 !.unblock = IF n = 7 THEN {m} ELSE {}]
    /\ jobs' = jobs + 1
    /\ met' = (met \/ recv.phase # "idle")
    /\ UNCHANGED <<rev, savedRev, recv, starting, file, outbox, failures, restarts>>

\* ... and its answer starts a refresh,
CallReturns ==
    /\ send.phase = "called"
    /\ send' = Started(send.cand, send.block, send.unblock, <<>>)
    /\ UNCHANGED <<status, log, rev, savedRev, recv, starting, file, outbox, met, countVars>>

\* ... or is lost: no refresh follows what LINE did.
AnswerLost ==
    /\ send.phase = "called" /\ send' = Idle
    /\ failures < MaxFailures /\ failures' = failures + 1
    /\ UNCHANGED <<status, log, rev, savedRev, recv, starting, file, outbox, met, jobs, restarts>>

\* getContacts answers with the status of now, or with an error.
Answered(r, failed) ==
    [r EXCEPT !.phase = "answered",
              !.seen = [m \in Mids |-> IF m \in Targets(r) /\ ~failed THEN status[m]
                                                                     ELSE "unknown"]]

GetContacts ==
    /\ \E failed \in BOOLEAN :
         /\ failed => failures < MaxFailures
         /\ failures' = IF failed THEN failures + 1 ELSE failures
         /\ \/ /\ recv.phase = "asked"
               /\ recv' = Answered(recv, failed) /\ UNCHANGED send
            \/ /\ send.phase = "asked"
               /\ send' = Answered(send, failed) /\ UNCHANGED recv
    /\ UNCHANGED <<status, log, rev, savedRev, starting, file, outbox, met, jobs, restarts>>

\* The answer is there: the file is written, with what it was at the start in
\* mind.
WriteRecv ==
    /\ recv.phase = "answered"
    /\ file' = Outcome(recv)
    /\ recv' = IF starting THEN Idle
               ELSE [recv EXCEPT !.phase = "forward", !.result = Outcome(recv)]
    /\ starting' = FALSE
    /\ UNCHANGED <<status, log, rev, savedRev, send, outbox, met, countVars>>

WriteSend ==
    /\ send.phase = "answered"
    /\ file' = Outcome(send)
    /\ send' = Idle
    /\ UNCHANGED <<status, log, rev, savedRev, recv, starting, outbox, met, countVars>>

\* The events of the round are passed on; the outbox drops what it has.
Forward ==
    /\ recv.phase = "forward"
    /\ outbox' = Forwarded(recv)
    /\ recv' = [recv EXCEPT !.phase = "save"]
    /\ UNCHANGED <<status, log, rev, savedRev, send, starting, file, met, countVars>>

SaveRev ==
    /\ recv.phase = "save"
    /\ savedRev' = rev /\ recv' = Idle
    /\ UNCHANGED <<status, log, rev, send, starting, file, outbox, met, countVars>>

\* A bridge that starts refreshes first, with the blocked contacts LINE lists.
Restart ==
    /\ restarts < MaxRestarts
    /\ restarts' = restarts + 1
    /\ rev' = savedRev
    /\ recv' = Started({m \in Mids : status[m] = "blocked"}, {}, {}, <<>>)
    /\ send' = Idle /\ starting' = TRUE
    /\ UNCHANGED <<status, log, savedRev, file, outbox, met, jobs, failures>>

-----------------------------------------------------------------------------
Next ==
    \/ \E m \in Mids : OtherDevice(m) \/ CallLine(m)
    \/ SyncRound \/ CallReturns \/ AnswerLost \/ GetContacts \/ WriteRecv \/ WriteSend
    \/ Forward \/ SaveRev \/ Restart

Spec == Init /\ [][Next]_vars

-----------------------------------------------------------------------------
(* Every variable has its type; no operation is passed on twice.             *)
TypeOK ==
    /\ status \in [Mids -> ContactStates]
    /\ log \in Seq([op : {6, 7}, mid : Mids])
    /\ rev \in 0..Len(log) /\ savedRev \in 0..rev
    /\ recv \in Refresh /\ send \in Refresh /\ starting \in BOOLEAN
    /\ file \subseteq Mids /\ met \in BOOLEAN
    /\ outbox \in Seq(1..Len(log)) /\ IsInjective(outbox)
    /\ jobs \in Nat /\ failures \in Nat /\ restarts \in Nat

Settled == recv.phase = "idle" /\ send.phase = "idle" /\ ~starting /\ rev = Len(log)

Blocked == {m \in Mids : status[m] = "blocked"}

\* Whom the phone shows as blocked: its last operation passed on is a block.
PhoneBlocked ==
    {m \in Mids : \E i \in 1..Len(outbox) :
        /\ log[outbox[i]] = Operation(6, m)
        /\ \A k \in (i + 1)..Len(outbox) : log[outbox[k]].mid # m}

(* blocked_mids.json lists who is blocked whenever the bridge has nothing    *)
(* left to do, if the two loops never met and no call to LINE failed: when   *)
(* both refresh at once, the one that read the file first may undo the       *)
(* other, and when the answer to a block or an unblock is lost that LINE     *)
(* performed, the file stays as it was.                                      *)
FileIsCurrent == Settled /\ ~met /\ failures = 0 => file = Blocked

(* When nothing is left to do the phone shows as blocked whom LINE lists as   *)
(* blocked, after operations of other devices that undo each other, deleted  *)
(* contacts and restarts that fetch operations again.                        *)
PhoneAgrees == Settled /\ jobs = 0 /\ failures = 0 => PhoneBlocked = Blocked
=============================================================================

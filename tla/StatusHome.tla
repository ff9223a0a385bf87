----------------------------- MODULE StatusHome ------------------------------
(***************************************************************************)
(* The phone sets its status line: sendMessageToMyHome, handled by         *)
(* legacy_status_home.py.  Under one lock it looks up whether it already   *)
(* answered this request, updates the profile at LINE, merges the status   *)
(* into profile.json, puts it in front of the history and remembers its    *)
(* answer for 900 s.  bridge_worker.mjs rewrites profile.json from what    *)
(* LINE has, without that lock.                                            *)
(*                                                                         *)
(* A request is told apart by account, number and text; here by its text.  *)
(***************************************************************************)
EXTENDS Naturals, Sequences, FiniteSets, FiniteSetsExt

CONSTANTS
    Statuses,    \* what the phone sets
    Requests,    \* connections that can ask at a time
    None,        \* no status, no request, nothing fetched
    Life,        \* 900 s, the life of a remembered answer
    MaxKept,     \* 256, the answers remembered at most
    MaxHistory,  \* 20, the entries of the history
    MaxNow, MaxTries, MaxDumps, MaxFaults, MaxRestarts   \* bounds

StatusHomeAssumption ==
    /\ None \notin Statuses \cup Requests
    /\ Life \in Nat \ {0} /\ MaxKept \in Nat \ {0} /\ MaxHistory \in Nat \ {0}

VARIABLES
    now,        \* the clock
    request,    \* what each connection is at
    lock,       \* who holds _lock
    completed,  \* _completed: status and when its request began
    line,       \* the profile at LINE: status, and the number of its picture
    profile,    \* profile.json
    history,    \* status_history.json, newest first
    fetched,    \* what dumpProfile got from LINE and has not written yet
    answered,   \* answers of success since the start that MaxKept did not drop
    sent,       \* how often LINE performed the update of each status
    told,       \* statuses the phone was told are set
    lost,       \* statuses set at LINE since the last update of a request, by another
                \* device, or by that update when it was cut short
    crossed,    \* did profile.json change, or a dump fetch, during a merge?
    tries, dumps, faults, restarts   \* counters

files == <<profile, history>>
memory == <<lock, completed, answered>>
counters == <<tries, dumps, faults, restarts>>
vars == <<now, request, memory, line, files, fetched, sent, told, lost, crossed, counters>>

Idle == [pc |-> "idle", status |-> None, at |-> 0, read |-> None]
At(r, pc) == request[r].pc = pc
Status(r) == request[r].status
Goes(r, pc) == request' = [request EXCEPT ![r].pc = pc]

Init ==
    /\ now = 0
    /\ request = [r \in Requests |-> Idle] /\ lock = None
    /\ completed = {} /\ answered = {}
    /\ line = [status |-> None, picture |-> 0] /\ profile = line
    /\ history = <<>> /\ fetched = None
    /\ sent = [s \in Statuses |-> 0] /\ told = {} /\ lost = {} /\ crossed = FALSE
    /\ tries = [s \in Statuses |-> 0] /\ dumps = 0 /\ faults = 0 /\ restarts = 0

Tick ==
    /\ now < MaxNow /\ now' = now + 1
    /\ UNCHANGED <<request, memory, line, files, fetched, sent, told, lost, crossed, counters>>

-----------------------------------------------------------------------------
(* The request *)

Ask(r, s) ==
    /\ At(r, "idle") /\ tries[s] < MaxTries
    /\ tries' = [tries EXCEPT ![s] = @ + 1]
    /\ request' = [request EXCEPT ![r] = [Idle EXCEPT !.pc = "waiting", !.status = s]]
    /\ UNCHANGED <<now, memory, line, files, fetched, sent, told, lost, crossed,
                   dumps, faults, restarts>>

Alive(c) == now < c.at + Life
Remembered(s) == \E c \in completed : c.status = s /\ Alive(c)

\* The request has the lock: what is older than 900 s is forgotten, and a request
\* already answered gets the same answer.
Enter(r) ==
    /\ At(r, "waiting") /\ lock = None
    /\ completed' = {c \in completed : Alive(c)}
    /\ IF Remembered(Status(r))
       THEN /\ request' = [request EXCEPT ![r] = Idle]
            /\ told' = told \cup {Status(r)}
            /\ UNCHANGED lock
       ELSE /\ request' = [request EXCEPT ![r].pc = "update", ![r].at = now]
            /\ lock' = r
            /\ UNCHANGED told
    /\ UNCHANGED <<now, answered, line, files, fetched, sent, lost, crossed, counters>>

\* updateProfileAttributes.
Performed(s) ==
    /\ line' = [line EXCEPT !.status = s]
    /\ sent' = [sent EXCEPT ![s] = @ + 1]
Update(r) ==
    /\ At(r, "update") /\ Performed(Status(r)) /\ lost' = {} /\ Goes(r, "read")
    /\ UNCHANGED <<now, memory, files, fetched, told, crossed, counters>>

\* Whatever goes wrong, the phone is told the update failed and nothing is undone.
Fails(r) ==
    /\ faults < MaxFaults /\ faults' = faults + 1
    /\ request' = [request EXCEPT ![r] = Idle] /\ lock' = None
    /\ UNCHANGED <<now, completed, answered, files, fetched, told, crossed, tries, dumps, restarts>>

\* LINE refuses the update, or performs it and its answer is lost.
UpdateFails(r) ==
    /\ At(r, "update") /\ Fails(r)
    /\ \/ UNCHANGED <<line, sent, lost>>
       \/ Performed(Status(r)) /\ lost' = lost \cup {Status(r)}

\* The disk fails once LINE has the status.
DiskFails(r) ==
    /\ request[r].pc \in {"read", "write", "record"} /\ Fails(r)
    /\ lost' = lost \cup {Status(r)}
    /\ UNCHANGED <<line, sent>>

\* profile.json is read, and replaced with the status merged in.
ReadProfile(r) ==
    /\ At(r, "read")
    /\ request' = [request EXCEPT ![r].pc = "write", ![r].read = profile]
    /\ UNCHANGED <<now, memory, line, files, fetched, sent, told, lost, crossed, counters>>
WriteProfile(r) ==
    /\ At(r, "write") /\ Goes(r, "record")
    /\ profile' = [request[r].read EXCEPT !.status = Status(r)]
    /\ crossed' = (crossed \/ fetched # None)
    /\ UNCHANGED <<now, memory, line, history, fetched, sent, told, lost, counters>>

\* _save_history, read and replaced under the lock.
AtTheEnd(r) == Append(history, Status(r))   \* Mutant: the newest entry comes last
Longer(r) == <<Status(r)>> \o history
SaveHistory(r) ==
    /\ At(r, "record") /\ Goes(r, "answer")
    /\ history' = SubSeq(Longer(r), 1, Min({Len(Longer(r)), MaxHistory}))
    /\ UNCHANGED <<now, memory, line, profile, fetched, sent, told, lost, crossed, counters>>

\* The answer is remembered from the time its request began; the oldest goes when there
\* are too many.
Kept(r) == [status |-> Status(r), at |-> request[r].at]
Answer(r) ==
    LET all == completed \cup {Kept(r)} IN
    /\ At(r, "answer")
    /\ \E dropped \in {{}} \cup {{c} : c \in all} :
          /\ (dropped = {}) = (Cardinality(all) <= MaxKept)
          /\ \A c \in dropped : \A d \in all : c.at <= d.at
          /\ completed' = all \ dropped
          /\ answered' = (answered \cup {Kept(r)}) \ dropped
    /\ request' = [request EXCEPT ![r] = Idle] /\ lock' = None
    /\ told' = told \cup {Status(r)}
    /\ UNCHANGED <<now, line, files, fetched, sent, lost, crossed, counters>>

-----------------------------------------------------------------------------
(* Around it *)

Merging == \E r \in Requests : At(r, "write")

\* Another device changes the picture or the status, which the history never has;
\* dumpProfile asks LINE and replaces profile.json.
NewPicture ==
    /\ dumps < MaxDumps /\ line.picture < MaxDumps
    /\ line' = [line EXCEPT !.picture = @ + 1]
    /\ UNCHANGED <<now, request, memory, files, fetched, sent, told, lost, crossed, counters>>
SetElsewhere(s) ==
    /\ faults < MaxFaults /\ faults' = faults + 1
    /\ line' = [line EXCEPT !.status = s] /\ lost' = lost \cup {s}
    /\ UNCHANGED <<now, request, memory, files, fetched, sent, told, crossed, tries, dumps, restarts>>
FetchProfile ==
    /\ fetched = None /\ dumps < MaxDumps /\ dumps' = dumps + 1
    /\ fetched' = line
    /\ UNCHANGED <<now, request, memory, line, files, sent, told, lost, crossed, tries, faults, restarts>>
DumpProfile ==
    /\ fetched # None
    /\ profile' = fetched /\ fetched' = None
    /\ crossed' = (crossed \/ Merging)
    /\ UNCHANGED <<now, request, memory, line, history, sent, told, lost, counters>>

\* The proxy starts anew: it forgets its answers, and the requests under way have none.
Restart ==
    /\ restarts < MaxRestarts /\ restarts' = restarts + 1
    /\ request' = [r \in Requests |-> Idle] /\ lock' = None
    /\ completed' = {} /\ answered' = {}
    /\ lost' = lost \cup {Status(r) : r \in {q \in Requests : lock = q /\ ~At(q, "update")}}
    /\ UNCHANGED <<now, line, files, fetched, sent, told, crossed, tries, dumps, faults>>

Next ==
    \/ Tick \/ NewPicture \/ FetchProfile \/ DumpProfile \/ Restart
    \/ \E s \in Statuses : SetElsewhere(s)
    \/ \E r \in Requests :
          \/ Enter(r) \/ Update(r) \/ UpdateFails(r) \/ DiskFails(r)
          \/ ReadProfile(r) \/ WriteProfile(r) \/ SaveHistory(r) \/ Answer(r)
          \/ \E s \in Statuses : Ask(r, s)

Spec == Init /\ [][Next]_vars

-----------------------------------------------------------------------------
\* A status the phone was told is set was set at LINE.  With no request under way the
\* newest entry of the history is the status LINE has, unless another device set one
\* since, or an update was cut short after LINE performed it; the next update that is
\* answered mends both.  And so is the status of profile.json, unless a dump and a merge
\* crossed.
AnswerIsTrue ==
    /\ \A s \in told : sent[s] > 0
    /\ lock = None /\ lost = {} =>
          /\ line.status = (IF history = <<>> THEN None ELSE Head(history))
          /\ profile.status = line.status \/ crossed

\* The update of a status the proxy answered with success is not performed again while
\* the answer lives.  It is forgotten by a restart, and when 256 newer ones push it out.
RetryNotRepeatedStep ==
    \A s \in Statuses : sent'[s] # sent[s] =>
        ~ \E a \in answered : a.status = s /\ now < a.at + Life
RetryNotRepeated == [][RetryNotRepeatedStep]_vars
=============================================================================

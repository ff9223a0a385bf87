---------------------------- MODULE ReadReceipts ----------------------------
(***************************************************************************)
(* How legy_proxy.py turns the read positions of LINE into the receipts    *)
(* (op 28) of LINE 3.7.1, for one chat: the bookkeeping is kept per chat.   *)
(*                                                                         *)
(* LINE says "r has read up to this server message"; LINE 3.7.1 wants the  *)
(* ids it knows.  A message the phone sends has a local id, the time its   *)
(* handler started, which LINE never sees; a message the user sends from   *)
(* another device keeps its server id and reaches the phone late, behind a *)
(* grace period.  Times and server ids are both drawn from one clock.      *)
(***************************************************************************)
EXTENDS Naturals, Sequences, FiniteSets, SequencesExt

CONSTANTS
    Msgs,        \* names of messages the user sends
    Readers,     \* the others: all of them in a group, one of them in a direct chat
    PendingMax,  \* ids kept per chat (200 in the code)
    MaxClock,    \* bound: moments
    MaxRestarts  \* bound: restarts of the proxy

ASSUME ReadAssumption ==
    /\ PendingMax \in Nat \ {0} /\ MaxClock \in Nat /\ MaxRestarts \in Nat

VARIABLES
    group,     \* is the chat a group or room?  It stays what it is
    members,   \* the other members of the chat
    clock,     \* the present moment
    kind,      \* how each message was sent: "none" while it was not
    born,      \* when its handler started, for local ones: the local id
    pos,       \* when LINE accepted it: its server id (0: not accepted)
    waiting,   \* C5 messages whose handler waits for the delivery result
    held,      \* messages of other devices the bridge still holds back
    readTo,    \* what each reader has really read
    outbox,    \* entries of outbox.json: self-sent messages and receipts
    next,      \* how many of them the proxy has turned into ops
    pending,   \* _pending_local_msg_ids: ids no direct receipt took yet
    seen,      \* _group_read_ids: readers already reported, per id
    mark,      \* _group_read_watermarks: last position used, per reader
    lastPos,   \* _last_read_positions: last position seen, direct chats
    notified,  \* how often op 28 told the phone that r has read m
    restarts,
    \* What the properties speak of, and the code does not keep:
    tracked,   \* messages noted since the last restart and not expired
    newest,    \* newest position drained since then, per reader
    heardAt    \* creation time of the last receipt drained, per reader

chatVars   == <<group, members>>
timeVars   == <<chatVars, clock, kind, born, pos, waiting, held, readTo>>
bookVars   == <<pending, seen, mark, lastPos, tracked>>
heardVars  == <<newest, heardAt>>
vars == <<timeVars, outbox, next, bookVars, notified, heardVars, restarts>>

SentEntry(m) == [kind |-> "sent", msg |-> m]
ReadEntry(r, p, t) == [kind |-> "read", reader |-> r, position |-> p, created |-> t]

\* outbox_key: one entry per reader and position.
SameReceipt(e, r, p) == e.kind = "read" /\ e.reader = r /\ e.position = p

\* note_local_msg_id: a new id goes last.
Noted(m) == IF m \in ToSet(pending) THEN pending ELSE Append(pending, m)

\* Only the last PendingMax ids stay.
Expired(p) == IF Len(p) > PendingMax THEN {p[i] : i \in 1..(Len(p) - PendingMax)} ELSE {}

Kept(p) == IF Len(p) > PendingMax THEN SubSeq(p, Len(p) - PendingMax + 1, Len(p)) ELSE p

\* What noting m does to the books; caughtUp: does a catch-up take it back?
Note(m, caughtUp) ==
    LET p == Noted(m) IN
    /\ pending' = IF caughtUp THEN RemoveFirst(Kept(p), m) ELSE Kept(p)
    /\ seen' = [x \in Msgs |-> IF x \in Expired(p) THEN {} ELSE seen[x]]
    /\ tracked' = (tracked \cup {m}) \ Expired(p)
    /\ UNCHANGED <<mark, lastPos>>

\* Mutant: the catch-up compares with the message before.
CatchUpBefore(m) == {r \in members : ~group /\ lastPos[r] > pos[m]}

\* take_read_catch_up: the reader of a direct chat whose last position is at
\* or past this server id.
CatchUp(m) == {r \in members : ~group /\ lastPos[r] >= pos[m]}

\* Mutant: one watermark for the chat instead of one per reader.
StaleForChat(r, p) == \E q \in members : mark[q] > 0 /\ p <= mark[q]

\* A group position that is not past the last one used.
Stale(r, p) == mark[r] > 0 /\ p <= mark[r]

\* Mutant: a delayed receipt also takes messages sent after it.
TakenUnfiltered(e) ==
    IF ~group THEN ToSet(pending)
    ELSE IF Stale(e.reader, e.position) THEN {}
    ELSE {m \in ToSet(pending) : e.reader \notin seen[m]}

\* take_local_read_ids: a direct receipt takes every pending id; a group
\* receipt the ids its reader has not been reported for, but no local id newer
\* than the receipt.
Taken(e) ==
    IF ~group THEN ToSet(pending)
    ELSE IF Stale(e.reader, e.position) THEN {}
    ELSE {m \in ToSet(pending) : /\ e.reader \notin seen[m]
                                 /\ kind[m] = "other" \/ born[m] <= e.created}

\* The ids this receipt reports are remembered for its reader.
SeenAfter(ids, r) == [m \in Msgs |-> IF m \in ids THEN seen[m] \cup {r} ELSE seen[m]]

-----------------------------------------------------------------------------
Init ==
    /\ group \in BOOLEAN
    /\ IF group THEN members = Readers ELSE \E r \in Readers : members = {r}
    /\ clock = 0
    /\ kind = [m \in Msgs |-> "none"]
    /\ born = [m \in Msgs |-> 0] /\ pos = [m \in Msgs |-> 0]
    /\ waiting = {} /\ held = {}
    /\ readTo = [r \in Readers |-> 0]
    /\ outbox = <<>> /\ next = 0
    /\ pending = <<>> /\ seen = [m \in Msgs |-> {}]
    /\ mark = [r \in Readers |-> 0] /\ lastPos = [r \in Readers |-> 0]
    /\ notified = [m \in Msgs |-> [r \in Readers |-> 0]]
    /\ restarts = 0
    /\ tracked = {}
    /\ newest = [r \in Readers |-> 0] /\ heardAt = [r \in Readers |-> 0]

Tick == clock < MaxClock /\ clock' = clock + 1

\* C5 over HTTP: the id is taken now and noted when LINE has accepted.
StartC5(m) ==
    /\ kind[m] = "none" /\ Tick
    /\ kind' = [kind EXCEPT ![m] = "local"]
    /\ born' = [born EXCEPT ![m] = clock + 1]
    /\ waiting' = waiting \cup {m}
    /\ UNCHANGED <<chatVars, pos, held, readTo, outbox, next, bookVars, notified, heardVars, restarts>>

\* sendMessage, and C5 over SPDY: the id is noted before the job is queued.
StartS4(m) ==
    /\ kind[m] = "none" /\ Tick
    /\ kind' = [kind EXCEPT ![m] = "local"]
    /\ born' = [born EXCEPT ![m] = clock + 1]
    /\ Note(m, FALSE)
    /\ UNCHANGED <<chatVars, pos, waiting, held, readTo, outbox, next, notified, heardVars, restarts>>

\* LINE accepts a local message.
Accept(m) ==
    /\ kind[m] = "local" /\ pos[m] = 0 /\ Tick
    /\ pos' = [pos EXCEPT ![m] = clock + 1]
    /\ UNCHANGED <<chatVars, kind, born, waiting, held, readTo, outbox, next, bookVars, notified,
                   heardVars, restarts>>

\* The waiting C5 handler sees the delivery result.
NoteC5(m) ==
    /\ m \in waiting /\ pos[m] > 0
    /\ waiting' = waiting \ {m}
    /\ Note(m, FALSE)
    /\ UNCHANGED <<chatVars, clock, kind, born, pos, held, readTo, outbox, next, notified,
                   heardVars, restarts>>

\* It gives up after ten seconds: 503, and the id is never noted.
TimeoutC5(m) ==
    /\ m \in waiting
    /\ waiting' = waiting \ {m}
    /\ UNCHANGED <<chatVars, clock, kind, born, pos, held, readTo, outbox, next, bookVars,
                   notified, heardVars, restarts>>

\* The user sends from another device.
OtherSend(m) ==
    /\ kind[m] = "none" /\ Tick
    /\ kind' = [kind EXCEPT ![m] = "other"]
    /\ born' = [born EXCEPT ![m] = clock + 1]
    /\ pos' = [pos EXCEPT ![m] = clock + 1]
    /\ held' = held \cup {m}
    /\ UNCHANGED <<chatVars, waiting, readTo, outbox, next, bookVars, notified, heardVars, restarts>>

\* Its grace period is over: it goes into the outbox, behind everything there.
PostSent(m) ==
    /\ m \in held
    /\ held' = held \ {m}
    /\ outbox' = Append(outbox, SentEntry(m))
    /\ UNCHANGED <<chatVars, clock, kind, born, pos, waiting, readTo, next, bookVars, notified,
                   heardVars, restarts>>

\* A reader reads: LINE reports the latest accepted message, in a group also
\* an earlier one, and the receipt goes into the outbox unless it is there.
Read(r, m) ==
    /\ pos[m] > 0
    /\ group \/ \A x \in Msgs : pos[x] <= pos[m]
    /\ Tick
    /\ readTo' = [readTo EXCEPT ![r] = IF pos[m] > @ THEN pos[m] ELSE @]
    /\ outbox' = IF \E i \in 1..Len(outbox) : SameReceipt(outbox[i], r, pos[m])
                 THEN outbox
                 ELSE Append(outbox, ReadEntry(r, pos[m], clock + 1))
    /\ UNCHANGED <<chatVars, kind, born, pos, waiting, held, next, bookVars, notified, heardVars,
                   restarts>>

\* The drain meets a self-sent message: op 25, the id is noted, and an op 28
\* follows at once when a receipt came before it.
DrainSent ==
    /\ next < Len(outbox) /\ outbox[next + 1].kind = "sent"
    /\ LET m == outbox[next + 1].msg
           early == CatchUp(m)
       IN /\ Note(m, early # {})
          /\ notified' = IF early = {} THEN notified
                         ELSE [notified EXCEPT ![m][CHOOSE r \in early : TRUE] = @ + 1]
    /\ next' = next + 1
    /\ UNCHANGED <<timeVars, outbox, heardVars, restarts>>

\* The drain meets a receipt: one op 28 with the ids taken, none without.
DrainRead ==
    /\ next < Len(outbox) /\ outbox[next + 1].kind = "read"
    /\ LET e == outbox[next + 1]
           r == e.reader
           ids == Taken(e)
       IN /\ IF group
             THEN /\ seen' = SeenAfter(ids, r)
                  /\ mark' = [mark EXCEPT ![r] = IF ids = {} THEN @ ELSE e.position]
                  /\ UNCHANGED <<pending, lastPos>>
             ELSE /\ lastPos' = [lastPos EXCEPT ![r] = e.position]
                  /\ pending' = <<>>
                  /\ UNCHANGED <<seen, mark>>
          /\ notified' = [m \in Msgs |-> IF m \in ids THEN [notified[m] EXCEPT ![r] = @ + 1]
                                                     ELSE notified[m]]
          /\ newest' = [newest EXCEPT ![r] = IF e.position > @ THEN e.position ELSE @]
          /\ heardAt' = [heardAt EXCEPT ![r] = e.created]
    /\ next' = next + 1
    /\ UNCHANGED <<timeVars, outbox, tracked, restarts>>

\* A restart: the books are in memory only, the delivered ids are not.
Restart ==
    /\ restarts < MaxRestarts
    /\ restarts' = restarts + 1
    /\ waiting' = {}
    /\ pending' = <<>> /\ seen' = [m \in Msgs |-> {}]
    /\ mark' = [r \in Readers |-> 0] /\ lastPos' = [r \in Readers |-> 0]
    /\ tracked' = {} /\ newest' = [r \in Readers |-> 0]
    /\ UNCHANGED <<chatVars, clock, kind, born, pos, held, readTo, outbox, next, notified, heardAt>>

-----------------------------------------------------------------------------
Next ==
    \/ \E m \in Msgs : \/ StartC5(m) \/ StartS4(m) \/ Accept(m) \/ NoteC5(m)
                       \/ TimeoutC5(m) \/ OtherSend(m) \/ PostSent(m)
    \/ \E r \in members, m \in Msgs : Read(r, m)
    \/ DrainSent
    \/ DrainRead
    \/ Restart

Spec == Init /\ [][Next]_vars

-----------------------------------------------------------------------------
Entries ==
    [kind : {"sent"}, msg : Msgs]
      \cup [kind : {"read"}, reader : Readers, position : Nat, created : Nat]

(* Every variable has its type, and the list of pending ids its bound.       *)
TypeOK ==
    /\ group \in BOOLEAN /\ members \subseteq Readers
    /\ clock \in Nat
    /\ kind \in [Msgs -> {"none", "local", "other"}]
    /\ born \in [Msgs -> Nat] /\ pos \in [Msgs -> Nat]
    /\ waiting \subseteq Msgs /\ held \subseteq Msgs
    /\ readTo \in [Readers -> Nat]
    /\ outbox \in Seq(Entries) /\ next \in 0..Len(outbox)
    /\ pending \in Seq(Msgs) /\ Len(pending) <= PendingMax
    /\ seen \in [Msgs -> SUBSET Readers]
    /\ mark \in [Readers -> Nat] /\ lastPos \in [Readers -> Nat]
    /\ notified \in [Msgs -> [Readers -> Nat]]
    /\ restarts \in Nat
    /\ tracked \subseteq Msgs
    /\ newest \in [Readers -> Nat] /\ heardAt \in [Readers -> Nat]

(* The phone is told at most once that a reader has read a message, whatever *)
(* the receipts repeat, the cap on pending ids expires and a restart forgets; *)
(* and in a group a receipt does not mark a message whose sending began after *)
(* the receipt was created, however long the receipt waited in the outbox.   *)
ReportsAreTrue ==
    \A m \in Msgs, r \in Readers :
        /\ notified[m][r] <= 1
        /\ group /\ r \in members /\ notified[m][r] > 0 => born[m] <= heardAt[r]

(* In a direct chat a message of another device is reported read if and only *)
(* if it was and that has been drained, whether the receipt overtook the     *)
(* message on its way or came after it: take_read_catch_up.                  *)
OtherReadsExact ==
    ~group => \A m \in Msgs, r \in members :
        kind[m] = "other" =>
            /\ notified[m][r] > 0 => pos[m] <= readTo[r]
            /\ m \in tracked /\ lastPos[r] >= pos[m] => notified[m][r] = 1

(* A group receipt that is not older than another of its reader reports every *)
(* message noted before it, accepted up to its position and not expired.      *)
GroupComplete ==
    [][ \A r \in members :
          (/\ group /\ next' = next + 1
           /\ outbox[next + 1].kind = "read" /\ outbox[next + 1].reader = r
           /\ outbox[next + 1].position >= newest[r])
          => \A m \in tracked :
                pos[m] \in 1..outbox[next + 1].position => notified'[m][r] > 0 ]_vars
=============================================================================

------------------------------ MODULE FriendAdd ------------------------------
(***************************************************************************)
(* The phone adds a friend: findAndAddContactsByMid, handled by            *)
(* legacy_friend_add.py.  Under one lock it asks LINE whether that account *)
(* is a friend already, adds it with the ticket of a QR code seen in the   *)
(* last 600 s or the one group both are in, unless this request was        *)
(* performed before, asks again for what to show, and takes the account    *)
(* off the two recommendation files.  bridge_worker.mjs rewrites these     *)
(* files from what LINE recommends, and when the phone blocks somebody,    *)
(* without that lock.                                                      *)
(*                                                                         *)
(* A request is told apart by account and number; here it is a member of   *)
(* Operations, for the contact Of.  LINE's answer to getContact is what is *)
(* so at that moment.  The limit of 256 tickets is left out.               *)
(***************************************************************************)
EXTENDS Naturals, FiniteSets

CONSTANTS
    Mids,         \* the accounts that can be added
    Operations,   \* the requests, told apart by their number
    Requests,     \* connections that can ask at a time
    None,
    TicketLife,   \* 600 s
    MaxAdded,     \* 256, the requests remembered at most
    MaxNow, MaxAsks, MaxSyncs, MaxFaults, MaxRestarts   \* bounds

FriendAddAssumption ==
    /\ None \notin Mids \cup Operations \cup Requests
    /\ TicketLife \in Nat \ {0} /\ MaxAdded \in Nat \ {0}

VARIABLES
    now,        \* the clock
    of,         \* whom each request is about
    grouped,    \* the accounts that share exactly one group with this one
    request,    \* what each connection is at
    lock,       \* who holds _lock
    tickets,    \* _tickets: when the QR code of an account was seen
    added,      \* _added
    friends,    \* the friends at LINE
    mids,       \* recommendation_mids.json
    contacts,   \* recommendation_contacts.json
    sync,       \* which file the bridge is at, whom it takes off and what it writes
    writes,     \* how often LINE performed each request
    forgot,     \* requests performed whose answer or memory was lost
    consumed,   \* accounts taken off the recommendations by an addition
    crossed,    \* accounts a removal of which crossed the bridge or failed, or unfriended
    asks, syncs, faults, restarts   \* counters

setting  == <<of, grouped>>
memory   == <<lock, tickets, added>>
files    == <<mids, contacts>>
history  == <<writes, forgot, consumed, crossed>>
counters == <<asks, syncs, faults, restarts>>
vars == <<now, setting, request, memory, friends, files, sync, history, counters>>

Idle == [pc |-> "idle", op |-> None, read |-> {}]
NoSync == [pc |-> "idle", gone |-> {}, mids |-> {}, contacts |-> {}]
At(r, pc) == request[r].pc = pc
Op(r)  == request[r].op
Mid(r) == of[Op(r)]
Goes(r, pc) == request' = [request EXCEPT ![r].pc = pc]

Init ==
    /\ now = 0
    /\ of \in [Operations -> Mids] /\ grouped \in SUBSET Mids
    /\ request = [r \in Requests |-> Idle]
    /\ lock = None /\ tickets = [m \in Mids |-> None] /\ added = {}
    /\ friends = {} /\ mids = Mids /\ contacts = Mids /\ sync = NoSync
    /\ writes = [o \in Operations |-> 0]
    /\ forgot = {} /\ consumed = {} /\ crossed = {}
    /\ asks = 0 /\ syncs = 0 /\ faults = 0 /\ restarts = 0

Tick ==
    /\ now < MaxNow /\ now' = now + 1
    /\ UNCHANGED <<setting, request, memory, friends, files, sync, history, counters>>

-----------------------------------------------------------------------------
(* The request *)

\* A QR code was looked up through the proxy (remember); old tickets are dropped.
SeeTicket(m) ==
    /\ lock = None /\ tickets[m] # now
    /\ tickets' = [n \in Mids |-> IF n = m THEN now
                                  ELSE IF tickets[n] # None /\ now - tickets[n] > TicketLife
                                       THEN None ELSE tickets[n]]
    /\ UNCHANGED <<now, setting, request, lock, added, friends, files, sync, history, counters>>

Ask(r, o) ==
    /\ At(r, "idle") /\ asks < MaxAsks /\ asks' = asks + 1
    /\ request' = [request EXCEPT ![r] = [Idle EXCEPT !.pc = "waiting", !.op = o]]
    /\ UNCHANGED <<now, setting, memory, friends, files, sync, history, syncs, faults, restarts>>

Enter(r) ==
    /\ At(r, "waiting") /\ lock = None
    /\ lock' = r /\ Goes(r, "verify")
    /\ UNCHANGED <<now, setting, tickets, added, friends, files, sync, history, counters>>

Ends(r) == lock' = None /\ request' = [request EXCEPT ![r] = Idle]

HasSource(m) ==
    \/ tickets[m] # None /\ now - tickets[m] <= TicketLife
    \/ m \in grouped

\* Mutant: the request counts only while the friendship lasts
KnownWhileFriend(o) == o \in added /\ of[o] \in friends
KnownToBeAdded(o) == o \in added

\* getContact before any write: a friend is answered as one, nothing else is done.
Verify(r) ==
    /\ At(r, "verify")
    /\ CASE Mid(r) \in friends      -> Ends(r)
         [] Mid(r) \notin friends /\ KnownToBeAdded(Op(r)) -> Goes(r, "refresh") /\ UNCHANGED lock
         [] Mid(r) \notin friends /\ ~KnownToBeAdded(Op(r)) ->
                IF HasSource(Mid(r)) THEN Goes(r, "add") /\ UNCHANGED lock ELSE Ends(r)
    /\ UNCHANGED <<now, setting, tickets, added, friends, files, sync, history, counters>>

Performed(r) ==
    /\ friends' = friends \cup {Mid(r)}
    /\ writes' = [writes EXCEPT ![Op(r)] = @ + 1]

\* addFriendByMid.  One remembered request goes when there are too many; the order they
\* came in is left open.
Add(r) ==
    LET all == added \cup {Op(r)} IN
    /\ At(r, "add") /\ Performed(r) /\ Goes(r, "refresh")
    /\ \E dropped \in {{}} \cup {{o} : o \in all} :
          /\ (dropped = {}) = (Cardinality(all) <= MaxAdded)
          /\ added' = all \ dropped /\ forgot' = forgot \cup dropped
    /\ UNCHANGED <<now, setting, lock, tickets, files, sync, consumed, crossed, counters>>

Fault == faults < MaxFaults /\ faults' = faults + 1 /\ UNCHANGED <<asks, syncs, restarts>>

\* LINE refuses, or its answer is lost after it added the friend: an error either way.
AddFails(r) ==
    /\ At(r, "add") /\ Fault /\ Ends(r)
    /\ \/ UNCHANGED <<friends, writes, forgot>>
       \/ Performed(r) /\ forgot' = forgot \cup {Op(r)}
    /\ UNCHANGED <<now, setting, tickets, added, files, sync, consumed, crossed>>

\* getContact after the write; either getContact may fail.  The recommendation stays.
Refresh(r) ==
    /\ At(r, "refresh") /\ Goes(r, "readMids")
    /\ UNCHANGED <<now, setting, memory, friends, files, sync, history, counters>>
GetContactFails(r) ==
    /\ request[r].pc \in {"verify", "refresh"} /\ Fault /\ Ends(r)
    /\ UNCHANGED <<now, setting, tickets, added, friends, files, sync, history>>

\* remove_recommendation: one file after the other is read and replaced.  What a file
\* the bridge replaces in between holds is lost.
Removes(r, from, to) ==
    /\ request' = [request EXCEPT ![r].pc = to, ![r].read = from \ {Mid(r)}]
    /\ UNCHANGED <<now, setting, memory, friends, files, sync, history, counters>>
ReadMids(r)     == At(r, "readMids") /\ Removes(r, mids, "writeMids")
ReadContacts(r) == At(r, "readContacts") /\ Removes(r, contacts, "writeContacts")

Crossing(r) == IF sync.pc # "idle" THEN {Mid(r)} ELSE {}
WriteMids(r) ==
    /\ At(r, "writeMids") /\ Goes(r, "readContacts")
    /\ mids' = request[r].read
    /\ crossed' = crossed \cup Crossing(r)
    /\ UNCHANGED <<now, setting, memory, friends, contacts, sync, writes, forgot, consumed, counters>>
WriteContacts(r) ==
    /\ At(r, "writeContacts") /\ Ends(r)
    /\ contacts' = request[r].read
    /\ crossed' = crossed \cup Crossing(r)
    /\ consumed' = consumed \cup {Mid(r)}
    /\ UNCHANGED <<now, setting, tickets, added, friends, mids, sync, writes, forgot, counters>>

\* A file cannot be replaced: it stays, the other one is tried, the answer is a success.
WriteFails(r) ==
    /\ request[r].pc \in {"writeMids", "writeContacts"} /\ Fault
    /\ IF At(r, "writeMids") THEN Goes(r, "readContacts") /\ UNCHANGED lock ELSE Ends(r)
    /\ crossed' = crossed \cup {Mid(r)}
    /\ UNCHANGED <<now, setting, tickets, added, friends, files, sync, writes, forgot, consumed>>

-----------------------------------------------------------------------------
(* Around it *)

Removing == {Mid(r) : r \in {q \in Requests :
                request[q].pc \in {"readMids", "writeMids", "readContacts", "writeContacts"}}}

\* syncContactState fetches what LINE recommends, who is no friend, and replaces the
\* two files one after the other.
SyncFetch ==
    /\ sync.pc = "idle" /\ syncs < MaxSyncs /\ syncs' = syncs + 1
    /\ LET found == Mids \ friends
       IN  sync' = [NoSync EXCEPT !.pc = "mids", !.mids = found, !.contacts = found]
    /\ UNCHANGED <<now, setting, request, memory, friends, files, history, asks, faults, restarts>>

\* The phone blocked m: removeRecommendation reads one file, then the other, and
\* replaces them as a sync does.
BlockReads(m) ==
    /\ \/ /\ sync.pc = "idle" /\ syncs < MaxSyncs /\ syncs' = syncs + 1
          /\ sync' = [NoSync EXCEPT !.pc = "block", !.gone = {m}, !.mids = mids \ {m}]
       \/ /\ sync.pc = "block" /\ sync.gone = {m} /\ UNCHANGED syncs
          /\ sync' = [sync EXCEPT !.pc = "mids", !.contacts = contacts \ {m}]
    /\ UNCHANGED <<now, setting, request, memory, friends, files, history, asks, faults, restarts>>
SyncWrite ==
    /\ \/ sync.pc = "mids" /\ mids' = sync.mids /\ sync' = [sync EXCEPT !.pc = "contacts"]
          /\ UNCHANGED contacts
       \/ sync.pc = "contacts" /\ contacts' = sync.contacts /\ sync' = NoSync
          /\ UNCHANGED mids
    /\ crossed' = crossed \cup Removing
    /\ UNCHANGED <<now, setting, request, memory, friends, writes, forgot, consumed, counters>>

\* Another device makes or undoes a friendship.
Elsewhere(m) ==
    /\ Fault
    /\ \/ m \notin friends /\ friends' = friends \cup {m} /\ UNCHANGED crossed
       \/ m \in friends /\ friends' = friends \ {m} /\ crossed' = crossed \cup {m}
    /\ UNCHANGED <<now, setting, request, memory, files, sync, writes, forgot, consumed>>

Restart ==
    /\ restarts < MaxRestarts /\ restarts' = restarts + 1
    /\ request' = [r \in Requests |-> Idle]
    /\ lock' = None /\ tickets' = [m \in Mids |-> None] /\ added' = {}
    /\ forgot' = forgot \cup added
    /\ crossed' = crossed \cup Removing
    /\ UNCHANGED <<now, setting, friends, files, sync, writes, consumed, asks, syncs, faults>>

Next ==
    \/ Tick \/ SyncFetch \/ SyncWrite \/ Restart
    \/ \E m \in Mids : SeeTicket(m) \/ BlockReads(m) \/ Elsewhere(m)
    \/ \E r \in Requests :
          \/ Enter(r) \/ Verify(r) \/ Add(r) \/ AddFails(r) \/ Refresh(r) \/ GetContactFails(r)
          \/ ReadMids(r) \/ WriteMids(r) \/ ReadContacts(r) \/ WriteContacts(r) \/ WriteFails(r)
          \/ \E o \in Operations : Ask(r, o)

Spec == Init /\ [][Next]_vars

-----------------------------------------------------------------------------
\* Who was added through the proxy and taken off the recommendations is a friend at
\* LINE and in neither file, although the bridge rewrites both.  The exceptions: a sync
\* or a block crossed the removal, a file could not be replaced, the friendship was undone.
AnswerIsTrue ==
    \A m \in consumed \ crossed :
        m \in friends /\ (sync.pc = "idle" /\ m \notin Removing => m \notin mids \cup contacts)

\* LINE performs a request once, even when the friendship was undone in between and the
\* phone asks again.  The exceptions: a lost answer, a restart, a request pushed out of
\* memory by 256 newer ones.
RetryNotRepeatedStep ==
    \A o \in Operations : writes'[o] # writes[o] => writes[o] = 0 \/ o \in forgot
RetryNotRepeated == [][RetryNotRepeatedStep]_vars
=============================================================================

------------------------------- MODULE Account -------------------------------
(***************************************************************************)
(* The state of the account the phone is shown: who is blocked, who is     *)
(* hidden, the user's status line, the friends and the recommendations,    *)
(* the calls of the past.  The files have nothing in common, so a          *)
(* behaviour is about one of them, its scene; the variables of the others  *)
(* are "off".                                                              *)
(***************************************************************************)
EXTENDS Naturals

CONSTANTS
    Mids,         \* contacts
    Newcomers,    \* the accounts that can be added as friends
    Statuses,     \* status lines
    Operations,   \* requests to add somebody
    Threads,      \* connections that can ask at a time
    Calls,        \* calls of the history
    OutCalls, Rings,   \* calls in the gateway
    None, Life, MaxKept, MaxHistory, TicketLife, MaxAdded, Window, MaxRecent,
    MaxOps, MaxJobs, MaxFailures, MaxNow, MaxTries, MaxDumps, MaxAsks, MaxSyncs,
    MaxFaults, MaxRestarts

VARIABLES
    scene,
    status, log, rev, savedRev, recv, send, starting,
    hidden, pending, dump, dumped, job, old, ops,
    completed, answered, line, profile, history, fetched, sent, told, lost, tries, dumps,
    of, grouped, tickets, added, friends, mids, contacts, sync, writes, forgot, consumed,
    asks, syncs,
    peer, ours, ended, callLog, recvOut, curLog, curRecv, recent, pump, dropped, early,
    forgotten,
    active, ringing, armed, pc, cancelled, planet, upstream, timer, port, ticking, logged,
    dialog, owed, displaced, late,
    file, met, jobs, failures,            \* blocked and hidden contacts
    request, lock, crossed, faults,       \* status line and friends
    now,                                  \* these two and calls
    outbox,                               \* blocked contacts and calls
    restarts

B == INSTANCE BlockState
H == INSTANCE HiddenState
S == INSTANCE StatusHome WITH Requests <- Threads
F == INSTANCE FriendAdd WITH Requests <- Threads, Mids <- Newcomers
C == INSTANCE CallHistory WITH Peers <- Mids
G == INSTANCE CallGateway

ASSUME AccountAssumption ==
    /\ B!BlockAssumption /\ H!HiddenAssumption
    /\ S!StatusHomeAssumption /\ F!FriendAddAssumption /\ C!CallHistoryAssumption
    /\ G!CallAssumption

blockVars  == <<status, log, rev, savedRev, recv, send, starting>>
hiddenVars == <<hidden, pending, dump, dumped, job, old, ops>>
statusVars == <<completed, answered, line, profile, history, fetched, sent, told, lost, tries,
                dumps>>
friendVars == <<of, grouped, tickets, added, friends, mids, contacts, sync, writes, forgot,
                consumed, asks, syncs>>
listVars   == <<file, met, jobs, failures>>
callVars   == <<peer, ours, ended, callLog, recvOut, curLog, curRecv, recent, pump, dropped,
                early, forgotten>>
gateVars   == <<active, ringing, armed, pc, cancelled, planet, upstream, timer, port, ticking,
                logged, dialog, owed, displaced, late>>
askVars    == <<request, lock, crossed, faults>>
vars == <<scene, blockVars, hiddenVars, statusVars, friendVars, callVars, gateVars, listVars,
          askVars, now, outbox, restarts>>

BlockOff ==
    /\ status = "off" /\ log = "off" /\ rev = "off" /\ savedRev = "off" /\ recv = "off"
    /\ send = "off" /\ starting = "off"
HiddenOff ==
    /\ hidden = "off" /\ pending = "off" /\ dump = "off" /\ dumped = "off" /\ job = "off"
    /\ old = "off" /\ ops = "off"
StatusOff ==
    /\ completed = "off" /\ answered = "off" /\ line = "off" /\ profile = "off"
    /\ history = "off" /\ fetched = "off" /\ sent = "off" /\ told = "off" /\ lost = "off"
    /\ tries = "off" /\ dumps = "off"
FriendOff ==
    /\ of = "off" /\ grouped = "off" /\ tickets = "off" /\ added = "off" /\ friends = "off"
    /\ mids = "off" /\ contacts = "off" /\ sync = "off" /\ writes = "off" /\ forgot = "off"
    /\ consumed = "off" /\ asks = "off" /\ syncs = "off"
CallOff ==
    /\ peer = "off" /\ ours = "off" /\ ended = "off" /\ callLog = "off" /\ recvOut = "off"
    /\ curLog = "off" /\ curRecv = "off" /\ recent = "off" /\ pump = "off"
    /\ dropped = "off" /\ early = "off" /\ forgotten = "off"
GateOff ==
    /\ active = "off" /\ ringing = "off" /\ armed = "off" /\ pc = "off" /\ cancelled = "off"
    /\ planet = "off" /\ upstream = "off" /\ timer = "off" /\ port = "off" /\ ticking = "off"
    /\ logged = "off" /\ dialog = "off" /\ owed = "off" /\ displaced = "off" /\ late = "off"
ListOff == file = "off" /\ met = "off" /\ jobs = "off" /\ failures = "off"
AskOff  == request = "off" /\ lock = "off" /\ crossed = "off" /\ faults = "off"

Init ==
    \/ /\ scene = "block"  /\ B!Init
       /\ HiddenOff /\ StatusOff /\ FriendOff /\ CallOff /\ GateOff /\ AskOff /\ now = "off"
    \/ /\ scene = "hidden" /\ H!Init
       /\ BlockOff /\ StatusOff /\ FriendOff /\ CallOff /\ GateOff /\ AskOff
       /\ now = "off" /\ outbox = "off"
    \/ /\ scene = "status" /\ S!Init
       /\ BlockOff /\ HiddenOff /\ FriendOff /\ CallOff /\ GateOff /\ ListOff /\ outbox = "off"
    \/ /\ scene = "friend" /\ F!Init
       /\ BlockOff /\ HiddenOff /\ StatusOff /\ CallOff /\ GateOff /\ ListOff /\ outbox = "off"
    \/ /\ scene = "calls"  /\ C!Init
       /\ BlockOff /\ HiddenOff /\ StatusOff /\ FriendOff /\ GateOff /\ ListOff /\ AskOff
    \/ /\ scene = "gateway" /\ G!Init
       /\ BlockOff /\ HiddenOff /\ StatusOff /\ FriendOff /\ CallOff /\ ListOff /\ AskOff
       /\ now = "off" /\ outbox = "off" /\ restarts = "off"

Next ==
    \/ /\ scene = "block" /\ B!Next
       /\ UNCHANGED <<scene, hiddenVars, statusVars, friendVars, callVars, gateVars,
                      askVars, now>>
    \/ /\ scene = "hidden" /\ H!Next
       /\ UNCHANGED <<scene, blockVars, statusVars, friendVars, callVars, gateVars,
                      askVars, now, outbox>>
    \/ /\ scene = "status" /\ S!Next
       /\ UNCHANGED <<scene, blockVars, hiddenVars, friendVars, callVars, gateVars,
                      listVars, outbox>>
    \/ /\ scene = "friend" /\ F!Next
       /\ UNCHANGED <<scene, blockVars, hiddenVars, statusVars, callVars, gateVars,
                      listVars, outbox>>
    \/ /\ scene = "calls" /\ C!Next
       /\ UNCHANGED <<scene, blockVars, hiddenVars, statusVars, friendVars, gateVars,
                      listVars, askVars>>
    \/ /\ scene = "gateway" /\ G!Next
       /\ UNCHANGED <<scene, blockVars, hiddenVars, statusVars, friendVars, callVars, listVars,
                      askVars, now, outbox, restarts>>

Spec == Init /\ [][Next]_vars

-----------------------------------------------------------------------------
\* When the bridge has nothing left to do, blocked_mids.json and hidden_mids.json say
\* what is so at LINE (refreshBlockState, updateContactState, dumpContactsAndGroups).
FileIsCurrent ==
    /\ scene = "block"  => B!FileIsCurrent
    /\ scene = "hidden" => H!FileIsCurrent

\* The phone then shows as blocked whom LINE lists as blocked (recvLoop).
PhoneAgrees == scene = "block" => B!PhoneAgrees

\* What the phone was told of its status line and of the friends it added is so at LINE
\* and in the files kept beside it (legacy_status_home.handle, legacy_friend_add.handle).
AnswerIsTrue ==
    /\ scene = "status" => S!AnswerIsTrue
    /\ scene = "friend" => F!AnswerIsTrue

\* A request that was answered with success is not performed again when the phone asks
\* again: a status while its answer is remembered, the addition of a friend at all.
RetryNotRepeatedStep ==
    /\ scene = "status" => S!RetryNotRepeatedStep
    /\ scene = "friend" => F!RetryNotRepeatedStep
RetryNotRepeated == [][RetryNotRepeatedStep]_vars

\* A call is in the phone's history once (pump_recv, pump_calllog).
CallListedOnce == scene = "calls" => C!CallListedOnce

\* A call that was closed in the gateway holds neither port nor intervals nor transport,
\* and a bridge that runs is that of the active call (closeActive, startEas1Bridge).
ReleasedWhenClosed == scene = "gateway" => G!ReleasedWhenClosed
=============================================================================

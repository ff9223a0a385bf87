---------------------------- MODULE CallGateway ----------------------------
(***************************************************************************)
(* legacy_call_gateway.mjs: SIP calls of LINE 3.7.1 carried over PLANET.   *)
(* One thread runs the handlers; a handler gives way where it awaits the   *)
(* network or the EAS1 helper, and goes on later with what is then in the  *)
(* globals active and ringing.  Sending a datagram does not give way.      *)
(*                                                                         *)
(* An outgoing call is one run of bridgeInvite; an incoming one is one run *)
(* of ringLegacy and, once the phone answers, of finishRing.  The phone    *)
(* has one dialog at a time.  Audio is not modelled.                       *)
(***************************************************************************)
EXTENDS Naturals, FiniteSets

CONSTANTS
    OutCalls,    \* calls the phone makes
    Rings,       \* calls for the phone
    None         \* no call

CallAssumption == OutCalls \cap Rings = {} /\ None \notin OutCalls \cup Rings

AllCalls == OutCalls \cup Rings

VARIABLES
    active,      \* the call in the global of that name
    ringing,     \* the ring in the global of that name
    armed,       \* ringArmed
    pc,          \* what each call's handler awaits
    cancelled,   \* the calls closeActive marked
    planet,      \* each call's PLANET transport
    upstream,    \* each ring's upstreamPromise
    timer,       \* the rings whose 20-second timer runs
    port,        \* the call whose media socket is bound to the media port
    ticking,     \* the calls whose 20-ms and statistics intervals run
    logged,      \* lines of call_log_out.jsonl, by call
    dialog,      \* each call as the phone sees it
    owed,        \* responses of the phone to a BYE or CANCEL, on their way
    displaced,   \* history: calls an answered ring took the place of
    late         \* history: calls closed where the code looks at cancelled no more

callVars  == <<active, cancelled, planet, port, ticking, logged, late>>
ringVars  == <<ringing, armed, upstream, timer>>
phoneVars == <<dialog, owed>>
vars == <<callVars, ringVars, pc, phoneVars, displaced>>

\* Where bridgeInvite and finishRing await, in their order.
OutSteps  == {"client", "route", "connect", "invite", "answer", "media"}
RingSteps == {"offer", "invited", "joining", "answering", "media", "failing"}
InProgress == {"calling", "talking", "ringing", "answered"}

Init ==
    /\ active = None /\ ringing = None /\ armed = FALSE
    /\ pc = [c \in AllCalls |-> "none"] /\ cancelled = {}
    /\ planet = [c \in AllCalls |-> "none"] /\ upstream = [r \in Rings |-> "none"]
    /\ timer = {} /\ port = None /\ ticking = {}
    /\ logged = [o \in OutCalls |-> 0]
    /\ dialog = [c \in AllCalls |-> "none"] /\ owed = {}
    /\ displaced = {} /\ late = {}

-----------------------------------------------------------------------------
\* Mutant: the media socket of a call is left open.
KeptPort(c) == port

\* The media port after the socket of c is closed.
FreedPort(c) == IF port = c THEN None ELSE port

\* A call closed here goes on acquiring what nobody will release.
Unguarded(c) == pc[c] \in {"route", "media"}

\* closeActive: whatever call is in the global is recorded and torn down.
CloseActive ==
    /\ active' = None
    /\ IF active = None
       THEN UNCHANGED <<cancelled, planet, port, ticking, logged, late>>
       ELSE /\ cancelled' = cancelled \cup {active}
            /\ planet' = [planet EXCEPT ![active] = IF @ = "none" THEN @ ELSE "closed"]
            /\ port' = FreedPort(active)
            /\ ticking' = ticking \ {active}
            /\ logged' = [o \in OutCalls |-> logged[o] + (IF o = active THEN 1 ELSE 0)]
            /\ late' = IF Unguarded(active) THEN late \cup {active} ELSE late

KeepCalls == UNCHANGED callVars

GoTo(c, step) == pc' = [pc EXCEPT ![c] = step]

\* The phone's dialog of a call is over: it was told so, or hung up.
Over(c) == dialog' = [dialog EXCEPT ![c] = "over"]

\* The gateway ends a dialog with a BYE; the phone owes an answer to it.
Bye(c) == Over(c) /\ owed' = owed \cup {"ok"}

PhoneFree == \A c \in AllCalls : dialog[c] \notin InProgress

-----------------------------------------------------------------------------
\* May bridgeInvite take an INVITE?
Free == active = None

\* The phone dials.
Invite(o) ==
    /\ dialog[o] = "none" /\ PhoneFree
    /\ IF Free
       THEN /\ active' = o
            /\ GoTo(o, "client")
            /\ dialog' = [dialog EXCEPT ![o] = "calling"]
       ELSE Over(o) /\ UNCHANGED <<active, pc>>
    /\ UNCHANGED <<cancelled, planet, port, ticking, logged, late, ringVars, owed, displaced>>

\* An await of bridgeInvite is over and the call was closed meanwhile.
Abandon(o) ==
    /\ pc[o] \in {"client", "connect", "invite", "answer"} /\ o \in cancelled
    /\ GoTo(o, "ended")
    /\ KeepCalls /\ UNCHANGED <<ringVars, phoneVars, displaced>>

\* createClient, connect and inviteDetailed succeed.
Proceed(o) ==
    /\ o \notin cancelled
    /\ \E s \in {<<"client", "route">>, <<"connect", "invite">>, <<"invite", "answer">>} :
          pc[o] = s[1] /\ GoTo(o, s[2])
    /\ KeepCalls /\ UNCHANGED <<ringVars, phoneVars, displaced>>

\* acquireCallRoute succeeds: the transport is made without another look.
OpenTransport(o) ==
    /\ pc[o] = "route"
    /\ planet' = [planet EXCEPT ![o] = "open"]
    /\ GoTo(o, "connect")
    /\ UNCHANGED <<active, cancelled, port, ticking, logged, late, ringVars, phoneVars, displaced>>

\* The peer answers and the media bridge is started.
PeerAnswers(o) ==
    /\ pc[o] = "answer" /\ o \notin cancelled /\ planet[o] = "open"
    /\ GoTo(o, "media")
    /\ KeepCalls /\ UNCHANGED <<ringVars, phoneVars, displaced>>

\* The end of startEas1Bridge: the socket is bound and the intervals are set.
BridgeStarts(c) ==
    /\ pc[c] = "media" /\ port = None
    /\ port' = c /\ ticking' = ticking \cup {c}
    /\ GoTo(c, "up")
    /\ UNCHANGED <<active, cancelled, planet, logged, late, armed, upstream, timer, owed, displaced>>

OutBridge(o) ==
    /\ BridgeStarts(o)
    /\ dialog' = [dialog EXCEPT ![o] = IF @ = "calling" THEN "talking" ELSE @]
    /\ UNCHANGED ringing

\* Mutant: a call that failed before it rang is not answered.
AnsweredIfRinging(o) == IF pc[o] \in {"answer", "media"} THEN "over" ELSE dialog[o]

\* The phone's dialog after the final response to a failed call.
FinalResponse(o) == "over"

\* An await fails or times out, the peer has no media, no codec fits (488), or
\* the port is taken: the phone gets a final response, the active call is closed.
OutFails(o) ==
    /\ pc[o] \in OutSteps
    /\ GoTo(o, "ended")
    /\ IF o \in cancelled
       THEN KeepCalls /\ UNCHANGED dialog
       ELSE CloseActive /\ dialog' = [dialog EXCEPT ![o] = FinalResponse(o)]
    /\ UNCHANGED <<ringVars, owed, displaced>>

\* The phone gives up, or hangs up: CANCEL or BYE, whatever call it is about.  Each gets
\* its own answer; the INVITE a CANCEL is about gets no 487.
HangUp(c) ==
    /\ dialog[c] \in {"calling", "talking", "answered"}
    /\ dialog' = [dialog EXCEPT ![c] = IF @ = "calling" THEN "cancelled" ELSE "over"]
    /\ CloseActive
    /\ UNCHANGED <<ringVars, pc, owed, displaced>>

\* Mutant: a release counts only once the bridge runs.
OwnedWhenUp(c) == active = c /\ c \in ticking

\* Does handlePlanetRelease find the transport's call?
Owned(c) == active = c

\* The peer hangs up.
PlanetRelease(c) ==
    /\ planet[c] = "open"
    /\ IF Owned(c)
       THEN Bye(c) /\ CloseActive
       ELSE /\ planet' = [planet EXCEPT ![c] = "gone"]
            /\ UNCHANGED <<active, cancelled, port, ticking, logged, late, phoneVars>>
    /\ UNCHANGED <<ringVars, pc, displaced>>

-----------------------------------------------------------------------------
\* The bridge has an incoming call and signals SIGUSR2.
Arm ==
    /\ \E r \in Rings : pc[r] = "none"
    /\ armed' = (armed \/ ringing = None)
    /\ KeepCalls /\ UNCHANGED <<ringing, upstream, timer, pc, phoneVars, displaced>>

\* An authenticated REGISTER while armed runs ringLegacy, which looks at the
\* globals and then awaits the helper's key for the offer.
Register(r) ==
    /\ armed /\ pc[r] = "none"
    /\ armed' = FALSE
    /\ GoTo(r, IF active = None /\ ringing = None THEN "offer" ELSE "ended")
    /\ KeepCalls /\ UNCHANGED <<ringing, upstream, timer, phoneVars, displaced>>

\* ringLegacy goes on: the upstream call is prepared, the timer set, and the
\* INVITE sent, which may get lost.  A phone in another dialog refuses it.
Ring(r) ==
    /\ pc[r] = "offer"
    /\ ringing' = r
    /\ GoTo(r, "invited")
    /\ upstream' = [upstream EXCEPT ![r] = "pending"]
    /\ timer' = timer \cup {r}
    /\ \/ PhoneFree /\ dialog' = [dialog EXCEPT ![r] = "ringing"] /\ UNCHANGED owed
       \/ ~PhoneFree /\ Over(r) /\ owed' = owed \cup {"refusal"}
       \/ UNCHANGED phoneVars
    /\ KeepCalls /\ UNCHANGED <<armed, displaced>>

RingFails(r) ==
    /\ pc[r] = "offer"
    /\ GoTo(r, "ended")
    /\ KeepCalls /\ UNCHANGED <<ringVars, phoneVars, displaced>>

\* prepareIncomingUpstream ends; one that fails leaves its transport as it is.
UpstreamEnds(r) ==
    /\ upstream[r] = "pending"
    /\ \E u \in {<<"ready", "open">>, <<"failed", "open">>, <<"failed", "none">>} :
         /\ upstream' = [upstream EXCEPT ![r] = u[1]]
         /\ planet' = [planet EXCEPT ![r] = u[2]]
    /\ UNCHANGED <<active, cancelled, port, ticking, logged, late, ringing, armed, timer, pc,
                   phoneVars, displaced>>

\* The timer of r cancels the ring in the global, whichever that is.
RingTimeout(r) ==
    /\ r \in timer
    /\ IF ringing = None
       THEN timer' = timer \ {r} /\ UNCHANGED <<ringing, phoneVars>>
       ELSE /\ timer' = timer \ {r, ringing}
            /\ ringing' = None
            /\ IF dialog[ringing] = "ringing"
               THEN Over(ringing) /\ owed' = owed \cup {"ok", "refusal"}
               ELSE UNCHANGED phoneVars
    /\ KeepCalls /\ UNCHANGED <<armed, upstream, pc, displaced>>

\* A 2xx response, taken for the answer to the ring in the global: finishRing.
Accepted(step) ==
    /\ IF ringing # None /\ pc[ringing] = "invited"
       THEN timer' = timer \ {ringing} /\ GoTo(ringing, step)
       ELSE UNCHANGED <<timer, pc>>
    /\ UNCHANGED <<ringing, armed, upstream>>

\* Any response from 400 on ends the ring in the global.
Refused ==
    /\ ringing' = None
    /\ timer' = timer \ {ringing}
    /\ UNCHANGED <<armed, upstream, pc>>

\* The user takes the call.
Answer(r) ==
    /\ dialog[r] = "ringing"
    /\ dialog' = [dialog EXCEPT ![r] = "answered"]
    /\ Accepted("joining")
    /\ KeepCalls /\ UNCHANGED <<owed, displaced>>

\* The user declines.
Decline(r) ==
    /\ dialog[r] = "ringing"
    /\ Over(r) /\ Refused
    /\ KeepCalls /\ UNCHANGED <<owed, displaced>>

\* A response to a BYE or a CANCEL arrives.  An "ok" has no SDP, so a ring it is
\* taken to answer fails and is ended with a BYE.
LateOk ==
    /\ "ok" \in owed
    /\ Accepted("failing")
    /\ IF pc' = pc
       THEN owed' = owed \ {"ok"} /\ UNCHANGED dialog
       ELSE Bye(ringing)
    /\ KeepCalls /\ UNCHANGED displaced

LateRefusal ==
    /\ "refusal" \in owed
    /\ owed' = owed \ {"refusal"}
    /\ Refused
    /\ KeepCalls /\ UNCHANGED <<dialog, displaced>>

\* finishRing has the upstream call and connects it.
Join(r) ==
    /\ pc[r] = "joining" /\ upstream[r] = "ready"
    /\ GoTo(r, "answering")
    /\ KeepCalls /\ UNCHANGED <<ringVars, phoneVars, displaced>>

\* The call becomes the active one, whatever is there.
Connect(r) ==
    /\ pc[r] = "answering" /\ planet[r] = "open"
    /\ active' = r
    /\ displaced' = displaced \cup ({active} \ {None})
    /\ GoTo(r, "media")
    /\ UNCHANGED <<cancelled, planet, port, ticking, logged, late, ringVars, phoneVars>>

RingBridge(r) ==
    /\ BridgeStarts(r)
    /\ ringing' = None
    /\ UNCHANGED dialog

\* finishRing throws: BYE ...
FinishFails(r) ==
    /\ \/ pc[r] = "joining" /\ upstream[r] = "failed"
       \/ pc[r] \in {"answering", "media"}
    /\ GoTo(r, "failing")
    /\ Bye(r)
    /\ KeepCalls /\ UNCHANGED <<ringVars, displaced>>

\* ... and then the transport is closed.  The global active stays as it is.
FinishGivesUp(r) ==
    /\ pc[r] = "failing" /\ upstream[r] # "pending"
    /\ planet' = [planet EXCEPT ![r] = IF upstream[r] = "ready" THEN "closed" ELSE @]
    /\ ringing' = None
    /\ GoTo(r, "ended")
    /\ UNCHANGED <<active, cancelled, port, ticking, logged, late, armed, upstream, timer,
                   phoneVars, displaced>>

-----------------------------------------------------------------------------
\* The handler of a call goes on: every await ends, with a result or an error.
OutStep(o) ==
    Abandon(o) \/ Proceed(o) \/ OpenTransport(o) \/ PeerAnswers(o) \/ OutBridge(o) \/ OutFails(o)

RingStep(r) ==
    \/ Ring(r) \/ RingFails(r) \/ UpstreamEnds(r)
    \/ Join(r) \/ Connect(r) \/ RingBridge(r) \/ FinishFails(r) \/ FinishGivesUp(r)

Next ==
    \/ \E o \in OutCalls : Invite(o) \/ OutStep(o)
    \/ \E c \in AllCalls : HangUp(c) \/ PlanetRelease(c)
    \/ Arm \/ LateOk \/ LateRefusal
    \/ \E r \in Rings :
          Register(r) \/ RingStep(r) \/ RingTimeout(r) \/ Answer(r) \/ Decline(r)

Spec == Init /\ [][Next]_vars

\* Awaits end, timers fire, and a peer hangs up in the end.
FairSpec ==
    /\ Spec
    /\ \A o \in OutCalls : WF_vars(OutStep(o))
    /\ \A r \in Rings : WF_vars(RingStep(r)) /\ WF_vars(RingTimeout(r))
    /\ \A c \in AllCalls : WF_vars(PlanetRelease(c))

-----------------------------------------------------------------------------
(* Every variable has its type.                                              *)
TypeOK ==
    /\ active \in AllCalls \cup {None} /\ ringing \in Rings \cup {None} /\ armed \in BOOLEAN
    /\ pc \in [AllCalls -> OutSteps \cup RingSteps \cup {"none", "up", "ended"}]
    /\ cancelled \subseteq AllCalls
    /\ planet \in [AllCalls -> {"none", "open", "gone", "closed"}]
    /\ upstream \in [Rings -> {"none", "pending", "ready", "failed"}]
    /\ timer \subseteq Rings
    /\ port \in AllCalls \cup {None} /\ ticking \subseteq AllCalls
    /\ logged \in [OutCalls -> Nat]
    /\ dialog \in [AllCalls -> InProgress \cup {"none", "over", "cancelled"}]
    /\ owed \subseteq {"ok", "refusal"}
    /\ displaced \subseteq AllCalls /\ late \subseteq AllCalls

(* A closed call holds neither the media port nor intervals nor an open      *)
(* transport, unless it was closed while its route or its media bridge was   *)
(* on the way: there the code takes them after closeActive has released all. *)
(* And a media bridge that runs belongs to the active call, so that BYE,     *)
(* CANCEL and a release by the peer find it; an answered ring alone may push *)
(* a call out of the global.                                                 *)
ReleasedWhenClosed ==
    /\ \A c \in cancelled \ late : port # c /\ c \notin ticking /\ planet[c] # "open"
    /\ \A c \in ticking \ (cancelled \cup displaced) : active = c

(* An INVITE of the phone gets a final response, or the dialog a BYE, with   *)
(* two exceptions.  One that the phone itself cancels is left without: the   *)
(* gateway answers the CANCEL, and the call, which it closed, returns without *)
(* a response.  And after an answered ring has taken a call's place,         *)
(* bridgeInvite of that call, once it fails, closes the call that is active  *)
(* then, which returns in the same way.                                      *)
Inviting(o)   == dialog[o] = "calling"
Answered(o)   == dialog[o] \in {"talking", "over"}
InviteOver(o) == Answered(o) \/ dialog[o] = "cancelled" \/ displaced # {}
InviteAnswered == \A o \in OutCalls : Inviting(o) ~> InviteOver(o)

(* A call does not stay active for ever, so the gateway takes new ones, save *)
(* for an incoming call whose bridge could not be started.                   *)
Freed(c) == active # c \/ (c \in Rings /\ pc[c] = "ended")
ActiveComesFree == \A c \in AllCalls : active = c ~> Freed(c)
=============================================================================

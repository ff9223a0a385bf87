------------------------------ MODULE Requests -------------------------------
(***************************************************************************)
(* How legy_proxy.py answers the phone without LINE: a group or contact    *)
(* command through the bridge, a call the relay puts its own reply to, a   *)
(* connection it serves alone.  A behaviour is about one of them, its      *)
(* scene; the variables of the others are "off".                           *)
(***************************************************************************)
EXTENDS Naturals

CONSTANTS
    Tasks, MethodOf, MaxTries, MaxErrors, MaxTimeouts,   \* of the commands
    Calls, None,                                         \* of the relay and the server
    MaxFrames, HoldTicks, MaxMillis, MaxItems, MaxFaults

VARIABLES
    scene,
    tries, results, performed, errors, timeouts,
    intercepted, nameless, taken, streams, upstream, heard, downstream, found, got, opened,
    replied,
    method, wire, sent, headers, held, waited, outbox, millis, replies, acked, pongs, pings,
    open, items, unwritten,
    phone,  \* commands and relay
    queue   \* commands and server

G == INSTANCE GroupWrite
R == INSTANCE SpdyRelay
S == INSTANCE SpdyServer

ASSUME RequestsAssumption ==
    G!GroupAssumption /\ R!SpdyRelayAssumption /\ S!SpdyServerAssumption

groupVars  == <<tries, results, performed, errors, timeouts>>
relayVars  == <<intercepted, nameless, taken, streams, upstream, heard, downstream, found, got,
                opened, replied>>
serverVars == <<method, wire, sent, headers, held, waited, outbox, millis, replies, acked,
                pongs, pings, open, items, unwritten>>
vars == <<scene, groupVars, relayVars, serverVars, phone, queue>>

GroupOff ==
    tries = "off" /\ results = "off" /\ performed = "off" /\ errors = "off" /\ timeouts = "off"
RelayOff ==
    /\ intercepted = "off" /\ nameless = "off" /\ taken = "off" /\ streams = "off"
    /\ upstream = "off" /\ heard = "off" /\ downstream = "off" /\ found = "off" /\ got = "off"
    /\ opened = "off" /\ replied = "off"
ServerOff ==
    /\ method = "off" /\ wire = "off" /\ sent = "off" /\ headers = "off" /\ held = "off"
    /\ waited = "off" /\ outbox = "off" /\ millis = "off" /\ replies = "off" /\ acked = "off"
    /\ pongs = "off" /\ pings = "off" /\ open = "off" /\ items = "off" /\ unwritten = "off"

Init ==
    \/ scene = "group"  /\ G!Init /\ RelayOff /\ ServerOff
    \/ scene = "relay"  /\ R!Init /\ GroupOff /\ ServerOff /\ queue = "off"
    \/ scene = "server" /\ S!Init /\ GroupOff /\ RelayOff /\ phone = "off"

Group(A)  == scene = "group"  /\ A /\ UNCHANGED <<scene, relayVars, serverVars>>
Relay(A)  == scene = "relay"  /\ A /\ UNCHANGED <<scene, groupVars, serverVars, queue>>
Server(A) == scene = "server" /\ A /\ UNCHANGED <<scene, groupVars, relayVars, phone>>

Next == Group(G!Next) \/ Relay(R!Next) \/ Server(S!Next)

\* The fairness of FairSpec of GroupWrite and of Spec of SpdyServer.
Spec ==
    /\ Init /\ [][Next]_vars
    /\ WF_vars(Group(G!HandleCommand))
    /\ \A t \in Tasks : WF_vars(Group(G!Answer(t)))
    /\ WF_vars(Server(S!Serve))

-----------------------------------------------------------------------------
\* What the phone is told is true: a command that succeeded was carried out, and as long
\* as LINE answers one that failed was not, unless it creates a group, which fails on the
\* phone also when LINE did it (legacy_groups_write.handle); a message that was
\* acknowledged is in the send queue (spdy_synth).
AnswerIsTrue ==
    /\ scene = "group"  =>
          /\ G!DoneMeansPerformed
          /\ (\A t \in Tasks : MethodOf[t] # "createGroup") => G!FailedMeansNotPerformed
    /\ scene = "server" => S!AnswerIsTrue

\* A command the bridge has still to reach gets done (handleGroupCommand).
TaskGetsDone ==
    \A t \in Tasks :
        (scene = "group" /\ G!Reachable(t)) ~> (scene = "group" => phone[t] = "done")

\* The calls the relay answers get its reply and no other call does (spdy_relay).
InterceptedIsSynthesized == scene = "relay" => R!InterceptedIsSynthesized

\* Every call of the phone is answered (spdy_synth).
EveryCallAnswered ==
    /\ \A c \in Calls :
          (scene = "server" /\ c \in sent) ~> (scene = "server" => S!Answered(c))
    /\ (scene = "server" /\ pings > 0) ~> (scene = "server" => S!Echoed)
=============================================================================

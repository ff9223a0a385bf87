------------------------------ MODULE SpdyRelay ------------------------------
(***************************************************************************)
(* spdy_relay of legy_proxy.py: a SPDY connection of the phone, relayed to *)
(* LINE.  One thread takes the phone's frames, notes which call a stream   *)
(* carries and forwards the frame (the version in a header block is        *)
(* replaced, which is left out).  The other takes LINE's frames and puts a *)
(* reply of its own in the place of the first body frame of a call it      *)
(* answers itself (the login, the country, SYNTH_EMPTY).  They share the   *)
(* table of streams, under a lock.                                         *)
(*                                                                         *)
(* A stream carries one call.  LINE replies with one or more body frames.  *)
(***************************************************************************)
EXTENDS Naturals, Sequences

CONSTANTS
    Calls,       \* the streams of the connection
    None,        \* no stream
    MaxFrames    \* bound: body frames of a call and of a reply

SpdyRelayAssumption ==
    /\ None \notin Calls /\ MaxFrames \in Nat \ {0}

VARIABLES
    intercepted, \* the calls the relay answers itself
    nameless,    \* the calls whose first frame is too short to hold the name
    phone,       \* frames of the phone not yet taken
    taken,       \* the frame being handled, and the steps to do with it
    streams,     \* the table of streams
    upstream,    \* frames on their way to LINE
    heard,       \* the calls LINE got in full
    downstream,  \* frames of LINE on their way back
    found,       \* what the other thread read in the table for the frame it holds
    got,         \* per call the body frames the phone got: "real" or "synth"
    opened, replied    \* the calls that were sent; how many frames LINE replied

phoneVars == <<intercepted, nameless, phone, opened>>
vars == <<phoneVars, taken, streams, upstream, heard, downstream, found, got, replied>>

Free == [frame |-> None, steps |-> <<>>]
NoFrame == [call |-> None, known |-> FALSE]

Init ==
    /\ intercepted \in SUBSET Calls /\ nameless \in SUBSET Calls
    /\ phone = <<>> /\ taken = Free
    /\ streams = {} /\ upstream = <<>> /\ heard = {} /\ downstream = <<>> /\ found = NoFrame
    /\ got = [c \in Calls |-> <<>>]
    /\ opened = {} /\ replied = [c \in Calls |-> 0]

\* The phone opens a stream, and sends its body in one frame or more.
Body(c, n) == [i \in 1..n |-> [call |-> c, what |-> IF i = 1 THEN "first" ELSE "more",
                              last |-> i = n]]
Open(c) ==
    /\ c \notin opened /\ opened' = opened \cup {c}
    /\ \E n \in 1..MaxFrames :
          phone' = Append(phone, [call |-> c, what |-> "header", last |-> FALSE]) \o Body(c, n)
    /\ UNCHANGED <<intercepted, nameless, taken, streams, upstream, heard, downstream, found, got,
                   replied>>

\* The first thread takes a frame.  The name is noted before the frame leaves.
ForwardFirst == <<"forward", "note">>   \* Mutant: noted after the frame left
BodySteps == <<"note", "forward">>
Take ==
    /\ taken = Free /\ phone # <<>>
    /\ phone' = Tail(phone)
    /\ taken' = [frame |-> Head(phone),
                 steps |-> IF Head(phone).what = "first" THEN BodySteps ELSE <<"forward">>]
    /\ UNCHANGED <<intercepted, nameless, opened, streams, upstream, heard, downstream, found, got,
                   replied>>

Rest == IF Len(taken.steps) = 1 THEN Free ELSE [taken EXCEPT !.steps = Tail(@)]
Doing(step) == taken.steps # <<>> /\ Head(taken.steps) = step

Note ==
    /\ Doing("note") /\ taken' = Rest
    /\ streams' = IF taken.frame.call \in nameless THEN streams ELSE streams \cup {taken.frame.call}
    /\ UNCHANGED <<phoneVars, upstream, heard, downstream, found, got, replied>>

Forward ==
    /\ Doing("forward") /\ taken' = Rest
    /\ upstream' = Append(upstream, taken.frame)
    /\ UNCHANGED <<phoneVars, streams, heard, downstream, found, got, replied>>

-----------------------------------------------------------------------------
\* LINE takes a frame, and replies to a call it has, in one body frame or more.
Arrive ==
    /\ upstream # <<>> /\ upstream' = Tail(upstream)
    /\ heard' = IF Head(upstream).last THEN heard \cup {Head(upstream).call} ELSE heard
    /\ UNCHANGED <<phoneVars, taken, streams, downstream, found, got, replied>>
Reply(c) ==
    /\ c \in heard /\ replied[c] < MaxFrames
    /\ replied' = [replied EXCEPT ![c] = @ + 1]
    /\ downstream' = Append(downstream, c)
    /\ UNCHANGED <<phoneVars, taken, streams, upstream, heard, found, got>>

\* The other thread takes a body frame and looks its stream up; a call it answers gets
\* its reply, with FIN, in place of the frame, and its stream is dropped from the table.
Lookup ==
    /\ found = NoFrame /\ downstream # <<>>
    /\ downstream' = Tail(downstream)
    /\ found' = [call |-> Head(downstream), known |-> Head(downstream) \in streams]
    /\ UNCHANGED <<phoneVars, taken, streams, upstream, heard, got, replied>>
PassOn ==
    LET c == found.call
        synth == found.known /\ c \in intercepted IN
    /\ found # NoFrame /\ found' = NoFrame
    /\ got' = [got EXCEPT ![c] = Append(@, IF synth THEN "synth" ELSE "real")]
    /\ streams' = IF synth THEN streams \ {c} ELSE streams
    /\ UNCHANGED <<phoneVars, taken, upstream, heard, downstream, replied>>

Next ==
    \/ Take \/ Note \/ Forward \/ Arrive \/ Lookup \/ PassOn
    \/ \E c \in Calls : Open(c) \/ Reply(c)

Spec == Init /\ [][Next]_vars

-----------------------------------------------------------------------------
\* The first body frame the phone gets for a call the relay answers is the relay's, and
\* it gets one such frame; no other call is answered by the relay.  The exceptions: a
\* first frame that does not hold the name of the call.  What LINE sends after the
\* replaced frame still reaches the phone.
InterceptedIsSynthesized ==
    \A c \in Calls : \A i \in 1..Len(got[c]) :
        (got[c][i] = "synth") <=> (i = 1 /\ c \in intercepted \ nameless)
=============================================================================

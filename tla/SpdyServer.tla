----------------------------- MODULE SpdyServer ------------------------------
(***************************************************************************)
(* spdy_synth of legy_proxy.py: a SPDY connection of the phone that is     *)
(* answered without LINE.  One thread takes the frames in order and        *)
(* answers each call at once, except for a poll, fetchOperations, that it  *)
(* holds for FETCHOPS_HOLD seconds while the outbox has nothing: nothing   *)
(* behind a held poll is looked at.  What the phone sends to a friend      *)
(* (sendMessage, or the /C5 form) is put into the send queue under the     *)
(* time in milliseconds and acknowledged, queued or not.                   *)
(***************************************************************************)
EXTENDS Naturals, Sequences, FiniteSets

CONSTANTS
    Calls,      \* the streams of the connection
    None,       \* no call
    HoldTicks,  \* FETCHOPS_HOLD, in turns of the poll's loop
    MaxMillis, MaxItems, MaxFaults   \* bounds

\* A /C5 send is known by the phone's number of it, which counts its messages and is no
\* time of the clock in milliseconds.
SpdyServerAssumption ==
    /\ None \notin Calls /\ HoldTicks \in Nat
    /\ MaxMillis \in Nat /\ MaxItems \in Nat /\ MaxFaults \in Nat
    /\ Calls \cap 0..MaxMillis = {}

Methods == {"poll", "sendMessage", "c5", "other"}

VARIABLES
    method,    \* what each stream calls
    wire,      \* frames of the phone not yet taken
    sent,      \* the streams the phone has sent in full
    headers,   \* streams: those whose header block was taken
    held,      \* the poll that is held, or None
    waited,    \* the turns it was
    outbox,    \* items waiting for a poll
    millis,    \* the clock
    queue,     \* send_queue.jsonl: for each line its call and the job id it will get
    replies,   \* how often each stream was replied to
    acked,     \* sends the phone got an acknowledgement of
    pongs, pings,   \* PING frames echoed, sent
    open,      \* is the connection there?
    items,     \* counter
    unwritten  \* sends that could not be written to the queue

vars == <<method, wire, sent, headers, held, waited, outbox, millis, queue, replies, acked,
          pongs, pings, open, items, unwritten>>

Init ==
    /\ method \in [Calls -> Methods]
    /\ wire = <<>> /\ sent = {} /\ headers = {}
    /\ held = None /\ waited = 0 /\ outbox = 0 /\ millis = 0
    /\ queue = {} /\ replies = [c \in Calls |-> 0] /\ acked = {}
    /\ pongs = 0 /\ pings = 0 /\ open = TRUE /\ items = 0 /\ unwritten = {}

-----------------------------------------------------------------------------
(* The phone, the clock and the worker *)

\* A call: its header block, and its body in one frame or, the second time, two.
Frame(what, c) == [what |-> what, call |-> c]
Send(c) ==
    /\ open /\ c \notin sent /\ sent' = sent \cup {c}
    /\ \E body \in {<<Frame("call", c)>>, <<Frame("call", c), Frame("rest", c)>>} :
          /\ Len(body) = 2 => method[c] = "other"
          /\ wire' = Append(wire, Frame("header", c)) \o body
    /\ UNCHANGED <<method, headers, held, waited, outbox, millis, queue, replies, acked,
                   pongs, pings, open, items, unwritten>>
Ping ==
    /\ open /\ pings = 0 /\ pings' = 1
    /\ wire' = Append(wire, Frame("ping", None))
    /\ UNCHANGED <<method, sent, headers, held, waited, outbox, millis, queue, replies, acked,
                   pongs, open, items, unwritten>>
Tick ==
    /\ millis < MaxMillis /\ millis' = millis + 1
    /\ UNCHANGED <<method, wire, sent, headers, held, waited, outbox, queue, replies, acked,
                   pongs, pings, open, items, unwritten>>
NewItem ==
    /\ items < MaxItems /\ items' = items + 1 /\ outbox' = outbox + 1
    /\ UNCHANGED <<method, wire, sent, headers, held, waited, millis, queue, replies, acked,
                   pongs, pings, open, unwritten>>
Close ==
    /\ open /\ open' = FALSE
    /\ UNCHANGED <<method, wire, sent, headers, held, waited, outbox, millis, queue, replies,
                   acked, pongs, pings, items, unwritten>>

-----------------------------------------------------------------------------
(* The connection's thread *)

Now(what) == held = None /\ wire # <<>> /\ Head(wire).what = what /\ wire' = Tail(wire)
Subject == Head(wire).call
Replied(c) == replies' = IF open THEN [replies EXCEPT ![c] = @ + 1] ELSE replies

TakeHeader ==
    /\ Now("header") /\ headers' = headers \cup {Subject}
    /\ UNCHANGED <<method, sent, held, waited, outbox, millis, queue, replies, acked,
                   pongs, pings, open, items, unwritten>>
Echo ==
    /\ held = None /\ wire # <<>> /\ Head(wire).what = "ping"
    /\ wire' = IF open THEN Tail(wire) ELSE <<>>   \* an exception ends the thread
    /\ pongs' = IF open THEN pongs + 1 ELSE pongs
    /\ UNCHANGED <<method, sent, headers, held, waited, outbox, millis, queue, replies, acked,
                   pings, open, items, unwritten>>

\* A call that is answered at once.  What is left of its body looks like no call and is
\* answered once more.
Answer ==
    /\ \/ Now("call") /\ method[Subject] = "other"
       \/ Now("rest")
    /\ Replied(Subject)
    /\ UNCHANGED <<method, sent, headers, held, waited, outbox, millis, queue, acked,
                   pongs, pings, open, items, unwritten>>

\* The id of a job: sendMessage gives the clock twice, /C5 the phone's number and the clock.
SharedId(c) == <<millis, millis>>   \* Mutant: /C5 gives the clock twice, too
JobId(c) == IF method[c] = "c5" THEN <<c, millis>> ELSE <<millis, millis>>

\* A message to a friend: queued, unless the file cannot be written, and acknowledged.
AnswerSend ==
    LET c == Subject IN
    /\ Now("call") /\ method[c] \in {"sendMessage", "c5"}
    /\ \/ queue' = queue \cup {[call |-> c, id |-> JobId(c)]} /\ UNCHANGED unwritten
       \/ /\ Cardinality(unwritten) < MaxFaults /\ unwritten' = unwritten \cup {c}
          /\ UNCHANGED queue
    /\ Replied(c) /\ acked' = IF open THEN acked \cup {c} ELSE acked
    /\ UNCHANGED <<method, sent, headers, held, waited, outbox, millis, pongs, pings, open, items>>

\* A poll: what the outbox has, or a wait.
Poll ==
    /\ Now("call") /\ method[Subject] = "poll"
    /\ IF outbox > 0
       THEN Replied(Subject) /\ outbox' = 0 /\ UNCHANGED held
       ELSE held' = Subject /\ UNCHANGED <<replies, outbox>>
    /\ waited' = 0
    /\ UNCHANGED <<method, sent, headers, millis, queue, acked, pongs, pings, open, items, unwritten>>

HeldForever == FALSE   \* Mutant: a poll waits for an item, however long
HeldLongEnough == waited >= HoldTicks

\* A turn of its loop; the poll ends with an item or after FETCHOPS_HOLD.
Hold ==
    /\ held # None
    /\ IF outbox > 0 \/ HeldLongEnough
       THEN Replied(held) /\ outbox' = 0 /\ held' = None /\ waited' = 0
       ELSE waited' = (IF waited < HoldTicks THEN waited + 1 ELSE waited)
            /\ UNCHANGED <<replies, outbox, held>>
    /\ UNCHANGED <<method, wire, sent, headers, millis, queue, acked, pongs, pings, open,
                   items, unwritten>>

Serve == TakeHeader \/ Echo \/ Answer \/ AnswerSend \/ Poll \/ Hold

Next == Serve \/ Ping \/ Tick \/ NewItem \/ Close \/ \E c \in Calls : Send(c)

\* The thread goes on while there are frames.
Spec == Init /\ [][Next]_vars /\ WF_vars(Serve)

-----------------------------------------------------------------------------
\* Every call is answered and every PING echoed while the connection is there, although
\* all of them wait for a poll that is held.
Answered(c) == replies[c] > 0 \/ ~open
Echoed == pongs > 0 \/ ~open
EveryCallAnswered ==
    /\ \A c \in Calls : c \in sent ~> Answered(c)
    /\ pings > 0 ~> Echoed

\* What was acknowledged is in the send queue under a job id of its own.  The exceptions:
\* the file could not be written, and two sendMessage calls in one millisecond, the
\* second of which the send loop takes for done.
SameKind(c, d) == method[c] = "sendMessage" /\ method[d] = "sendMessage"
AnswerIsTrue ==
    \A c \in acked \ unwritten : \E line \in queue :
        /\ line.call = c
        /\ \A other \in queue : other.id = line.id => other.call = c \/ SameKind(c, other.call)
=============================================================================

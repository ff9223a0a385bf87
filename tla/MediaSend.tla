------------------------------ MODULE MediaSend ------------------------------
(***************************************************************************)
(* A video of the phone on its whole way: MediaConfirm up to its body and  *)
(* its line in the queue, VideoSend from there.  What joins them is        *)
(* handleMediaSend of bridge_worker.mjs: it hands a video to delegateVideo *)
(* when its body is there, and sends everything else itself; both block    *)
(* the one send loop.  The video worker reads the body when it sends it.   *)
(***************************************************************************)
EXTENDS MediaConfirm

CONSTANTS
    None,              \* no message
    MaxDispatches, MaxVideoRestarts, MaxBridgeRestarts   \* bounds, see VideoSend

ASSUME MediaSendAssumption ==
    /\ None \notin Media /\ MaxDispatches \in Nat
    /\ MaxVideoRestarts \in Nat /\ MaxBridgeRestarts \in Nat

VARIABLES
    videos,   \* the messages that are videos
    \* the variables of VideoSend
    lines, waitFor, answered, outcome, videoIn, videoOut, videoUp, doneMem, doneDisk,
    at, cur, step, curOk, accepted, videoRestarts, bridgeRestarts

V == INSTANCE VideoSend WITH Videos <- Media

phoneSide == vars
bridgeSide == <<lines, waitFor, answered, outcome, videoIn, videoOut, videoUp, doneMem, doneDisk,
                at, cur, step, curOk, accepted, videoRestarts, bridgeRestarts>>
sendVars == <<phoneSide, bridgeSide, videos>>

BridgeStays == UNCHANGED <<bridgeSide, videos>>
PhoneStays  == UNCHANGED <<phoneSide, videos>>

SendInit == Init /\ V!Init /\ videos \in SUBSET Media

-----------------------------------------------------------------------------
\* The phone, the proxy and the content proxy; the send loop is not concerned.
PhoneSide ==
    /\ \/ \E m \in Media : SendMessage(m) \/ UploadOpen(m) \/ UploadWrite(m) \/ UploadDone(m)
       \/ Drain \/ Restart
    /\ BridgeStays

\* The send loop sends a picture or a voice message itself.
SendItself(m) ==
    /\ m \notin videos /\ waitFor = None
    /\ BridgeSend(m)
    /\ BridgeStays

\* A video whose body is there, at least in part, is handed over.
HandOver(m) ==
    /\ m \in videos /\ queue[m] > 0 /\ body[m] \in {"part", "whole"}
    /\ V!Delegate(m)
    /\ PhoneStays

\* The video worker sends what the file holds by then; not an empty one.
SendBody ==
    /\ V!SendVideo
    /\ IF accepted' = accepted
       THEN UNCHANGED delivered
       ELSE /\ body[cur] # "empty"
            /\ delivered' = [delivered EXCEPT ![cur] = @ \cup {body[cur]}]
    /\ UNCHANGED <<proxyVars, cdnVars, drainVars, unheard, errors, restarts, videos>>

\* The rest of the two loops.
VideoSide ==
    /\ \/ V!Answer \/ V!GiveUp \/ V!BridgeRestart
       \/ V!NextLine \/ V!RecordVideo \/ V!MarkVideo \/ V!VideoStop \/ V!VideoStart
    /\ PhoneStays

SendNext ==
    \/ PhoneSide \/ VideoSide \/ SendBody
    \/ \E m \in Media : SendItself(m) \/ HandOver(m)

\* As in the parts: drains, uploads, delegateVideo and the video worker go on.
SendSpec ==
    /\ SendInit /\ [][SendNext]_sendVars
    /\ WF_sendVars(Drain /\ BridgeStays)
    /\ WF_sendVars((\E m \in Media : UploadWrite(m) \/ UploadDone(m)) /\ BridgeStays)
    /\ WF_sendVars(V!Bridge /\ PhoneStays)
    /\ WF_sendVars(SendBody \/ ((V!NextLine \/ V!RecordVideo \/ V!MarkVideo) /\ PhoneStays))

-----------------------------------------------------------------------------
(* A restart of the video worker costs at most one video a second copy, also *)
(* when uploads repeat and a recovered line hands the video over again.      *)
ExtraCopies == V!ExtraCopies

(* A video handed over is tried in the end, even when the bridge gave up on  *)
(* it or restarted, or the video worker did: it runs again is all it takes.  *)
RequestServed == V!RequestServed
=============================================================================

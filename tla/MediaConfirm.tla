---------------------------- MODULE MediaConfirm ----------------------------
(***************************************************************************)
(* How a picture, a voice message or a video the phone sends becomes       *)
(* "sent" on its screen.  sendMessage is answered at once with an id and   *)
(* queued; the phone then uploads the body to cdn_proxy.py, which stores   *)
(* upload/<id>.bin and appends a line to upload_done.jsonl; a drain of     *)
(* legy_proxy.py turns new lines into SEND_CONTENT ops, and the bridge     *)
(* sends the body on as soon as it finds the file.                         *)
(***************************************************************************)
EXTENDS Naturals, Sequences, FiniteSets

CONSTANTS
    Media,         \* media messages of the phone
    MaxUploads,    \* bound: uploads of one body
    MaxErrors,     \* bound: steps whose append to a file fails
    MaxRestarts    \* bound: restarts of legy_proxy.py

ASSUME MediaAssumption ==
    /\ MaxUploads \in Nat /\ MaxErrors \in Nat /\ MaxRestarts \in Nat

VARIABLES
    sent,       \* messages in sent.jsonl
    queue,      \* lines for each message in send_queue.jsonl
    sentMedia,  \* _sent_media
    cdn,        \* the upload of each message
    uploads,    \* how many there were
    body,       \* upload/<id>.bin
    doneLines,  \* upload_done.jsonl
    pos,        \* _upload_done_pos
    size,       \* the size a drain took, 0 when none is under way
    contentOps, \* SEND_CONTENT ops made for each message
    delivered,  \* the bodies the bridge has sent to LINE
    unheard,    \* messages whose announcement or recovery failed since their last upload began
    errors, restarts

proxyVars == <<sent, queue, sentMedia>>
cdnVars   == <<cdn, uploads, body, doneLines>>
drainVars == <<pos, size, contentOps>>
vars == <<proxyVars, cdnVars, drainVars, delivered, unheard, errors, restarts>>

-----------------------------------------------------------------------------
Init ==
    /\ sent = {} /\ queue = [m \in Media |-> 0] /\ sentMedia = {}
    /\ cdn = [m \in Media |-> "idle"] /\ uploads = [m \in Media |-> 0]
    /\ body = [m \in Media |-> "none"] /\ doneLines = <<>>
    /\ pos = 0 /\ size = 0 /\ contentOps = [m \in Media |-> 0]
    /\ delivered = [m \in Media |-> {}] /\ unheard = {}
    /\ errors = 0 /\ restarts = 0

\* sendMessage with a content type: recorded, queued, remembered.  It is
\* answered all the same when the queue cannot be written.
SendMessage(m) ==
    /\ m \notin sent
    /\ sent' = sent \cup {m} /\ sentMedia' = sentMedia \cup {m}
    /\ \/ queue' = [queue EXCEPT ![m] = @ + 1] /\ UNCHANGED errors
       \/ errors < MaxErrors /\ errors' = errors + 1 /\ UNCHANGED queue
    /\ UNCHANGED <<cdnVars, drainVars, delivered, unheard, restarts>>

\* cdn_proxy: the file is opened, which empties it, ...
UploadOpen(m) ==
    /\ m \in sent /\ cdn[m] = "idle" /\ uploads[m] < MaxUploads
    /\ uploads' = [uploads EXCEPT ![m] = @ + 1]
    /\ cdn' = [cdn EXCEPT ![m] = "open"] /\ body' = [body EXCEPT ![m] = "empty"]
    /\ unheard' = unheard \ {m}
    /\ UNCHANGED <<proxyVars, doneLines, drainVars, delivered, errors, restarts>>

\* ... written, at once or piece by piece, ...
UploadWrite(m) ==
    /\ cdn[m] = "open"
    /\ \/ body' = [body EXCEPT ![m] = "whole"] /\ cdn' = [cdn EXCEPT ![m] = "written"]
       \/ /\ body[m] = "empty"
          /\ body' = [body EXCEPT ![m] = "part"] /\ UNCHANGED cdn
    /\ UNCHANGED <<proxyVars, uploads, doneLines, drainVars, delivered, unheard, errors, restarts>>

Fault == errors < MaxErrors /\ errors' = errors + 1

\* ... and announced; where that fails, the phone is answered 200 all the same.
UploadDone(m) ==
    /\ cdn[m] = "written" /\ cdn' = [cdn EXCEPT ![m] = "idle"]
    /\ \/ doneLines' = Append(doneLines, m) /\ UNCHANGED <<unheard, errors>>
       \/ Fault /\ unheard' = unheard \cup {m} /\ UNCHANGED doneLines
    /\ UNCHANGED <<proxyVars, uploads, body, drainVars, delivered, restarts>>

\* drain_upload_done takes the size of upload_done.jsonl ...
DrainSize ==
    /\ size = 0 /\ Len(doneLines) > pos
    /\ size' = Len(doneLines)
    /\ UNCHANGED <<proxyVars, cdnVars, pos, contentOps, delivered, unheard, errors, restarts>>

\* Mutant: a message forgotten in a restart is not looked up.
KnownInMemory(m) == m \in sentMedia

\* Is there a message for this line, in memory or in sent.jsonl?
Known(m) == m \in sentMedia \/ m \in sent

\* The new lines of a message, and those of them that do not find it in memory:
\* the first one makes the proxy forget it.
NewLines(m) == Cardinality({i \in (pos + 1)..Len(doneLines) : doneLines[i] = m})

Lookups(m) == IF m \in sentMedia THEN NewLines(m) - 1 ELSE NewLines(m)

\* Mutant: it is queued again without looking into the queue.
RequeuedAlways(m) == Lookups(m) > 0

\* _recover_sent_media queues a message again that is not in memory and has no
\* line in the queue.
Requeued(m) == Lookups(m) > 0 /\ queue[m] = 0

\* The position after a drain.
PosAfter == size

\* ... reads the new lines to the end of the file, and is done up to that size.
\* Each line of a message it knows makes a SEND_CONTENT op, but for those whose lookup
\* cannot read or append: they are passed over for good.
DrainLines ==
    /\ size > 0
    /\ \E failing \in [Media -> 0..MaxUploads] :
         LET found == {m \in Media : NewLines(m) > 0 /\ Known(m)}
             hit   == {m \in Media : failing[m] > 0}
         IN  /\ \A m \in hit : m \in found /\ failing[m] <= Lookups(m)
             /\ IF hit = {} THEN UNCHANGED errors ELSE Fault
             /\ contentOps' = [m \in Media |-> IF m \in found
                                               THEN contentOps[m] + (NewLines(m) - failing[m])
                                               ELSE contentOps[m]]
             /\ queue' = [m \in Media |->
                             IF m \in found /\ Requeued(m) /\ failing[m] < Lookups(m)
                             THEN queue[m] + 1 ELSE queue[m]]
             /\ sentMedia' = sentMedia \ found
             /\ unheard' = unheard \cup hit
    /\ pos' = PosAfter /\ size' = 0
    /\ UNCHANGED <<sent, cdnVars, delivered, restarts>>

\* legy_proxy starts again behind the lines there are.
Restart ==
    /\ restarts < MaxRestarts
    /\ restarts' = restarts + 1
    /\ sentMedia' = {} /\ pos' = Len(doneLines) /\ size' = 0
    /\ UNCHANGED <<sent, queue, cdnVars, contentOps, delivered, unheard, errors>>

\* handleMediaSend finds a file that is not empty and sends what it holds.
BridgeSend(m) ==
    /\ queue[m] > 0 /\ delivered[m] = {} /\ body[m] \in {"part", "whole"}
    /\ delivered' = [delivered EXCEPT ![m] = {body[m]}]
    /\ UNCHANGED <<proxyVars, cdnVars, drainVars, unheard, errors, restarts>>

-----------------------------------------------------------------------------
Drain == DrainSize \/ DrainLines

Next ==
    \/ \E m \in Media : \/ SendMessage(m) \/ UploadOpen(m) \/ UploadWrite(m)
                        \/ UploadDone(m) \/ BridgeSend(m)
    \/ Drain \/ Restart

Spec == Init /\ [][Next]_vars

\* The phone keeps polling, so the drains go on, and uploads come to their end.
FairSpec ==
    /\ Spec /\ WF_vars(Drain)
    /\ WF_vars(\E m \in Media : UploadWrite(m) \/ UploadDone(m))

-----------------------------------------------------------------------------
(* Every variable has its type, and no position points past the file.        *)
TypeOK ==
    /\ sent \subseteq Media /\ sentMedia \subseteq sent
    /\ queue \in [Media -> Nat] /\ contentOps \in [Media -> Nat]
    /\ cdn \in [Media -> {"idle", "open", "written"}]
    /\ uploads \in [Media -> 0..MaxUploads]
    /\ body \in [Media -> {"none", "empty", "part", "whole"}]
    /\ doneLines \in Seq(Media)
    /\ pos \in 0..Len(doneLines) /\ size \in 0..Len(doneLines)
    /\ delivered \in [Media -> SUBSET {"part", "whole"}] /\ unheard \subseteq Media
    /\ errors \in Nat /\ restarts \in Nat

(* A media message is in the queue at most once: the recovery after a restart *)
(* queues it again only when its line was never written.                     *)
QueuedOnce == \A m \in Media : queue[m] <= 1

(* A body uploaded after the last restart turns its message into "sent",     *)
(* even a message the proxy no longer has in memory, unless it could not be  *)
(* announced, or a message that is looked up not read or queued.             *)
UploadConfirmed ==
    \A m \in Media :
        (restarts = MaxRestarts /\ cdn[m] = "written") ~> (contentOps[m] > 0 \/ m \in unheard)
=============================================================================

------------------------------ MODULE PostWrite ------------------------------
(***************************************************************************)
(* What the phone posts: notes of a group through cdn_proxy.py             *)
(* (cafe_create_note, cafe_note_items) and timeline posts through          *)
(* legacy_timeline_rest.py (_create).  Both upload a picture the content   *)
(* proxy captured before, create the post at LINE, and remember in memory  *)
(* for ten minutes that they did, since the phone posts again what looks   *)
(* failed.  The notes keep no lock while they talk to LINE; the timeline   *)
(* holds its lock from the look at its memory to the end.  The list of     *)
(* notes is cached for five seconds.  Both services are threaded and       *)
(* restart apart from each other.                                          *)
(*                                                                         *)
(* A post has at most one picture; there is one group.  Whether LINE drops *)
(* a post whose ruid it knows is not visible in this code: it does not.    *)
(***************************************************************************)
EXTENDS Naturals, FiniteSets

CONSTANTS
    Posts,       \* what the phone posts, told apart by its text
    Requests,    \* the requests that can be served at a time
    None,        \* no post, no request, no list
    ListLife,    \* 5 s, the life of the cached list
    CreateLife,  \* 600 s, the life of a remembered creation and of a bucket
    MaxNow, MaxTries, MaxLists, MaxFaults, MaxRestarts   \* bounds

PostWriteAssumption ==
    /\ None \notin Posts \cup Requests
    /\ ListLife \in Nat \ {0} /\ CreateLife \in Nat \ {0} /\ ListLife < CreateLife

VARIABLES
    notes,      \* the posts that are notes; the others go to the timeline
    pictures,   \* the posts with a picture
    now,        \* the clock
    file,       \* the captured picture: "none", "torn" while it is written, "whole"
    req,        \* the requests being served
    listCache,  \* _cafe_note_cache of the group
    kept,       \* _cafe_create_cache: the post and when its request began
    oids,       \* _cafe_uploaded_oids: what the store has under the id it gave
    completed,  \* _completed: the post, its bucket, when that expires
    lock,       \* who holds _lock
    obs,        \* what the store has under the phone's own id of a picture
    posted,     \* the creations at LINE since the service started: when, which bucket
    bodies,     \* the pictures of all creations, "text" where there is none
    made,       \* when a post was created first
    told,       \* posts answered with success since their service started
    rewritten,  \* posts whose picture was captured again during a request
    tries, lists, faults, restarts   \* counters

noteVars == <<listCache, kept, oids>>
timeVars == <<completed, lock>>
lineVars == <<obs, posted, bodies, made>>
counters == <<tries, lists, faults, restarts>>
setting  == <<notes, pictures>>
vars == <<setting, now, file, req, noteVars, timeVars, lineVars, told, rewritten, counters>>

Idle == [pc |-> "idle", post |-> None, at |-> 0, bucket |-> 0, body |-> "text",
         known |-> {}, items |-> {}, off |-> {}, crossed |-> {}, bad |-> FALSE]

Serving(r, step) == req[r].pc = step
Goes(r, step) == [req[r] EXCEPT !.pc = step]
Busy(p) == \E r \in Requests : req[r].post = p
Service(p) == IF p \in notes THEN "cdn_proxy" ELSE "legy_proxy"
Made == {p \in Posts : bodies[p] # {}}

Init ==
    /\ notes \in SUBSET Posts /\ pictures \in SUBSET Posts
    /\ now = 0
    /\ file = [p \in Posts |-> "none"]
    /\ req = [r \in Requests |-> Idle]
    /\ listCache = None /\ kept = {}
    /\ oids = [p \in Posts |-> "none"]
    /\ completed = {} /\ lock = None
    /\ obs = [p \in Posts |-> "none"]
    /\ posted = [p \in Posts |-> {}] /\ bodies = [p \in Posts |-> {}]
    /\ made = [p \in Posts |-> 0]
    /\ told = {} /\ rewritten = {}
    /\ tries = [p \in Posts |-> 0] /\ lists = 0 /\ faults = 0 /\ restarts = 0

Tick ==
    /\ now < MaxNow /\ now' = now + 1
    /\ UNCHANGED <<setting, file, req, noteVars, timeVars, lineVars, told, rewritten, counters>>

-----------------------------------------------------------------------------
\* The picture, captured before the post and, when the phone tries again, once
\* more: the file is opened for writing, which empties it, and written.
Capture(p) ==
    /\ p \in pictures /\ file[p] # "torn" /\ tries[p] < MaxTries
    /\ file' = [file EXCEPT ![p] = "torn"]
    /\ rewritten' = IF Busy(p) THEN rewritten \cup {p} ELSE rewritten
    /\ UNCHANGED <<setting, now, req, noteVars, timeVars, lineVars, told, counters>>

Captured(p) ==
    /\ file[p] = "torn" /\ file' = [file EXCEPT ![p] = "whole"]
    /\ UNCHANGED <<setting, now, req, noteVars, timeVars, lineVars, told, rewritten, counters>>

-----------------------------------------------------------------------------
(* Creating a post *)

AfterUpload(p) == IF p \in notes THEN "create" ELSE "lock"
FirstStep(p) == IF p \in pictures THEN "read" ELSE AfterUpload(p)
Bucket(p) == IF p \in notes THEN 0 ELSE now \div CreateLife
AliveAsList(k) == now < k.at + ListLife   \* Mutant: the life of the list
Alive(k) == now < k.at + CreateLife

\* A request arrives.  A note that was created in the last ten minutes is answered
\* from memory; what is older is forgotten.  A timeline post goes on to its upload.
Remembered(p) == p \in notes /\ \E k \in kept : k.post = p /\ Alive(k)
Post(r, p) ==
    /\ Serving(r, "idle") /\ tries[p] < MaxTries
    /\ p \in pictures => file[p] = "whole"
    /\ tries' = [tries EXCEPT ![p] = @ + 1]
    /\ IF Remembered(p)
       THEN told' = told \cup {p} /\ UNCHANGED <<req, kept>>
       ELSE /\ kept' = IF p \in notes THEN {k \in kept : Alive(k)} ELSE kept
            /\ req' = [req EXCEPT ![r] =
                  [Idle EXCEPT !.pc = FirstStep(p), !.post = p, !.known = told,
                               !.at = now, !.bucket = Bucket(p)]]
            /\ UNCHANGED told
    /\ UNCHANGED <<setting, now, file, listCache, oids, timeVars, lineVars, rewritten, lists,
                   faults, restarts>>

\* What a read of the file can yield, and what of it is refused.
Body(p) == IF file[p] = "torn" THEN {"empty", "part"} ELSE {file[p]}

NeverRefused(body) == FALSE   \* Mutant: the length is not looked at
Refused(body) == body = "empty"

\* The picture is read.  For a note whose picture was
\* uploaded by this process, the id of that upload is taken.
ReadPicture(r, body) ==
    LET p == req[r].post IN
    /\ Serving(r, "read") /\ body \in Body(p)
    /\ req' = [req EXCEPT ![r] =
          IF Refused(body) THEN Idle
          ELSE IF p \in notes /\ oids[p] # "none"
               THEN [Goes(r, "create") EXCEPT !.body = oids[p]]
               ELSE [Goes(r, "upload") EXCEPT !.body = body]]
    /\ UNCHANGED <<setting, now, file, noteVars, timeVars, lineVars, told, rewritten, counters>>

\* The store gives a note's picture an id of its own.  It keeps what it has under an
\* id of the phone (_obs_exists, 423).
Stored(r) ==
    LET p == req[r].post IN
    obs' = IF p \notin notes /\ obs[p] = "none" THEN [obs EXCEPT ![p] = req[r].body] ELSE obs
UploadPicture(r) ==
    LET p == req[r].post IN
    /\ Serving(r, "upload") /\ Stored(r)
    /\ req' = [req EXCEPT ![r] =
                   [Goes(r, AfterUpload(p)) EXCEPT !.bucket = Bucket(p)]]
    /\ oids' = IF p \in notes THEN [oids EXCEPT ![p] = req[r].body] ELSE oids
    /\ UNCHANGED <<setting, now, file, listCache, kept, timeVars, posted, bodies, made, told,
                   rewritten, counters>>

\* The picture is stored, but the connection drops before the store says so.
UploadLost(r) ==
    /\ Serving(r, "upload") /\ Stored(r)
    /\ faults < MaxFaults /\ faults' = faults + 1
    /\ req' = [req EXCEPT ![r] = Idle]
    /\ UNCHANGED <<setting, now, file, noteVars, timeVars, posted, bodies, made, told,
                   rewritten, tries, lists, restarts>>

\* The timeline takes its lock, forgets what expired, and looks for the operation:
\* the same post in the same bucket of ten minutes.
TakeLock(r) ==
    LET live == {c \in completed : c.until > now}
        done == \E c \in live : c.post = req[r].post /\ c.bucket = req[r].bucket
    IN
    /\ Serving(r, "lock") /\ lock = None
    /\ completed' = live
    /\ IF done
       THEN /\ req' = [req EXCEPT ![r] = Idle]
            /\ told' = told \cup {req[r].post} /\ UNCHANGED lock
       ELSE /\ req' = [req EXCEPT ![r] = [Goes(r, "create") EXCEPT !.at = now]]
            /\ lock' = r /\ UNCHANGED told
    /\ UNCHANGED <<setting, now, file, noteVars, lineVars, rewritten, counters>>

\* LINE creates the post.
Create(r) ==
    LET p == req[r].post
        picture == IF p \in pictures \ notes THEN obs[p] ELSE req[r].body
    IN
    /\ Serving(r, "create")
    /\ req' = [req EXCEPT ![r] = Goes(r, "store")]
    /\ posted' = [posted EXCEPT ![p] = @ \cup {[at |-> req[r].at, bucket |-> req[r].bucket]}]
    /\ bodies' = [bodies EXCEPT ![p] = @ \cup {picture}]
    /\ made' = IF p \in Made THEN made ELSE [made EXCEPT ![p] = now]
    /\ UNCHANGED <<setting, now, file, noteVars, timeVars, obs, told, rewritten, counters>>

\* A request ends without a success: the upload or the creation is refused, the
\* answer of LINE is lost, or it holds no note that can be converted.
Fail(r) ==
    /\ req[r].pc \in {"upload", "create", "store"} /\ faults < MaxFaults
    /\ faults' = faults + 1
    /\ req' = [req EXCEPT ![r] = Idle]
    /\ lock' = IF lock = r THEN None ELSE lock
    /\ UNCHANGED <<setting, now, file, noteVars, completed, lineVars, told, rewritten, tries,
                   lists, restarts>>

\* What becomes of the cached list, and of lists on their way, when a note is stored.
DropList == listCache' = None
Crossed(p) == [r \in Requests |->
    IF req[r].pc \in {"fetch", "keep"} THEN [req[r] EXCEPT !.crossed = @ \cup {p}] ELSE req[r]]

\* The cached list is dropped, the creation remembered as of the request's begin, and the
\* answer leaves, whether the phone still waits or not.
StoreNote(r) ==
    LET p == req[r].post IN
    /\ Serving(r, "store") /\ p \in notes
    /\ DropList
    /\ kept' = {k \in kept : k.post # p} \cup {[post |-> p, at |-> req[r].at]}
    /\ told' = told \cup {p}
    /\ req' = [Crossed(p) EXCEPT ![r] = Idle]
    /\ UNCHANGED <<setting, now, file, oids, timeVars, lineVars, rewritten, counters>>

StorePost(r) ==
    LET p == req[r].post
        op == [post |-> p, bucket |-> req[r].bucket]
    IN
    /\ Serving(r, "store") /\ p \notin notes
    /\ completed' = {c \in completed : [post |-> c.post, bucket |-> c.bucket] # op}
                    \cup {[post |-> p, bucket |-> req[r].bucket, until |-> req[r].at + CreateLife]}
    /\ lock' = None
    /\ told' = told \cup {p}
    /\ req' = [req EXCEPT ![r] = Idle]
    /\ UNCHANGED <<setting, now, file, noteVars, lineVars, rewritten, counters>>

-----------------------------------------------------------------------------
(* The list of notes *)

\* A list is asked for: the cached one, or one is fetched as of now.
FromCache(c) == [Idle EXCEPT !.pc = "list", !.items = c.items, !.off = c.off,
                             !.crossed = c.crossed, !.bad = c.bad]
List(r) ==
    LET fresh == listCache # None /\ now < listCache.at + ListLife IN
    /\ Serving(r, "idle") /\ lists < MaxLists /\ lists' = lists + 1
    /\ req' = [req EXCEPT ![r] =
          [(IF fresh THEN FromCache(listCache) ELSE [Idle EXCEPT !.pc = "fetch"])
             EXCEPT !.at = now, !.known = told]]
    /\ UNCHANGED <<setting, now, file, noteVars, timeVars, lineVars, told, rewritten, tries,
                   faults, restarts>>

\* LINE answers with the newest 20 notes (postLimit), or the list stays empty.  That
\* others wrote so many newer ones is bounded as a fault is.
Written == Made \cap notes
Fetch(r) ==
    /\ Serving(r, "fetch")
    /\ \/ \E off \in SUBSET Written :
          /\ req' = [req EXCEPT ![r] =
                [Goes(r, "keep") EXCEPT !.items = Written \ off, !.off = off]]
          /\ faults' = IF off = {} THEN faults ELSE faults + 1
          /\ faults' <= MaxFaults
       \/ /\ req' = [req EXCEPT ![r] = [Goes(r, "keep") EXCEPT !.bad = TRUE]]
          /\ faults < MaxFaults /\ faults' = faults + 1
    /\ UNCHANGED <<setting, now, file, noteVars, timeVars, lineVars, told, rewritten, tries,
                   lists, restarts>>

\* What was fetched, the empty list too, is cached with the time the fetch began.
KeepList(r) ==
    /\ Serving(r, "keep")
    /\ listCache' = [at |-> req[r].at, items |-> req[r].items, off |-> req[r].off,
                     crossed |-> req[r].crossed, bad |-> req[r].bad]
    /\ req' = [req EXCEPT ![r] = Goes(r, "list")]
    /\ UNCHANGED <<setting, now, file, kept, oids, timeVars, lineVars, told, rewritten,
                   counters>>

Show(r) ==
    /\ Serving(r, "list") /\ req' = [req EXCEPT ![r] = Idle]
    /\ UNCHANGED <<setting, now, file, noteVars, timeVars, lineVars, told, rewritten, counters>>

\* A comment or a like drops the cached list as well.
Touch ==
    /\ listCache # None /\ listCache' = None
    /\ UNCHANGED <<setting, now, file, req, kept, oids, timeVars, lineVars, told, rewritten,
                   counters>>

-----------------------------------------------------------------------------
\* A service restarts.  A capture it was in the middle of stays torn until the phone
\* sends the picture again.
Restart(service) ==
    LET its == {p \in Posts : Service(p) = service}
        proxy == service = "cdn_proxy"
    IN
    /\ restarts < MaxRestarts /\ restarts' = restarts + 1
    /\ req' = [r \in Requests |->
                  IF req[r].post \in its \/ (proxy /\ req[r].post = None) THEN Idle ELSE req[r]]
    /\ IF proxy
       THEN /\ listCache' = None /\ kept' = {} /\ oids' = [p \in Posts |-> "none"]
            /\ UNCHANGED timeVars
       ELSE completed' = {} /\ lock' = None /\ UNCHANGED noteVars
    /\ told' = told \ its
    /\ posted' = [p \in Posts |-> IF p \in its THEN {} ELSE posted[p]]
    /\ UNCHANGED <<setting, now, file, obs, bodies, made, rewritten, tries, lists, faults>>

Next ==
    \/ Tick \/ Touch
    \/ \E p \in Posts : Capture(p) \/ Captured(p)
    \/ \E r \in Requests :
          \/ \E p \in Posts : Post(r, p)
          \/ \E body \in {"empty", "part", "whole"} : ReadPicture(r, body)
          \/ UploadPicture(r) \/ UploadLost(r) \/ TakeLock(r) \/ Create(r) \/ Fail(r)
          \/ StoreNote(r) \/ StorePost(r)
          \/ List(r) \/ Fetch(r) \/ KeepList(r) \/ Show(r)
    \/ \E service \in {"cdn_proxy", "legy_proxy"} : Restart(service)

Spec == Init /\ [][Next]_vars

-----------------------------------------------------------------------------
(* A request that begins after a success was answered for its post does not  *)
(* create it again, unless ten minutes went by since one of the creations    *)
(* began, or the clock went into the next bucket of ten minutes: the cache   *)
(* of cafe_create_note and _completed, with requests side by side.           *)
NoSecondCopyStep ==
    \A r \in Requests :
        LET p == req[r].post IN
        Serving(r, "create") /\ req'[r].pc = "store" /\ p \in req[r].known =>
           \E c \in posted[p] : \/ req[r].at >= c.at + CreateLife
                                \/ p \notin notes /\ c.bucket # req[r].bucket
NoSecondCopy == [][NoSecondCopyStep]_vars

(* A list of notes that could be fetched leaves out a note only if 20 newer  *)
(* ones pushed it off, or if it was created less than five seconds before    *)
(* the list was asked for, and a note that had been answered with success    *)
(* only if the fetch was under way when it was stored: cafe_note_items and   *)
(* the pops of its cache.                                                    *)
ListsFresh ==
    \A r \in Requests : Serving(r, "list") /\ ~req[r].bad =>
        \A p \in Written \ (req[r].items \cup req[r].off) :
            /\ req[r].at < made[p] + ListLife
            /\ p \in req[r].known => p \in req[r].crossed

(* What was answered with success is at LINE, with its picture, and that is  *)
(* whole unless the phone sent the picture again while a request for the     *)
(* post was served: the store keeps what it got first.                       *)
ToldIsStored ==
    \A p \in told :
        /\ bodies[p] # {}
        /\ p \in pictures => /\ "text" \notin bodies[p] /\ bodies[p] \subseteq {"part", "whole"}
                             /\ p \notin rewritten => bodies[p] = {"whole"}
=============================================================================

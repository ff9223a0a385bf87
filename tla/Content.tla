------------------------------- MODULE Content -------------------------------
(***************************************************************************)
(* What cdn_proxy.py and its neighbours keep: the posts of the phone, the  *)
(* cache of videos, the copies of other files, the media the phone sends.  *)
(* They share no state, so a behaviour is about one of them, its scene;    *)
(* the variables of the others are "off".                                  *)
(***************************************************************************)
EXTENDS Naturals

CONSTANTS
    Posts, Threads, Videos,   \* the threads serve the requests, too
    None, ListLife, CreateLife, MaxNow, MaxTries, MaxLists, MaxFaults, MaxRestarts,
    Budget, MaxAsks, MaxWrites, MaxLookups,
    Media, MaxUploads, MaxErrors, MaxDispatches, MaxVideoRestarts, MaxBridgeRestarts

VARIABLES
    scene,
    notes, pictures, now, req, listCache, kept, oids, completed, lock, obs, posted, bodies,
    made, told, rewritten, tries, lists,
    captured, uploading, sidecar, thumb, thread, short, met, cut, tornServed, asks,
    copyOf, source, copy, look, loadsMet, emptied, failed, stale, lookups, readFaults,
    sent, queue, sentMedia, cdn, uploads, body, doneLines, pos, size, contentOps, delivered,
    unheard, errors, videos, lines, waitFor, answered, outcome, videoIn, videoOut, videoUp, doneMem,
    doneDisk, at, cur, step, curOk, accepted, videoRestarts, bridgeRestarts,
    file, crossed, faults, restarts   \* in more than one scene

P == INSTANCE PostWrite WITH Requests <- Threads
V == INSTANCE VideoCache
S == INSTANCE SnapshotCache
M == INSTANCE MediaSend

ASSUME ContentAssumption ==
    /\ P!PostWriteAssumption /\ V!VideoCacheAssumption /\ S!SnapshotCacheAssumption
    /\ M!MediaAssumption /\ M!MediaSendAssumption

postVars  == <<notes, pictures, now, req, listCache, kept, oids, completed, lock, obs, posted,
               bodies, made, told, rewritten, tries, lists>>
videoVars == <<captured, uploading, sidecar, thumb, thread, short, met, cut, tornServed, asks>>
copyVars  == <<copyOf, source, copy, look, loadsMet, emptied, failed, stale, lookups,
               readFaults>>
sendVars  == <<sent, queue, sentMedia, cdn, uploads, body, doneLines, pos, size, contentOps,
               delivered, unheard, errors, videos, lines, waitFor, answered, outcome, videoIn, videoOut,
               videoUp, doneMem, doneDisk, at, cur, step, curOk, accepted, videoRestarts,
               bridgeRestarts>>
vars == <<scene, postVars, videoVars, copyVars, sendVars, file, crossed, faults, restarts>>

PostsOff ==
    /\ notes = "off" /\ pictures = "off" /\ now = "off" /\ req = "off" /\ listCache = "off"
    /\ kept = "off" /\ oids = "off" /\ completed = "off" /\ lock = "off" /\ obs = "off"
    /\ posted = "off" /\ bodies = "off" /\ made = "off" /\ told = "off" /\ rewritten = "off"
    /\ tries = "off" /\ lists = "off"
VideosOff ==
    /\ captured = "off" /\ uploading = "off" /\ sidecar = "off" /\ thumb = "off"
    /\ thread = "off" /\ short = "off" /\ met = "off" /\ cut = "off" /\ tornServed = "off"
    /\ asks = "off"
CopiesOff ==
    /\ copyOf = "off" /\ source = "off" /\ copy = "off" /\ look = "off" /\ loadsMet = "off"
    /\ emptied = "off" /\ failed = "off" /\ stale = "off" /\ lookups = "off"
    /\ readFaults = "off"
SendsOff ==
    /\ sent = "off" /\ queue = "off" /\ sentMedia = "off" /\ cdn = "off" /\ uploads = "off"
    /\ body = "off" /\ doneLines = "off" /\ pos = "off" /\ size = "off" /\ contentOps = "off"
    /\ delivered = "off" /\ unheard = "off" /\ errors = "off" /\ videos = "off"
    /\ lines = "off" /\ waitFor = "off"
    /\ answered = "off" /\ outcome = "off" /\ videoIn = "off" /\ videoOut = "off"
    /\ videoUp = "off" /\ doneMem = "off" /\ doneDisk = "off" /\ at = "off" /\ cur = "off"
    /\ step = "off" /\ curOk = "off" /\ accepted = "off" /\ videoRestarts = "off"
    /\ bridgeRestarts = "off"

Init ==
    \/ scene = "posts"  /\ P!Init /\ VideosOff /\ CopiesOff /\ SendsOff /\ crossed = "off"
    \/ scene = "videos" /\ V!Init /\ PostsOff /\ CopiesOff /\ SendsOff
    \/ /\ scene = "copies" /\ S!Init /\ PostsOff /\ VideosOff /\ SendsOff
       /\ file = "off" /\ faults = "off" /\ restarts = "off"
    \/ /\ scene = "sends" /\ M!SendInit /\ PostsOff /\ VideosOff /\ CopiesOff
       /\ file = "off" /\ crossed = "off" /\ faults = "off"

Next ==
    \/ scene = "posts"  /\ P!Next /\ UNCHANGED <<scene, videoVars, copyVars, sendVars, crossed>>
    \/ scene = "videos" /\ V!Next /\ UNCHANGED <<scene, postVars, copyVars, sendVars>>
    \/ /\ scene = "copies" /\ S!Next
       /\ UNCHANGED <<scene, postVars, videoVars, sendVars, file, faults, restarts>>
    \/ /\ scene = "sends" /\ M!SendNext
       /\ UNCHANGED <<scene, postVars, videoVars, copyVars, file, crossed, faults>>

Spec == Init /\ [][Next]_vars

\* The properties of the parts, each in its scene: ListsFresh and LookupIsFresh say that
\* what is shown from memory is as new as promised, for the lists of notes and for the
\* copies of files (cafe_note_items, maybe_reload_profile and the like).
LookupIsFresh ==
    /\ scene = "posts"  => P!ListsFresh
    /\ scene = "copies" => S!LookupIsFresh

\* What was answered with success is at LINE, whole (cafe_create_note, _create).
ToldIsStored == scene = "posts" => P!ToldIsStored

\* A success that was answered is not created again (cafe_create_note, _create).
NoSecondCopyStep == scene = "posts" => P!NoSecondCopyStep
NoSecondCopy == [][NoSecondCopyStep]_vars

\* Videos are played whole and the cache is sound when nobody works on it
\* (_video_url, _trim_rts_cache).
VideosSound == scene = "videos" => V!ServedWhole /\ V!CacheSound

\* A media message is in the queue once, also when the proxy has to recover it
\* (_recover_sent_media).
QueuedOnce == scene = "sends" => M!QueuedOnce

\* A restart of the video worker costs at most one video a second copy, also when uploads
\* repeat and a recovered line hands the video over again (video_worker.mjs).
ExtraCopies == scene = "sends" => M!ExtraCopies
=============================================================================

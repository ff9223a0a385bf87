----------------------------- MODULE VideoCache ------------------------------
(***************************************************************************)
(* The videos of notes and of the timeline that cdn_proxy.py keeps on disk *)
(* to play them (_video_url, _ensure_cafe_video_local), their thumbnails   *)
(* and the limit on what they take (_trim_rts_cache).  The server is       *)
(* threaded and none of this takes a lock: two threads that miss the same  *)
(* video write the same .part, one of them renames it, and the other goes  *)
(* on writing into what is served by then.                                 *)
(*                                                                         *)
(* A video the phone captured is copied from upload/<oid>.bin, which the   *)
(* phone may be uploading anew, in place.                                  *)
(*                                                                         *)
(* A file is an inode: writing continues in it after a rename.  A video    *)
(* has two regions and takes one unit of the limit.  The oldest body is    *)
(* dropped first; which one that is, is left open here.                    *)
(***************************************************************************)
EXTENDS Naturals, FiniteSets, FiniteSetsExt

CONSTANTS
    Videos,      \* the object ids
    Threads,     \* the threads of the server
    None,        \* no file, no video
    Budget,      \* _RTS_CACHE_BYTES, in videos
    MaxAsks, MaxFaults, MaxRestarts   \* bounds

VideoCacheAssumption ==
    /\ IsFiniteSet(Videos) /\ None \notin Videos /\ \A regions \in SUBSET {1, 2} : None # regions
    /\ Budget \in Nat \ {0}
    /\ MaxAsks \in Nat /\ MaxFaults \in Nat /\ MaxRestarts \in Nat

VARIABLES
    captured,   \* the videos the phone uploaded itself: copied, not fetched
    uploading,  \* those whose upload/<oid>.bin is not whole at the moment
    file,       \* per video its ".part" and its body: None or the regions written
    sidecar,    \* per video the ".json": "none", "torn", "good"
    thumb,      \* per video its thumbnail: "none", "torn", "whole"
    thread,     \* what each thread does
    short,      \* videos copied while their upload was not whole
    met,        \* videos two fills of which were under way at a time
    cut,        \* videos a fill, a trim or a render of which was cut short
    crossed,    \* videos stored while a trim had them among its victims
    tornServed, \* videos that were served in part
    asks, faults, restarts   \* counters

sources  == <<captured, uploading>>
history  == <<short, met, cut, crossed, tornServed>>
counters == <<asks, faults, restarts>>
vars == <<sources, file, sidecar, thumb, thread, history, counters>>

Whole == {1, 2}
Idle  == [pc |-> "idle", oid |-> None, why |-> "url", fd |-> "gone",
          victims |-> {}, victim |-> None]

Init ==
    /\ captured \in SUBSET Videos /\ uploading = {}
    /\ file = [v \in Videos |-> [part |-> None, body |-> None]]
    /\ sidecar = [v \in Videos |-> "none"] /\ thumb = [v \in Videos |-> "none"]
    /\ thread = [t \in Threads |-> Idle]
    /\ short = {} /\ met = {} /\ cut = {} /\ crossed = {} /\ tornServed = {}
    /\ asks = 0 /\ faults = 0 /\ restarts = 0

At(t, pc) == thread[t].pc = pc
Oid(t)    == thread[t].oid
Filling(t, v) == Oid(t) = v /\ thread[t].pc \in {"write1", "write2", "replace"}

\* What follows when the local copy is there, or cannot be had.
Done(t) == IF thread[t].why = "thumb" /\ file[Oid(t)].body # None
           THEN [Idle EXCEPT !.pc = "render", !.oid = Oid(t), !.why = "thumb"] ELSE Idle

\* The handles of video v after its files moved: the old name of each to the new.
Handles(v, th, moved) ==
    [t \in Threads |-> IF th[t].oid = v /\ th[t].fd \in DOMAIN moved
                       THEN [th[t] EXCEPT !.fd = moved[@]] ELSE th[t]]

-----------------------------------------------------------------------------
\* _video_url or the maker of thumbnails looks for the body.
Ask(t, v, why) ==
    /\ At(t, "idle") /\ asks < MaxAsks /\ asks' = asks + 1
    /\ why = "thumb" => thumb[v] = "none"
    /\ LET miss == file[v].body = None IN
       thread' = [thread EXCEPT ![t] =
           IF miss THEN [Idle EXCEPT !.pc = "fetch", !.oid = v, !.why = why]
           ELSE IF why = "thumb" THEN [Idle EXCEPT !.pc = "render", !.oid = v, !.why = why]
           ELSE Idle]
    /\ UNCHANGED <<sources, file, sidecar, thumb, history, faults, restarts>>

NameInPlace == "body"   \* Mutant: the body is written under its own name
PartName == "part"

\* The video is there; its file is opened for writing, which empties it.
Fetch(t) ==
    LET v == Oid(t) IN
    /\ At(t, "fetch")
    /\ file' = [file EXCEPT ![v][PartName] = {}]
    /\ thread' = [thread EXCEPT ![t].pc = "write1", ![t].fd = PartName]
    /\ met' = IF \E u \in Threads : Filling(u, v) THEN met \cup {v} ELSE met
    /\ UNCHANGED <<sources, sidecar, thumb, short, cut, crossed, tornServed, counters>>

\* LINE does not have it: the phone is promised a video all the same.
FetchFails(t) ==
    /\ At(t, "fetch") /\ Oid(t) \notin captured
    /\ faults < MaxFaults /\ faults' = faults + 1
    /\ thread' = [thread EXCEPT ![t] = Idle]
    /\ UNCHANGED <<sources, file, sidecar, thumb, history, asks, restarts>>

Written(t, region) ==
    IF thread[t].fd = "gone" THEN file
    ELSE [file EXCEPT ![Oid(t)][thread[t].fd] = @ \cup {region}]
Write(t) ==
    /\ \/ At(t, "write1") /\ file' = Written(t, 1) /\ thread' = [thread EXCEPT ![t].pc = "write2"]
       \/ At(t, "write2") /\ file' = Written(t, 2) /\ thread' = [thread EXCEPT ![t].pc = "replace"]
    /\ UNCHANGED <<sources, sidecar, thumb, history, counters>>

\* The copy of a captured video ends where its file ends.
CopyEnds(t) ==
    /\ thread[t].pc \in {"write1", "write2"} /\ Oid(t) \in uploading
    /\ thread' = [thread EXCEPT ![t].pc = "replace"]
    /\ short' = short \cup {Oid(t)}
    /\ UNCHANGED <<sources, file, sidecar, thumb, met, cut, crossed, tornServed, counters>>

\* The phone uploads the video again: its file is opened, which empties it, and written.
\* One that a restart cut short stays so until the next upload.
Upload(v) ==
    /\ v \in captured
    /\ \/ /\ v \notin uploading /\ uploading' = uploading \cup {v}
          /\ faults < MaxFaults /\ faults' = faults + 1
       \/ v \in uploading /\ uploading' = uploading \ {v} /\ UNCHANGED faults
    /\ UNCHANGED <<captured, file, sidecar, thumb, thread, history, asks, restarts>>

\* The disk is full.  The maker of thumbnails removes the .part, whoever writes it;
\* _video_url leaves it, and its caller without an answer.
WriteFails(t) ==
    LET v == Oid(t)
        tidies == thread[t].why = "thumb" /\ file[v].part # None
        idle == [thread EXCEPT ![t] = Idle] IN
    /\ thread[t].pc \in {"write1", "write2"}
    /\ faults < MaxFaults /\ faults' = faults + 1
    /\ file' = IF tidies THEN [file EXCEPT ![v].part = None] ELSE file
    /\ thread' = IF tidies THEN Handles(v, idle, [part |-> "gone"]) ELSE idle
    /\ cut' = cut \cup {v}
    /\ UNCHANGED <<sources, sidecar, thumb, short, met, crossed, tornServed, asks, restarts>>

\* os.replace.  There may be no .part any more: an exception ends the request.
Replace(t) ==
    LET v == Oid(t) IN
    /\ At(t, "replace")
    /\ IF file[v].part = None
       THEN /\ thread' = [thread EXCEPT ![t] = Idle]
            /\ UNCHANGED <<file, crossed>>
       ELSE /\ file' = [file EXCEPT ![v] = [part |-> None, body |-> @.part]]
            /\ thread' = [Handles(v, thread, [part |-> "body", body |-> "gone"])
                             EXCEPT ![t].pc = "sidecar", ![t].fd = "gone"]
            /\ crossed' = IF \E u \in Threads : v \in thread[u].victims
                          THEN crossed \cup {v} ELSE crossed
    /\ UNCHANGED <<sources, sidecar, thumb, short, met, cut, tornServed, counters>>

\* The sidecar, with the size of the body: of the file, which may be gone, or of what
\* was fetched for _video_url.
Sidecar(t) ==
    LET v == Oid(t)
        asksDisk == thread[t].why = "thumb" \/ v \in captured
        fails == asksDisk /\ file[v].body = None IN
    /\ At(t, "sidecar")
    /\ sidecar' = [sidecar EXCEPT ![v] = IF fails THEN "torn" ELSE "good"]
    /\ thread' = [thread EXCEPT ![t] = IF fails THEN Idle ELSE [@ EXCEPT !.pc = "trim"]]
    /\ UNCHANGED <<sources, file, thumb, history, counters>>

-----------------------------------------------------------------------------
\* _trim_rts_cache: what has a sidecar is counted, and what is over the limit goes.
Counted == {v \in Videos : sidecar[v] = "good" /\ file[v].body # None}
Trim(t) ==
    /\ At(t, "trim")
    /\ IF Cardinality(Counted) <= Budget
       THEN thread' = [thread EXCEPT ![t] = Done(t)]
       ELSE \E vs \in kSubset(Cardinality(Counted) - Budget, Counted) :
               thread' = [thread EXCEPT ![t].pc = "drop", ![t].victims = vs]
    /\ UNCHANGED <<sources, file, sidecar, thumb, history, counters>>

DropBody(t, v) ==
    /\ At(t, "drop") /\ v \in thread[t].victims
    /\ file' = [file EXCEPT ![v].body = None]
    /\ thread' = [Handles(v, thread, [body |-> "gone"])
                     EXCEPT ![t].pc = "dropSidecar", ![t].victim = v]
    /\ UNCHANGED <<sources, sidecar, thumb, history, counters>>

DropSidecar(t) ==
    LET v == thread[t].victim
        rest == thread[t].victims \ {v} IN
    /\ At(t, "dropSidecar")
    /\ sidecar' = [sidecar EXCEPT ![v] = "none"]
    /\ thread' = [thread EXCEPT ![t] =
           IF rest = {} THEN Done(t) ELSE [@ EXCEPT !.pc = "drop", !.victims = rest]]
    /\ UNCHANGED <<sources, file, thumb, history, counters>>

-----------------------------------------------------------------------------
\* ffmpeg takes the first picture of the body, when that is still there, and writes
\* the thumbnail where it is looked for.  It may be stopped before it is done.
Render(t) ==
    LET v == Oid(t) IN
    /\ \/ /\ At(t, "render") /\ file[v].body # None
          /\ thumb' = [thumb EXCEPT ![v] = "torn"]
          /\ thread' = [thread EXCEPT ![t].pc = "rendering"]
       \/ /\ At(t, "render") /\ file[v].body = None
          /\ thread' = [thread EXCEPT ![t] = Idle] /\ UNCHANGED thumb
       \/ /\ At(t, "rendering")
          /\ thumb' = [thumb EXCEPT ![v] = "whole"]
          /\ thread' = [thread EXCEPT ![t] = Idle]
    /\ UNCHANGED <<sources, file, sidecar, history, counters>>

RenderFails(t) ==
    /\ At(t, "rendering") /\ faults < MaxFaults /\ faults' = faults + 1
    /\ thread' = [thread EXCEPT ![t] = Idle]
    /\ cut' = cut \cup {Oid(t)}
    /\ UNCHANGED <<sources, file, sidecar, thumb, short, met, crossed, tornServed, asks, restarts>>

\* serve_media: whatever the body holds goes to the player.
Serve(v) ==
    /\ file[v].body # None
    /\ tornServed' = IF file[v].body = Whole THEN tornServed ELSE tornServed \cup {v}
    /\ UNCHANGED <<sources, file, sidecar, thumb, thread, short, met, cut, crossed, counters>>

Restart ==
    /\ restarts < MaxRestarts /\ restarts' = restarts + 1
    /\ cut' = cut \cup UNION {{Oid(t)} \cup thread[t].victims :
                              t \in {u \in Threads : ~At(u, "idle")}}
    /\ thread' = [t \in Threads |-> Idle]
    /\ UNCHANGED <<sources, file, sidecar, thumb, short, met, crossed, tornServed, asks, faults>>

Next ==
    \/ Restart
    \/ \E t \in Threads :
          \/ Fetch(t) \/ FetchFails(t) \/ Write(t) \/ CopyEnds(t) \/ WriteFails(t) \/ Replace(t)
          \/ Sidecar(t) \/ Trim(t) \/ DropSidecar(t) \/ Render(t) \/ RenderFails(t)
          \/ \E v \in Videos : DropBody(t, v) \/ \E why \in {"url", "thumb"} : Ask(t, v, why)
    \/ \E v \in Videos : Upload(v) \/ Serve(v)

Spec == Init /\ [][Next]_vars

-----------------------------------------------------------------------------
\* A player gets a whole body.  The exceptions are two fills of one video at a time: they
\* share the ".part", and what the first renames the second still writes; and a captured
\* video that was copied while the phone uploaded it anew, which is kept for good.
ServedWhole == tornServed \subseteq met \cup short

\* When nobody is at work, every body is whole, has the sidecar that makes it count
\* against the limit, and no thumbnail is torn.  The exceptions are lasting: the body is
\* never fetched again while the file exists.  They are two fills that met and one of
\* which was cut, a copy of an upload that was not whole, a stop between body and
\* sidecar, and a trim that removes the sidecar of a body stored after it removed the
\* old one.  What counts is within the limit, unless a stop kept a trim from running.
CacheSound ==
    (\A t \in Threads : At(t, "idle")) =>
        /\ \A v \in Videos :
              /\ file[v].body \in {None, Whole} \/ v \in (met \cap cut) \cup short
              /\ file[v].body = None \/ sidecar[v] = "good" \/ v \in cut \cup crossed
              /\ thumb[v] = "torn" => v \in cut
        /\ Cardinality(Counted) <= Budget \/ cut # {}
=============================================================================

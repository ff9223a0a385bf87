---------------------------- MODULE ContentProofs -----------------------------
(***************************************************************************)
(* Proofs about Content: the videos, the copies of files, the posts, the   *)
(* media, and then all of them together.                                   *)
(***************************************************************************)
EXTENDS Content, Sequences, FiniteSets, FiniteSetTheorems, TLAPS

-----------------------------------------------------------------------------
(* The videos: for any number of threads and videos, what is served is whole  *)
(* unless two fills of the video met or its upload was not whole when it was  *)
(* copied, and the cache is sound when nobody works on it.                    *)

Regions == {None} \cup SUBSET V!Whole
VideoFile == [part : Regions, body : Regions]
Worker == [pc : {"idle", "fetch", "write1", "write2", "replace", "sidecar", "trim", "drop",
                 "dropSidecar", "render", "rendering"},
           oid : Videos \cup {None}, why : {"url", "thumb"}, fd : {"part", "body", "gone"},
           victims : SUBSET Videos, victim : Videos \cup {None}]

(* A handle is open while a thread fills, and on a file that is there.      *)
Handle(t) ==
    thread[t].fd # "gone" => /\ thread[t].pc \in {"write1", "write2", "replace"}
                             /\ file[V!Oid(t)][thread[t].fd] # None

VideoTypes ==
    /\ file \in [Videos -> VideoFile]
    /\ sidecar \in [Videos -> {"none", "torn", "good"}]
    /\ thumb \in [Videos -> {"none", "torn", "whole"}]
    /\ thread \in [Threads -> Worker]
    /\ \A t \in Threads : (~V!At(t, "idle") => V!Oid(t) \in Videos) /\ Handle(t)

(* A video copied whole, two fills of which never met, has one that writes   *)
(* to its .part.                                                            *)
FillIsSound(t, v) ==
    /\ thread[t].fd = "part"
    /\ V!At(t, "write1")  => file[v].part = {}
    /\ V!At(t, "write2")  => file[v].part = {1}
    /\ V!At(t, "replace") => file[v].part = V!Whole
AloneInv == \A v \in Videos \ (met \cup short) :
    /\ \A t, u \in Threads : V!Filling(t, v) /\ V!Filling(u, v) => t = u
    /\ \A t \in Threads : V!Filling(t, v) => FillIsSound(t, v)
    /\ file[v].body \in {None, V!Whole}

(* A file that is not whole has a thread that still writes all it lacks.    *)
Completes(t, v, name) ==
    /\ V!Oid(t) = v /\ thread[t].fd = name
    /\ V!At(t, "write1") \/ (V!At(t, "write2") /\ 1 \in file[v][name])
PartGrows(v) == file[v].part \in {None, V!Whole} \/ \E t \in Threads : Completes(t, v, "part")
BodyGrows(v) == file[v].body \in {None, V!Whole} \/ \E t \in Threads : Completes(t, v, "body")
WholeInv == \A v \in Videos \ (cut \cup short) : PartGrows(v) /\ BodyGrows(v)

(* A body has its sidecar, or the thread that stored it is about to write   *)
(* one; a trim removes the sidecar of a body that is gone.                  *)
Noted(v) == sidecar[v] = "good" \/ \E t \in Threads : V!At(t, "sidecar") /\ V!Oid(t) = v
SidecarInv ==
    /\ \A v \in Videos \ (cut \cup crossed) : file[v].body = None \/ Noted(v)
    /\ \A t \in Threads : V!At(t, "dropSidecar") =>
          /\ thread[t].victim \in thread[t].victims
          /\ thread[t].victim \in crossed \/ file[thread[t].victim].body = None

(* A thumbnail that is torn is being written.                               *)
ThumbInv == \A v \in Videos \ cut :
    thumb[v] = "torn" => \E t \in Threads : V!At(t, "rendering") /\ V!Oid(t) = v

(* What is over the limit is about to be counted, or to go.                 *)
Late == {V!Oid(t) : t \in {u \in Threads : V!At(u, "sidecar")}}
Drops(t) == /\ thread[t].pc \in {"drop", "dropSidecar"}
            /\ Cardinality((V!Counted \ Late) \ thread[t].victims) <= Budget
TrimInv == cut = {} =>
    \/ \E t \in Threads : V!At(t, "trim")
    \/ Cardinality(V!Counted \ Late) <= Budget
    \/ \E t \in Threads : Drops(t)

VideoInv ==
    /\ VideoTypes /\ AloneInv /\ WholeInv /\ SidecarInv /\ ThumbInv /\ TrimInv
    /\ tornServed \subseteq met \cup short

LEMMA VideoInit ==
    ASSUME V!VideoCacheAssumption, V!Init
    PROVE  VideoInv
<1>1. VideoTypes
  BY DEF V!Init, VideoTypes, V!Idle, VideoFile, Regions, Worker, V!At, V!Oid, Handle
<1>2. /\ \A t \in Threads : V!At(t, "idle")
      /\ \A v \in Videos : file[v].part = None /\ file[v].body = None /\ thumb[v] = "none"
  BY DEF V!Init, V!At, V!Idle
<1>3. AloneInv /\ WholeInv /\ SidecarInv /\ ThumbInv
  BY <1>2 DEF AloneInv, WholeInv, SidecarInv, ThumbInv, V!Filling, V!At, PartGrows, BodyGrows
<1>4. TrimInv
  <2>1. V!Counted \ Late = {}
    BY <1>2 DEF V!Counted
  <2>2. Cardinality({}) = 0
    BY FS_EmptySet
  <2>3. QED
    BY <2>1, <2>2 DEF TrimInv, V!VideoCacheAssumption
<1>5. QED
  BY <1>1, <1>3, <1>4 DEF VideoInv, V!Init

(* What the steps of thread t that open and close no handle keep.           *)
LEMMA FillsStay ==
    ASSUME VideoTypes, AloneInv, WholeInv, NEW t \in Threads, UNCHANGED <<file, met, short>>,
           cut \subseteq cut',
           thread' \in [Threads -> Worker], \A u \in Threads \ {t} : thread'[u] = thread[u],
           thread[t].pc \notin {"write1", "write2", "replace"},
           thread'[t].pc \notin {"write1", "write2", "replace"},
           thread'[t].pc = "idle" \/ thread'[t].oid \in Videos,
           thread'[t].fd = "gone"
    PROVE  /\ \A u \in Threads : (~V!At(u, "idle") => V!Oid(u) \in Videos)' /\ Handle(u)'
           /\ AloneInv' /\ WholeInv'
<1>1. \A u \in Threads : (~V!At(u, "idle") => V!Oid(u) \in Videos)' /\ Handle(u)'
  BY DEF VideoTypes, V!At, V!Oid, Handle
<1>2. \A u \in Threads, v \in Videos : V!Filling(u, v)' => u # t /\ V!Filling(u, v)
  BY DEF V!Filling, V!Oid
<1>3. AloneInv'
  BY <1>2 DEF AloneInv, FillIsSound, V!At
<1>4. \A u \in Threads, v \in Videos : \A name \in {"part", "body"} :
          Completes(u, v, name) => Completes(u, v, name)'
  BY DEF Completes, V!At, V!Oid
<1>5. WholeInv'
  BY <1>4 DEF WholeInv, PartGrows, BodyGrows
<1>6. QED
  BY <1>1, <1>3, <1>5

(* What is over the limit: the steps that count and drop nothing.           *)
LEMMA LimitStays ==
    ASSUME VideoTypes, TrimInv, NEW t \in Threads, sidecar' = sidecar, cut \subseteq cut',
           \A v \in Videos : file'[v].body = None <=> file[v].body = None,
           \A u \in Threads \ {t} : /\ thread'[u].pc = thread[u].pc
                                    /\ thread'[u].oid = thread[u].oid
                                    /\ thread'[u].victims = thread[u].victims,
           thread[t].pc \notin {"sidecar", "trim", "drop", "dropSidecar"},
           thread'[t].pc # "sidecar"
    PROVE  TrimInv'
<1>1. V!Counted' = V!Counted
  BY DEF V!Counted
<1>2. Late' = Late
  BY DEF Late, V!At, V!Oid
<1>3. \A u \in Threads : (V!At(u, "trim") => V!At(u, "trim")') /\ (Drops(u) => Drops(u)')
  BY <1>1, <1>2 DEF Drops, V!At
<1>4. QED
  BY <1>1, <1>2, <1>3 DEF TrimInv

(* A lookup begins.                                                         *)
LEMMA AskStep ==
    ASSUME VideoInv, NEW t \in Threads, NEW v \in Videos, NEW why \in {"url", "thumb"}, V!Ask(t, v, why)
    PROVE  VideoInv'
<1>1. /\ thread[t].pc = "idle" /\ UNCHANGED <<file, sidecar, thumb, met, short, cut, crossed, tornServed>>
      /\ \E w \in Worker : /\ thread' = [thread EXCEPT ![t] = w] /\ w.pc \in {"idle", "fetch", "render"}
                           /\ w.fd = "gone" /\ (w.pc # "idle" => w.oid = v)
  <2> DEFINE to(pc) == [V!Idle EXCEPT !.pc = pc, !.oid = v, !.why = why]
  <2>1. \A pc \in {"fetch", "render"} :
            to(pc) \in Worker /\ to(pc).pc = pc /\ to(pc).fd = "gone" /\ to(pc).oid = v
    BY DEF V!Idle, Worker
  <2>2. V!Idle \in Worker /\ V!Idle.pc = "idle" /\ V!Idle.fd = "gone"
    BY DEF V!Idle, Worker
  <2>3. \E w \in {to("fetch"), to("render"), V!Idle} : thread' = [thread EXCEPT ![t] = w]
    BY DEF V!Ask
  <2>4. QED
    BY <2>1, <2>2, <2>3 DEF V!Ask, V!At, V!history
<1>2. /\ thread' \in [Threads -> Worker] /\ \A u \in Threads \ {t} : thread'[u] = thread[u]
      /\ thread'[t].pc \in {"idle", "fetch", "render"} /\ thread'[t].fd = "gone"
      /\ thread'[t].pc # "idle" => thread'[t].oid = v
  BY <1>1 DEF VideoInv, VideoTypes
<1>3. VideoTypes' /\ AloneInv' /\ WholeInv'
  BY <1>1, <1>2, FillsStay DEF VideoInv, VideoTypes
<1>4. SidecarInv' /\ ThumbInv'
  BY <1>1, <1>2 DEF VideoInv, VideoTypes, SidecarInv, ThumbInv, Noted, V!At, V!Oid
<1>5. TrimInv'
  BY <1>1, <1>2, LimitStays DEF VideoInv
<1>6. QED
  BY <1>1, <1>3, <1>4, <1>5 DEF VideoInv

(* LINE does not have the video.                                            *)
LEMMA FetchFailsStep ==
    ASSUME VideoInv, NEW t \in Threads, V!FetchFails(t)
    PROVE  VideoInv'
<1>1. /\ thread[t].pc = "fetch" /\ UNCHANGED <<file, sidecar, thumb, met, short, cut, crossed, tornServed>>
      /\ thread' = [thread EXCEPT ![t] = V!Idle] /\ V!Idle \in Worker
      /\ V!Idle.pc = "idle" /\ V!Idle.fd = "gone"
  BY DEF V!FetchFails, V!At, V!Idle, Worker, V!history
<1>2. /\ thread' \in [Threads -> Worker] /\ \A u \in Threads \ {t} : thread'[u] = thread[u]
      /\ thread'[t].pc = "idle" /\ thread'[t].fd = "gone"
  BY <1>1 DEF VideoInv, VideoTypes
<1>3. VideoTypes' /\ AloneInv' /\ WholeInv'
  BY <1>1, <1>2, FillsStay DEF VideoInv, VideoTypes
<1>4. SidecarInv' /\ ThumbInv'
  BY <1>1, <1>2 DEF VideoInv, VideoTypes, SidecarInv, ThumbInv, Noted, V!At, V!Oid
<1>5. TrimInv'
  BY <1>1, <1>2, LimitStays DEF VideoInv
<1>6. QED
  BY <1>1, <1>3, <1>4, <1>5 DEF VideoInv

(* A thumbnail is rendered.  When another thread renders it too, the file is *)
(* whole once the last of them is done.                                     *)
LEMMA RenderStep ==
    ASSUME VideoInv, NEW t \in Threads, V!Render(t) \/ V!RenderFails(t)
    PROVE  VideoInv'
<1>1. /\ thread[t].pc \in {"render", "rendering"}
      /\ UNCHANGED <<file, sidecar, met, short, crossed, tornServed>> /\ cut \subseteq cut'
      /\ \E w \in Worker : /\ thread' = [thread EXCEPT ![t] = w] /\ w.pc \in {"idle", "rendering"}
                           /\ w.fd = "gone" /\ (w.pc = "rendering" => w.oid = thread[t].oid)
  <2>1. thread[t] \in Worker /\ thread[t].pc \in {"render", "rendering"} /\ V!Idle \in Worker
    BY DEF VideoInv, VideoTypes, V!Render, V!RenderFails, V!At, V!Idle, Worker
  <2>2. thread[t].fd = "gone"
    BY <2>1 DEF VideoInv, VideoTypes, Handle
  <2>3. [thread[t] EXCEPT !.pc = "rendering"] \in Worker
    BY <2>1 DEF Worker
  <2>4. \/ thread' = [thread EXCEPT ![t] = V!Idle]
        \/ thread' = [thread EXCEPT ![t] = [thread[t] EXCEPT !.pc = "rendering"]]
    BY DEF V!Render, V!RenderFails, VideoInv, VideoTypes
  <2>5. V!Idle.pc = "idle" /\ V!Idle.fd = "gone"
    BY DEF V!Idle
  <2>6. QED
    BY <2>1, <2>2, <2>3, <2>4, <2>5 DEF V!Render, V!RenderFails, V!history, Worker
<1>2. /\ thread' \in [Threads -> Worker] /\ \A u \in Threads \ {t} : thread'[u] = thread[u]
      /\ thread'[t].pc \in {"idle", "rendering"} /\ thread'[t].fd = "gone"
      /\ thread'[t].pc = "rendering" => thread'[t].oid = V!Oid(t)
      /\ V!Oid(t) \in Videos
  BY <1>1 DEF VideoInv, VideoTypes, V!At, V!Oid
<1>3. AloneInv' /\ WholeInv' /\ \A u \in Threads : (~V!At(u, "idle") => V!Oid(u) \in Videos)' /\ Handle(u)'
  BY <1>1, <1>2, FillsStay DEF VideoInv
<1>4. VideoTypes'
  BY <1>1, <1>2, <1>3 DEF VideoInv, VideoTypes, V!Render, V!RenderFails
<1>5. SidecarInv'
  BY <1>1, <1>2 DEF VideoInv, VideoTypes, SidecarInv, Noted, V!At, V!Oid
<1>6. ThumbInv'
  <2>1. CASE V!RenderFails(t)
    BY <1>1, <1>2, <2>1 DEF VideoInv, VideoTypes, ThumbInv, V!At, V!Oid, V!RenderFails
  <2>2. CASE V!Render(t) /\ thread[t].pc = "rendering"
    <3>1. thumb' = [thumb EXCEPT ![V!Oid(t)] = "whole"]
      BY <2>2 DEF V!Render, V!At
    <3>2. QED
      BY <1>1, <1>2, <3>1 DEF VideoInv, VideoTypes, ThumbInv, V!At, V!Oid
  <2>3. CASE V!Render(t) /\ thread[t].pc = "render"
    <3>1. \/ thumb' = thumb
          \/ thumb' = [thumb EXCEPT ![V!Oid(t)] = "torn"] /\ thread'[t].pc = "rendering"
      BY <2>3 DEF V!Render, V!At, VideoInv, VideoTypes, Worker
    <3>2. QED
      BY <1>1, <1>2, <2>3, <3>1 DEF VideoInv, VideoTypes, ThumbInv, V!At, V!Oid
  <2>4. QED
    BY <1>1, <2>1, <2>2, <2>3
<1>7. TrimInv'
  BY <1>1, <1>2, LimitStays DEF VideoInv
<1>8. QED
  BY <1>1, <1>4, <1>3, <1>5, <1>6, <1>7 DEF VideoInv

(* The files after an assignment to one name of a video.                    *)
LEMMA FileWith ==
    ASSUME file \in [Videos -> VideoFile], NEW v \in Videos, NEW x \in Regions,
           NEW name \in {"part", "body"}, file' = [file EXCEPT ![v][name] = x]
    PROVE  /\ file' \in [Videos -> VideoFile] /\ \A w \in Videos \ {v} : file'[w] = file[w]
           /\ file'[v].part = IF name = "part" THEN x ELSE file[v].part
           /\ file'[v].body = IF name = "body" THEN x ELSE file[v].body
<1> DEFINE r == [file[v] EXCEPT ![name] = x]
<1>1. file[v] \in VideoFile
  OBVIOUS
<1>2. r = IF name = "part" THEN [file[v] EXCEPT !.part = x] ELSE [file[v] EXCEPT !.body = x]
  BY <1>1 DEF VideoFile
<1>3. /\ r \in VideoFile
      /\ r.part = IF name = "part" THEN x ELSE file[v].part
      /\ r.body = IF name = "body" THEN x ELSE file[v].body
  BY <1>1, <1>2 DEF VideoFile
<1>4. file' = [file EXCEPT ![v] = r]
  OBVIOUS
<1> HIDE DEF r
<1>5. QED
  BY <1>3, <1>4

LEMMA PartBecomes ==
    ASSUME file \in [Videos -> VideoFile], NEW v \in Videos, NEW x \in Regions,
           file' = [file EXCEPT ![v]["part"] = x]
    PROVE  /\ file' \in [Videos -> VideoFile] /\ \A w \in Videos \ {v} : file'[w] = file[w]
           /\ file'[v].part = x /\ file'[v].body = file[v].body
<1>1. file[v] \in VideoFile /\ file' = [file EXCEPT ![v] = [file[v] EXCEPT !.part = x]]
  BY DEF VideoFile
<1>2. [file[v] EXCEPT !.part = x] = [part |-> x, body |-> file[v].body]
  BY <1>1 DEF VideoFile
<1>3. QED
  BY <1>1, <1>2 DEF VideoFile

LEMMA BodyBecomes ==
    ASSUME file \in [Videos -> VideoFile], NEW v \in Videos, NEW x \in Regions,
           file' = [file EXCEPT ![v]["body"] = x]
    PROVE  /\ file' \in [Videos -> VideoFile] /\ \A w \in Videos \ {v} : file'[w] = file[w]
           /\ file'[v].body = x /\ file'[v].part = file[v].part
<1>1. file[v] \in VideoFile /\ file' = [file EXCEPT ![v] = [file[v] EXCEPT !.body = x]]
  BY DEF VideoFile
<1>2. [file[v] EXCEPT !.body = x] = [part |-> file[v].part, body |-> x]
  BY <1>1 DEF VideoFile
<1>3. QED
  BY <1>1, <1>2 DEF VideoFile

(* The handles after a move: only where they lead changes.                  *)
LEMMA HandlesLead ==
    ASSUME NEW v, NEW th \in [Threads -> Worker],
           NEW moved \in {[part |-> "gone"], [body |-> "gone"], [part |-> "body", body |-> "gone"]}
    PROVE  /\ V!Handles(v, th, moved) \in [Threads -> Worker]
           /\ \A u \in Threads :
                 /\ V!Handles(v, th, moved)[u].pc = th[u].pc
                 /\ V!Handles(v, th, moved)[u].oid = th[u].oid
                 /\ V!Handles(v, th, moved)[u].why = th[u].why
                 /\ V!Handles(v, th, moved)[u].victims = th[u].victims
                 /\ V!Handles(v, th, moved)[u].victim = th[u].victim
                 /\ V!Handles(v, th, moved)[u].fd = IF th[u].oid = v /\ th[u].fd \in DOMAIN moved
                                                   THEN moved[th[u].fd] ELSE th[u].fd
<1> SUFFICES ASSUME NEW u \in Threads
             PROVE  LET w == V!Handles(v, th, moved)[u] IN
                    /\ w \in Worker
                    /\ w.pc = th[u].pc /\ w.oid = th[u].oid /\ w.why = th[u].why
                    /\ w.victims = th[u].victims /\ w.victim = th[u].victim
                    /\ w.fd = IF th[u].oid = v /\ th[u].fd \in DOMAIN moved
                              THEN moved[th[u].fd] ELSE th[u].fd
  BY DEF V!Handles
<1>1. th[u] \in Worker
  OBVIOUS
<1>2. \A fd \in DOMAIN moved : moved[fd] \in {"body", "gone"}
  OBVIOUS
<1>3. CASE th[u].oid = v /\ th[u].fd \in DOMAIN moved
  <2>1. V!Handles(v, th, moved)[u] = [th[u] EXCEPT !.fd = moved[th[u].fd]]
    BY <1>3 DEF V!Handles
  <2>2. QED
    BY <1>1, <1>2, <1>3, <2>1 DEF Worker
<1>4. CASE ~(th[u].oid = v /\ th[u].fd \in DOMAIN moved)
  BY <1>1, <1>4 DEF V!Handles
<1>5. QED
  BY <1>3, <1>4

(* A fill begins: what the .part held is gone, and this thread writes it.   *)
LEMMA FetchStep ==
    ASSUME V!VideoCacheAssumption, VideoInv, NEW t \in Threads, V!Fetch(t)
    PROVE  VideoInv'
<1>0. PICK v \in Videos : v = V!Oid(t)
  BY DEF V!Fetch, V!At, VideoInv, VideoTypes
<1>1. /\ thread[t] \in Worker /\ thread[t].pc = "fetch" /\ thread[t].oid = v
      /\ UNCHANGED <<sidecar, thumb, short, cut, crossed, tornServed>> /\ {} \in Regions /\ {} # None
  BY <1>0 DEF V!Fetch, V!At, V!Oid, VideoInv, VideoTypes, Regions, V!Whole, V!VideoCacheAssumption
<1>2. /\ file' \in [Videos -> VideoFile] /\ \A w \in Videos \ {v} : file'[w] = file[w]
      /\ file'[v].part = {} /\ file'[v].body = file[v].body
  <2>1. file' = [file EXCEPT ![v]["part"] = {}]
    BY <1>0 DEF V!Fetch, V!PartName
  <2>2. file \in [Videos -> VideoFile] /\ {} \in Regions
    BY <1>1 DEF VideoInv, VideoTypes
  <2>3. QED
    BY <2>1, <2>2, PartBecomes
<1>3. /\ thread' \in [Threads -> Worker] /\ \A u \in Threads \ {t} : thread'[u] = thread[u]
      /\ thread'[t].pc = "write1" /\ thread'[t].oid = v /\ thread'[t].fd = "part"
  <2>1. thread' = [thread EXCEPT ![t] = [thread[t] EXCEPT !.pc = "write1", !.fd = "part"]]
    BY DEF V!Fetch, V!PartName, VideoInv, VideoTypes
  <2>2. [thread[t] EXCEPT !.pc = "write1", !.fd = "part"] \in Worker
    BY <1>1 DEF Worker
  <2>3. QED
    BY <1>1, <2>1, <2>2 DEF VideoInv, VideoTypes, Worker
<1>4. VideoTypes'
  <2>1. \A u \in Threads : (~V!At(u, "idle") => V!Oid(u) \in Videos)'
    BY <1>1, <1>3 DEF VideoInv, VideoTypes, V!At, V!Oid
  <2>2. Handle(t)'
    BY <1>1, <1>2, <1>3 DEF Handle, V!Oid
  <2>3. ASSUME NEW u \in Threads \ {t} PROVE Handle(u)'
    <3>1. Handle(u) /\ thread[u] \in Worker /\ (thread[u].pc # "idle" => V!Oid(u) \in Videos)
      BY DEF VideoInv, VideoTypes, V!At
    <3>2. thread[u].fd # "gone" => file'[V!Oid(u)][thread[u].fd] # None
      BY <1>1, <1>2, <3>1 DEF Handle, Worker
    <3>3. QED
      BY <1>3, <3>1, <3>2 DEF Handle, V!Oid
  <2>4. QED
    BY <1>1, <1>2, <1>3, <2>1, <2>2, <2>3 DEF VideoInv, VideoTypes
<1>5. AloneInv'
  <2>1. met' = IF \E u \in Threads : V!Filling(u, v) THEN met \cup {v} ELSE met
    BY <1>0 DEF V!Fetch
  <2>2. \A u \in Threads, w \in Videos : V!Filling(u, w)' =>
            (u = t /\ w = v) \/ (u # t /\ V!Filling(u, w))
    BY <1>1, <1>3 DEF V!Filling, V!Oid
  <2>3. FillIsSound(t, v)'
    BY <1>2, <1>3 DEF FillIsSound, V!At
  <2>4. QED
    BY <1>1, <1>2, <1>3, <2>1, <2>2, <2>3 DEF VideoInv, AloneInv, FillIsSound, V!At
<1>6. WholeInv'
  <2>1. \A u \in Threads \ {t} : \A w \in Videos : \A name \in {"part", "body"} :
            Completes(u, w, name) /\ (w # v \/ name = "body") => Completes(u, w, name)'
    BY <1>2, <1>3 DEF Completes, V!At, V!Oid
  <2>2. \A w \in Videos : \A name \in {"part", "body"} : ~Completes(t, w, name)
    BY <1>1 DEF Completes, V!At
  <2>3. Completes(t, v, "part")'
    BY <1>1, <1>3 DEF Completes, V!At, V!Oid
  <2>4. QED
    BY <1>1, <1>2, <2>1, <2>2, <2>3 DEF VideoInv, WholeInv, PartGrows, BodyGrows
<1>7. SidecarInv' /\ ThumbInv'
  <2>1. \A w \in Videos : file'[w].body = file[w].body
    BY <1>2
  <2>2. \A w \in Videos : Noted(w) => Noted(w)'
    BY <1>1, <1>3 DEF Noted, V!At, V!Oid
  <2>3. SidecarInv'
    BY <1>1, <1>3, <2>1, <2>2 DEF VideoInv, VideoTypes, Worker, SidecarInv, V!At
  <2>4. ThumbInv'
    BY <1>1, <1>3 DEF VideoInv, ThumbInv, V!At, V!Oid
  <2>5. QED
    BY <2>3, <2>4
<1>8. TrimInv'
  <2>1. \A w \in Videos : file'[w].body = None <=> file[w].body = None
    BY <1>2
  <2>2. QED
    BY <1>1, <1>3, <2>1, LimitStays DEF VideoInv
<1>9. tornServed' \subseteq met' \cup short'
  BY <1>1 DEF VideoInv, V!Fetch
<1>10. QED
  BY <1>4, <1>5, <1>6, <1>7, <1>8, <1>9 DEF VideoInv

(* A region is written, to the file the handle leads to by now.             *)
LEMMA WriteStep ==
    ASSUME V!VideoCacheAssumption, VideoInv, NEW t \in Threads, V!Write(t)
    PROVE  VideoInv'
<1>1. PICK v \in Videos, fd \in {"part", "body", "gone"} :
          v = V!Oid(t) /\ thread[t].oid = v /\ fd = thread[t].fd
  BY DEF V!Write, V!At, V!Oid, VideoInv, VideoTypes, Worker
<1>2. PICK k \in {1, 2} :
          /\ k = 1 => thread[t].pc = "write1" /\ thread'[t].pc = "write2"
          /\ k = 2 => thread[t].pc = "write2" /\ thread'[t].pc = "replace"
          /\ thread' = [thread EXCEPT ![t] = [thread[t] EXCEPT !.pc = thread'[t].pc]]
          /\ file' = V!Written(t, k)
  <2>1. thread[t] \in Worker
    BY DEF VideoInv, VideoTypes
  <2>2. CASE V!At(t, "write1")
    BY <2>1, <2>2 DEF V!Write, V!At, VideoInv, VideoTypes, Worker
  <2>3. CASE V!At(t, "write2")
    BY <2>1, <2>3 DEF V!Write, V!At, VideoInv, VideoTypes, Worker
  <2>4. QED
    BY <2>2, <2>3 DEF V!Write
<1>3. /\ thread' \in [Threads -> Worker] /\ \A u \in Threads \ {t} : thread'[u] = thread[u]
      /\ thread'[t].oid = v /\ thread'[t].fd = fd
      /\ UNCHANGED <<sidecar, thumb, met, short, cut, crossed, tornServed>>
  <2>1. thread[t] \in Worker /\ thread'[t].pc \in {"write2", "replace"}
    BY <1>2 DEF VideoInv, VideoTypes
  <2>2. [thread[t] EXCEPT !.pc = thread'[t].pc] \in Worker
    BY <2>1 DEF Worker
  <2>3. /\ [thread[t] EXCEPT !.pc = thread'[t].pc].oid = v
        /\ [thread[t] EXCEPT !.pc = thread'[t].pc].fd = fd
    BY <1>1, <2>1 DEF Worker
  <2>4. QED
    BY <1>2, <2>1, <2>2, <2>3 DEF VideoInv, VideoTypes, V!Write, V!history
<1>4. /\ file' \in [Videos -> VideoFile] /\ \A w \in Videos \ {v} : file'[w] = file[w]
      /\ file'[v].part = IF fd = "part" THEN file[v].part \cup {k} ELSE file[v].part
      /\ file'[v].body = IF fd = "body" THEN file[v].body \cup {k} ELSE file[v].body
      /\ fd = "part" => file[v].part \in SUBSET V!Whole
      /\ fd = "body" => file[v].body \in SUBSET V!Whole
  <2>1. CASE fd = "gone"
    BY <1>1, <1>2, <2>1 DEF V!Written, VideoInv, VideoTypes
  <2>2. CASE fd # "gone"
    <3>1. file \in [Videos -> VideoFile] /\ file[v] \in VideoFile /\ fd \in {"part", "body"}
      BY <2>2 DEF VideoInv, VideoTypes
    <3>2. file' = [file EXCEPT ![v][fd] = file[v][fd] \cup {k}]
      BY <1>1, <1>2, <2>2, <3>1 DEF V!Written
    <3>3. file[v][fd] \in SUBSET V!Whole
      BY <1>1, <2>2, <3>1 DEF VideoInv, VideoTypes, Handle, VideoFile, Regions
    <3>4. file[v][fd] \cup {k} \in Regions
      BY <3>3 DEF Regions, V!Whole
    <3>5. /\ file' \in [Videos -> VideoFile] /\ \A w \in Videos \ {v} : file'[w] = file[w]
          /\ file'[v].part = IF fd = "part" THEN file[v][fd] \cup {k} ELSE file[v].part
          /\ file'[v].body = IF fd = "body" THEN file[v][fd] \cup {k} ELSE file[v].body
      BY <3>1, <3>2, <3>4, FileWith
    <3>6. fd = "part" => file[v][fd] = file[v].part
      BY <3>1 DEF VideoFile
    <3>7. fd = "body" => file[v][fd] = file[v].body
      BY <3>1 DEF VideoFile
    <3>8. QED
      BY <3>3, <3>5, <3>6, <3>7
  <2>3. QED
    BY <2>1, <2>2
<1>5. \A w \in Videos : /\ file'[w].body = None <=> file[w].body = None
                        /\ file'[w].part = None <=> file[w].part = None
  BY <1>4 DEF V!VideoCacheAssumption, V!Whole
<1>6. VideoTypes'
  <2>1. \A u \in Threads : (~V!At(u, "idle") => V!Oid(u) \in Videos)'
    BY <1>2, <1>3 DEF VideoInv, VideoTypes, V!At, V!Oid
  <2>2. ASSUME NEW u \in Threads PROVE Handle(u)'
    <3>1. Handle(u) /\ thread[u] \in Worker /\ (thread[u].pc # "idle" => V!Oid(u) \in Videos)
      BY DEF VideoInv, VideoTypes, V!At
    <3>2. /\ thread'[u].oid = thread[u].oid /\ thread'[u].fd = thread[u].fd
          /\ thread[u].pc \in {"write1", "write2", "replace"} =>
             thread'[u].pc \in {"write1", "write2", "replace"}
      BY <1>1, <1>2, <1>3
    <3>3. ASSUME thread[u].fd # "gone" PROVE file'[V!Oid(u)][thread[u].fd] # None
      <4>1. /\ V!Oid(u) \in Videos /\ file[V!Oid(u)] \in VideoFile /\ file'[V!Oid(u)] \in VideoFile
            /\ file[V!Oid(u)][thread[u].fd] # None
        BY <1>4, <3>1, <3>3 DEF Handle, VideoInv, VideoTypes
      <4>2. thread[u].fd \in {"part", "body"}
        BY <3>1, <3>3 DEF Worker
      <4>3. QED
        BY <1>5, <4>1, <4>2 DEF VideoFile
    <3>4. QED
      BY <3>1, <3>2, <3>3 DEF Handle, V!Oid
  <2>3. QED
    BY <1>3, <1>4, <2>1, <2>2 DEF VideoInv, VideoTypes
<1>7. AloneInv'
  <2>1. \A u \in Threads, w \in Videos : V!Filling(u, w)' => V!Filling(u, w)
    BY <1>1, <1>2, <1>3 DEF V!Filling, V!Oid
  <2>2. ASSUME v \notin met \cup short
        PROVE  /\ FillIsSound(t, v)' /\ fd = "part"
    <3>1. FillIsSound(t, v)
      BY <1>1, <1>2, <2>2 DEF VideoInv, AloneInv, V!Filling
    <3>2. QED
      BY <1>1, <1>2, <1>3, <1>4, <3>1 DEF FillIsSound, V!At, V!Whole
  <2>3. V!Filling(t, v)
    BY <1>1, <1>2 DEF V!Filling
  <2>4. ASSUME NEW w \in Videos \ (met \cup short)
        PROVE  /\ \A u \in Threads : V!Filling(u, w)' => FillIsSound(u, w)'
               /\ file'[w].body \in {None, V!Whole}
    <3>1. CASE w = v
      <4>1. \A u \in Threads : V!Filling(u, v) => u = t
        BY <2>3, <2>4, <3>1 DEF VideoInv, AloneInv
      <4>2. QED
        BY <1>4, <2>1, <2>2, <2>4, <3>1, <4>1 DEF VideoInv, AloneInv
    <3>2. CASE w # v
      <4>1. \A u \in Threads : V!Filling(u, w) => u # t
        BY <1>1, <3>2 DEF V!Filling, V!Oid
      <4>2. QED
        BY <1>3, <1>4, <2>1, <2>4, <3>2, <4>1 DEF VideoInv, AloneInv, FillIsSound, V!At
    <3>3. QED
      BY <3>1, <3>2
  <2>5. QED
    BY <1>3, <2>1, <2>4 DEF VideoInv, AloneInv
<1>8. WholeInv'
  <2>1. \A u \in Threads \ {t} : \A w \in Videos, name \in {"part", "body"} :
            Completes(u, w, name) => Completes(u, w, name)'
    <3>1. \A w \in Videos, name \in {"part", "body"} : 1 \in file[w][name] => 1 \in file'[w][name]
      <4>1. \A w \in Videos : /\ 1 \in file[w].part => 1 \in file'[w].part
                              /\ 1 \in file[w].body => 1 \in file'[w].body
        BY <1>4
      <4>2. \A w \in Videos : file[w] \in VideoFile /\ file'[w] \in VideoFile
        BY <1>4 DEF VideoInv, VideoTypes
      <4>3. QED
        BY <4>1, <4>2 DEF VideoFile
    <3>2. QED
      BY <1>3, <3>1 DEF Completes, V!At, V!Oid
  <2>2. \A w \in Videos, name \in {"part", "body"} : Completes(t, w, name) => w = v /\ name = fd
    BY <1>1 DEF Completes
  <2>3. ASSUME fd = "part", Completes(t, v, "part")
        PROVE  file'[v].part = V!Whole \/ Completes(t, v, "part")'
    BY <1>1, <1>2, <1>3, <1>4, <2>3 DEF Completes, V!At, V!Oid, V!Whole
  <2>4. ASSUME fd = "body", Completes(t, v, "body")
        PROVE  file'[v].body = V!Whole \/ Completes(t, v, "body")'
    BY <1>1, <1>2, <1>3, <1>4, <2>4 DEF Completes, V!At, V!Oid, V!Whole
  <2>5. ASSUME NEW w \in Videos, PartGrows(w) PROVE PartGrows(w)'
    BY <1>4, <2>1, <2>2, <2>3, <2>5 DEF PartGrows, V!Whole, V!VideoCacheAssumption
  <2>6. ASSUME NEW w \in Videos, BodyGrows(w) PROVE BodyGrows(w)'
    BY <1>4, <2>1, <2>2, <2>4, <2>6 DEF BodyGrows, V!Whole, V!VideoCacheAssumption
  <2>7. QED
    BY <1>3, <2>5, <2>6 DEF VideoInv, WholeInv
<1>9. SidecarInv' /\ ThumbInv'
  <2>1. \A w \in Videos : Noted(w) => Noted(w)'
    BY <1>2, <1>3 DEF Noted, V!At, V!Oid
  <2>2. SidecarInv'
    BY <1>2, <1>3, <1>5, <2>1 DEF VideoInv, VideoTypes, Worker, SidecarInv, V!At
  <2>3. ThumbInv'
    BY <1>2, <1>3 DEF VideoInv, ThumbInv, V!At, V!Oid
  <2>4. QED
    BY <2>2, <2>3
<1>10. TrimInv'
  BY <1>2, <1>3, <1>5, LimitStays DEF VideoInv
<1>11. QED
  BY <1>3, <1>6, <1>7, <1>8, <1>9, <1>10 DEF VideoInv

(* The disk is full: a fill is cut short, and may take the .part with it.   *)
LEMMA WriteFailsStep ==
    ASSUME V!VideoCacheAssumption, VideoInv, NEW t \in Threads, V!WriteFails(t)
    PROVE  VideoInv'
<1>1. PICK v \in Videos : v = V!Oid(t) /\ thread[t].oid = v
  BY DEF V!WriteFails, V!At, V!Oid, VideoInv, VideoTypes
<1>2. /\ thread[t].pc \in {"write1", "write2"} /\ thread[t] \in Worker /\ cut' = cut \cup {v}
      /\ UNCHANGED <<sidecar, thumb, met, short, crossed, tornServed>>
      /\ file \in [Videos -> VideoFile] /\ thread \in [Threads -> Worker]
  BY <1>1 DEF V!WriteFails, VideoInv, VideoTypes
<1> DEFINE idle == [thread EXCEPT ![t] = V!Idle]
<1>3. /\ idle \in [Threads -> Worker] /\ \A u \in Threads \ {t} : idle[u] = thread[u]
      /\ idle[t].pc = "idle" /\ idle[t].oid = None /\ idle[t].fd = "gone"
  BY <1>2 DEF V!Idle, Worker
<1>4. /\ file' \in [Videos -> VideoFile] /\ \A w \in Videos \ {v} : file'[w] = file[w]
      /\ file'[v].body = file[v].body
      /\ thread' \in [Threads -> Worker]
      /\ thread'[t].pc = "idle" /\ thread'[t].fd = "gone"
      /\ \A u \in Threads \ {t} : /\ thread'[u].pc = thread[u].pc
                                  /\ thread'[u].oid = thread[u].oid
                                  /\ thread'[u].victims = thread[u].victims
                                  /\ thread'[u].victim = thread[u].victim
                                  /\ thread'[u].oid # v => thread'[u].fd = thread[u].fd
      /\ \/ file' = file /\ \A u \in Threads \ {t} : thread'[u].fd = thread[u].fd
         \/ \A u \in Threads \ {t} : thread[u].oid = v =>
               thread'[u].fd = IF thread[u].fd = "part" THEN "gone" ELSE thread[u].fd
  <2>1. CASE thread[t].why = "thumb" /\ file[v].part # None
    <3>1. /\ file' = [file EXCEPT ![v]["part"] = None]
          /\ thread' = V!Handles(v, idle, [part |-> "gone"])
      <4>1. file' = [file EXCEPT ![v].part = None] /\ thread' = V!Handles(v, idle, [part |-> "gone"])
        BY <1>1, <2>1 DEF V!WriteFails
      <4>2. [file EXCEPT ![v].part = None] = [file EXCEPT ![v]["part"] = None]
        BY <1>2 DEF VideoFile
      <4>3. QED
        BY <4>1, <4>2
    <3>2. /\ file' \in [Videos -> VideoFile] /\ \A w \in Videos \ {v} : file'[w] = file[w]
          /\ file'[v].body = file[v].body
      <4>1. None \in Regions
        BY DEF Regions
      <4>2. QED
        BY <1>2, <3>1, <4>1, PartBecomes
    <3> HIDE DEF idle
    <3>3. /\ thread' \in [Threads -> Worker]
          /\ \A u \in Threads :
                 /\ thread'[u].pc = idle[u].pc
                 /\ thread'[u].oid = idle[u].oid
                 /\ thread'[u].victims = idle[u].victims
                 /\ thread'[u].victim = idle[u].victim
                 /\ thread'[u].fd = IF idle[u].oid = v /\ idle[u].fd \in {"part"}
                                    THEN "gone" ELSE idle[u].fd
      BY <1>3, <3>1, HandlesLead
    <3>4. QED
      BY <1>3, <3>2, <3>3
  <2>2. CASE ~(thread[t].why = "thumb" /\ file[v].part # None)
    <3>1. file' = file /\ thread' = idle
      BY <1>1, <2>2 DEF V!WriteFails
    <3>2. QED
      BY <1>2, <1>3, <3>1
  <2>3. QED
    BY <2>1, <2>2
<1> HIDE DEF idle
<1>5. VideoTypes'
  <2>1. \A u \in Threads : (~V!At(u, "idle") => V!Oid(u) \in Videos)'
    BY <1>4 DEF VideoInv, VideoTypes, V!At, V!Oid
  <2>2. ASSUME NEW u \in Threads \ {t}, thread'[u].fd # "gone" PROVE Handle(u)'
    <3>1. Handle(u) /\ thread[u] \in Worker /\ (thread[u].pc # "idle" => thread[u].oid \in Videos)
      BY DEF VideoInv, VideoTypes, V!At, V!Oid
    <3>2. thread'[u].fd = thread[u].fd
      BY <1>4, <2>2
    <3>3. /\ thread[u].oid \in Videos /\ file[thread[u].oid][thread[u].fd] # None
          /\ thread[u].fd \in {"part", "body"} /\ thread[u].pc \in {"write1", "write2", "replace"}
      BY <2>2, <3>1, <3>2 DEF Handle, Worker, V!Oid
    <3>4. file'[thread[u].oid][thread[u].fd] # None
      <4>1. CASE file' = file
        BY <3>3, <4>1
      <4>2. CASE thread[u].oid # v
        BY <1>4, <3>3, <4>2
      <4>3. CASE thread[u].oid = v /\ thread[u].fd = "body"
        <5>1. file[v]["body"] # None
          BY <3>3, <4>3
        <5>2. file[v] \in VideoFile /\ file'[v] \in VideoFile
          BY <1>2, <1>4
        <5>3. file'[v]["body"] # None
          BY <1>4, <5>1, <5>2 DEF VideoFile
        <5>4. QED
          BY <4>3, <5>3
      <4>4. QED
        BY <1>4, <2>2, <3>2, <3>3, <4>1, <4>2, <4>3
    <3>5. QED
      BY <1>4, <3>2, <3>3, <3>4 DEF Handle, V!Oid
  <2>3. \A u \in Threads : Handle(u)'
    BY <1>4, <2>2 DEF Handle
  <2>4. QED
    BY <1>2, <1>4, <2>1, <2>3 DEF VideoInv, VideoTypes
<1>6. AloneInv'
  <2>1. \A u \in Threads, w \in Videos : V!Filling(u, w)' => u # t /\ V!Filling(u, w)
    BY <1>4 DEF V!Filling, V!Oid
  <2>2. V!Filling(t, v)
    BY <1>1, <1>2 DEF V!Filling
  <2>3. v \notin met \cup short => \A u \in Threads : ~V!Filling(u, v)'
    BY <2>1, <2>2 DEF VideoInv, AloneInv
  <2>4. ASSUME NEW w \in Videos \ (met \cup short), NEW u \in Threads, V!Filling(u, w)' PROVE FillIsSound(u, w)'
    <3>1. w # v /\ u # t /\ V!Filling(u, w) /\ FillIsSound(u, w) /\ thread'[u].oid = w
      BY <2>1, <2>3, <2>4 DEF VideoInv, AloneInv, V!Filling, V!Oid
    <3>2. QED
      BY <1>4, <3>1 DEF FillIsSound, V!At
  <2>5. \A w \in Videos : file'[w].body = file[w].body
    BY <1>4
  <2>6. QED
    BY <1>2, <2>1, <2>4, <2>5 DEF VideoInv, AloneInv
<1>7. WholeInv'
  <2>1. ASSUME NEW w \in Videos \ {v}, NEW u \in Threads, NEW name \in {"part", "body"},
               Completes(u, w, name)
        PROVE  Completes(u, w, name)'
    <3>1. u # t
      BY <1>1, <2>1 DEF Completes, V!Oid
    <3>2. QED
      BY <1>4, <2>1, <3>1 DEF Completes, V!At, V!Oid
  <2>2. \A w \in Videos \ {v} : (PartGrows(w) => PartGrows(w)') /\ (BodyGrows(w) => BodyGrows(w)')
    BY <1>4, <2>1 DEF PartGrows, BodyGrows
  <2>3. QED
    BY <1>2, <2>2 DEF VideoInv, WholeInv
<1>8. SidecarInv' /\ ThumbInv' /\ TrimInv'
  <2>1. \A w \in Videos : file'[w].body = file[w].body
    BY <1>4
  <2>2. \A w \in Videos : Noted(w) => Noted(w)'
    BY <1>2, <1>4 DEF Noted, V!At, V!Oid
  <2>3. SidecarInv'
    BY <1>2, <1>4, <2>1, <2>2 DEF VideoInv, VideoTypes, Worker, SidecarInv, V!At
  <2>4. ThumbInv'
    BY <1>2, <1>4 DEF VideoInv, ThumbInv, V!At, V!Oid
  <2>5. TrimInv'
    BY <1>2 DEF TrimInv
  <2>6. QED
    BY <2>3, <2>4, <2>5
<1>9. QED
  BY <1>2, <1>5, <1>6, <1>7, <1>8 DEF VideoInv

(* The instance counts as the module FiniteSets does.                       *)
LEMMA SameCount == \A s : V!Cardinality(s) = Cardinality(s) /\ (V!IsFiniteSet(s) <=> IsFiniteSet(s))
<1>1. \A s : V!Cardinality(s) = Cardinality(s)
  BY DEF V!Cardinality, Cardinality
<1>2. \A s : V!IsFiniteSet(s) <=> IsFiniteSet(s)
  BY DEF V!IsFiniteSet, IsFiniteSet
<1>3. QED
  BY <1>1, <1>2

(* Fewer videos fit where more did.                                         *)
LEMMA Fits ==
    ASSUME V!VideoCacheAssumption, NEW a \in SUBSET Videos, NEW b \in SUBSET a, Cardinality(a) <= Budget
    PROVE  Cardinality(b) <= Budget
<1>1. IsFiniteSet(a)
  <2>1. IsFiniteSet(Videos)
    BY SameCount DEF V!VideoCacheAssumption
  <2>2. QED
    BY <2>1, FS_Subset
<1>2. IsFiniteSet(b) /\ Cardinality(b) <= Cardinality(a)
  BY <1>1, FS_Subset
<1>3. Cardinality(a) \in Nat /\ Cardinality(b) \in Nat /\ Budget \in Nat
  BY <1>1, <1>2, FS_CardinalityType DEF V!VideoCacheAssumption
<1>4. QED
  BY <1>2, <1>3

(* So where nothing more is counted, and the trims go on, the limit holds.  *)
LEMMA LimitHolds ==
    ASSUME V!VideoCacheAssumption, TrimInv, cut \subseteq cut',
           V!Counted' \ Late' \subseteq V!Counted \ Late,
           \A u \in Threads : V!At(u, "trim") => V!At(u, "trim")',
           \A u \in Threads : thread[u].pc \in {"drop", "dropSidecar"} =>
               /\ thread'[u].pc \in {"drop", "dropSidecar"}
               /\ thread'[u].victims = thread[u].victims
    PROVE  TrimInv'
<1>1. V!Counted \ Late \in SUBSET Videos
  BY DEF V!Counted
<1>2. Cardinality(V!Counted \ Late) <= Budget => Cardinality(V!Counted' \ Late') <= Budget
  BY <1>1, Fits
<1>3. ASSUME NEW u \in Threads, Drops(u) PROVE Drops(u)'
  <2>1. (V!Counted \ Late) \ thread[u].victims \in SUBSET Videos
    BY <1>1
  <2>2. (V!Counted' \ Late') \ thread'[u].victims \subseteq (V!Counted \ Late) \ thread[u].victims
    BY <1>3 DEF Drops
  <2>3. Cardinality((V!Counted' \ Late') \ thread'[u].victims) <= Budget
    BY <1>3, <2>1, <2>2, Fits DEF Drops
  <2>4. QED
    BY <1>3, <2>3 DEF Drops
<1>4. QED
  BY <1>2, <1>3 DEF TrimInv

(* The .part becomes the body; whoever writes it, writes the body from now.  *)
LEMMA ReplaceStep ==
    ASSUME V!VideoCacheAssumption, VideoInv, NEW t \in Threads, V!Replace(t)
    PROVE  VideoInv'
<1>1. PICK v \in Videos : v = V!Oid(t) /\ thread[t].oid = v
  BY DEF V!Replace, V!At, V!Oid, VideoInv, VideoTypes
<1>2. /\ thread[t].pc = "replace" /\ thread[t] \in Worker
      /\ UNCHANGED <<sidecar, thumb, met, short, cut, tornServed>>
      /\ file \in [Videos -> VideoFile] /\ thread \in [Threads -> Worker]
  BY <1>1 DEF V!Replace, V!At, VideoInv, VideoTypes
<1> DEFINE NothingThere ==
              /\ UNCHANGED <<file, crossed>> /\ thread'[t].pc = "idle"
              /\ \A u \in Threads \ {t} : thread'[u].fd = thread[u].fd
           Moved ==
              /\ file'[v].part = None /\ file'[v].body = file[v].part
              /\ thread'[t].pc = "sidecar" /\ thread'[t].oid = v
              /\ \A u \in Threads \ {t} : thread[u].oid = v =>
                    thread'[u].fd = CASE thread[u].fd = "part" -> "body"
                                      [] thread[u].fd = "body" -> "gone"
                                      [] OTHER                 -> thread[u].fd
              /\ crossed \subseteq crossed'
              /\ \A u \in Threads : v \in thread[u].victims => v \in crossed'
<1>3. /\ file' \in [Videos -> VideoFile] /\ \A w \in Videos \ {v} : file'[w] = file[w]
      /\ thread' \in [Threads -> Worker] /\ thread'[t].fd = "gone"
      /\ \A u \in Threads \ {t} : /\ thread'[u].pc = thread[u].pc
                                  /\ thread'[u].oid = thread[u].oid
                                  /\ thread'[u].victims = thread[u].victims
                                  /\ thread'[u].victim = thread[u].victim
                                  /\ thread'[u].oid # v => thread'[u].fd = thread[u].fd
      /\ NothingThere \/ Moved
  <2>1. CASE file[v].part = None
    <3>1. UNCHANGED <<file, crossed>> /\ thread' = [thread EXCEPT ![t] = V!Idle]
      BY <1>1, <2>1 DEF V!Replace
    <3>2. V!Idle \in Worker /\ V!Idle.pc = "idle" /\ V!Idle.fd = "gone"
      BY DEF V!Idle, Worker
    <3>3. QED
      BY <1>2, <3>1, <3>2
  <2>2. CASE file[v].part # None
    <3> DEFINE th == V!Handles(v, thread, [part |-> "body", body |-> "gone"])
    <3>1. /\ file' = [file EXCEPT ![v] = [part |-> None, body |-> file[v].part]]
          /\ thread' = [th EXCEPT ![t] = [th[t] EXCEPT !.pc = "sidecar", !.fd = "gone"]]
          /\ crossed \subseteq crossed' /\ \A u \in Threads : v \in thread[u].victims => v \in crossed'
      <4>1. crossed' = IF \E u \in Threads : v \in thread[u].victims THEN crossed \cup {v} ELSE crossed
        BY <1>1, <2>2 DEF V!Replace
      <4>2. file' = [file EXCEPT ![v] = [part |-> None, body |-> file[v].part]]
        BY <1>1, <2>2 DEF V!Replace
      <4>3. t \in DOMAIN th
        BY DEF V!Handles
      <4>4. thread' = [th EXCEPT ![t] = [th[t] EXCEPT !.pc = "sidecar", !.fd = "gone"]]
        BY <1>1, <2>2, <4>3 DEF V!Replace
      <4>5. QED
        BY <4>1, <4>2, <4>4
    <3>2. file[v].part \in Regions /\ None \in Regions
      BY <1>2 DEF VideoFile, Regions
    <3>3. /\ file' \in [Videos -> VideoFile] /\ \A w \in Videos \ {v} : file'[w] = file[w]
          /\ file'[v].part = None /\ file'[v].body = file[v].part
      BY <1>2, <3>1, <3>2 DEF VideoFile
    <3>4. /\ th \in [Threads -> Worker]
          /\ \A u \in Threads :
                 /\ th[u].pc = thread[u].pc
                 /\ th[u].oid = thread[u].oid
                 /\ th[u].victims = thread[u].victims
                 /\ th[u].victim = thread[u].victim
                 /\ th[u].fd = IF thread[u].oid = v /\ thread[u].fd \in {"part", "body"}
                               THEN [part |-> "body", body |-> "gone"][thread[u].fd] ELSE thread[u].fd
      BY <1>2, HandlesLead
    <3> HIDE DEF th
    <3>5. /\ [th[t] EXCEPT !.pc = "sidecar", !.fd = "gone"] \in Worker
          /\ [th[t] EXCEPT !.pc = "sidecar", !.fd = "gone"].pc = "sidecar"
          /\ [th[t] EXCEPT !.pc = "sidecar", !.fd = "gone"].fd = "gone"
          /\ [th[t] EXCEPT !.pc = "sidecar", !.fd = "gone"].oid = v
      <4>1. \A w \in Worker :
                /\ [w EXCEPT !.pc = "sidecar", !.fd = "gone"] \in Worker
                /\ [w EXCEPT !.pc = "sidecar", !.fd = "gone"].pc = "sidecar"
                /\ [w EXCEPT !.pc = "sidecar", !.fd = "gone"].fd = "gone"
                /\ [w EXCEPT !.pc = "sidecar", !.fd = "gone"].oid = w.oid
        BY DEF Worker
      <4>2. th[t] \in Worker /\ th[t].oid = v
        BY <1>1, <3>4
      <4>3. QED
        BY <4>1, <4>2
    <3>6. /\ thread' \in [Threads -> Worker] /\ thread'[t].fd = "gone"
          /\ thread'[t].pc = "sidecar" /\ thread'[t].oid = v
          /\ \A u \in Threads \ {t} : thread'[u] = th[u]
      BY <3>1, <3>4, <3>5
    <3>7. \A u \in Threads : thread[u].oid = v =>
              th[u].fd = CASE thread[u].fd = "part" -> "body"
                           [] thread[u].fd = "body" -> "gone"
                           [] OTHER                 -> thread[u].fd
      BY <3>4
    <3>8. QED
      BY <3>1, <3>3, <3>4, <3>6, <3>7
  <2>3. QED
    BY <2>1, <2>2
<1> HIDE DEF NothingThere, Moved
<1>4. \A w \in Videos : NothingThere => file'[w] = file[w]
  BY DEF NothingThere
<1>5. VideoTypes'
  <2>1. \A u \in Threads : (~V!At(u, "idle") => V!Oid(u) \in Videos)'
    BY <1>3 DEF VideoInv, VideoTypes, V!At, V!Oid, NothingThere, Moved
  <2>2. ASSUME NEW u \in Threads \ {t}, thread'[u].fd # "gone" PROVE Handle(u)'
    <3>1. Handle(u) /\ thread[u] \in Worker /\ (thread[u].pc # "idle" => thread[u].oid \in Videos)
      BY DEF VideoInv, VideoTypes, V!At, V!Oid
    <3>2. thread[u].fd # "gone"
      BY <1>3, <2>2, <3>1 DEF NothingThere, Moved, Worker
    <3>3. /\ thread[u].oid \in Videos /\ file[thread[u].oid][thread[u].fd] # None
          /\ thread[u].fd \in {"part", "body"} /\ thread[u].pc \in {"write1", "write2", "replace"}
      BY <3>1, <3>2 DEF Handle, Worker, V!Oid
    <3>4. file'[thread[u].oid][thread'[u].fd] # None
      <4>1. CASE NothingThere
        BY <3>3, <4>1 DEF NothingThere
      <4>2. CASE thread[u].oid # v
        BY <1>3, <3>3, <4>2
      <4>3. CASE thread[u].oid = v /\ Moved
        <5>1. thread[u].fd = "part" /\ thread'[u].fd = "body"
          BY <2>2, <3>3, <4>3 DEF Moved
        <5>2. file[v]["part"] # None
          BY <3>3, <4>3, <5>1
        <5>3. file[v] \in VideoFile /\ file'[v] \in VideoFile
          BY <1>2, <1>3
        <5>4. file'[v]["body"] # None
          BY <4>3, <5>2, <5>3 DEF VideoFile, Moved
        <5>5. QED
          BY <4>3, <5>1, <5>4
      <4>4. QED
        BY <1>3, <4>1, <4>2, <4>3
    <3>5. QED
      BY <1>3, <3>3, <3>4 DEF Handle, V!Oid
  <2>3. \A u \in Threads : Handle(u)'
    BY <1>3, <2>2 DEF Handle
  <2>4. QED
    BY <1>2, <1>3, <2>1, <2>3 DEF VideoInv, VideoTypes
<1>6. \A u \in Threads, w \in Videos : V!Filling(u, w)' => u # t /\ V!Filling(u, w)
  BY <1>3 DEF V!Filling, V!Oid, NothingThere, Moved
<1>7. V!Filling(t, v)
  BY <1>1, <1>2 DEF V!Filling
<1>8. AloneInv'
  <2>1. v \notin met \cup short => \A u \in Threads : ~V!Filling(u, v)'
    BY <1>6, <1>7 DEF VideoInv, AloneInv
  <2>2. ASSUME NEW w \in Videos \ (met \cup short), NEW u \in Threads, V!Filling(u, w)' PROVE FillIsSound(u, w)'
    <3>1. w # v /\ u # t /\ V!Filling(u, w) /\ FillIsSound(u, w) /\ thread'[u].oid = w
      BY <1>6, <2>1, <2>2 DEF VideoInv, AloneInv, V!Filling, V!Oid
    <3>2. QED
      BY <1>3, <3>1 DEF FillIsSound, V!At
  <2>3. ASSUME v \notin met \cup short PROVE file'[v].body \in {None, V!Whole}
    <3>1. file[v].part = V!Whole
      BY <1>2, <1>7, <2>3 DEF VideoInv, AloneInv, FillIsSound, V!At
    <3>2. QED
      BY <1>3, <2>3, <3>1 DEF NothingThere, Moved, VideoInv, AloneInv
  <2>4. QED
    BY <1>2, <1>3, <1>6, <2>2, <2>3 DEF VideoInv, AloneInv
<1>9. WholeInv'
  <2>1. \A u \in Threads : \A w \in Videos, name \in {"part", "body"} : Completes(u, w, name) => u # t
    BY <1>2 DEF Completes, V!At
  <2>2. CASE NothingThere
    <3>1. \A u \in Threads : \A w \in Videos, name \in {"part", "body"} :
              Completes(u, w, name) => Completes(u, w, name)'
      BY <1>3, <2>1, <2>2 DEF Completes, V!At, V!Oid, NothingThere
    <3>2. QED
      BY <1>2, <2>2, <3>1 DEF VideoInv, WholeInv, PartGrows, BodyGrows, NothingThere
  <2>3. CASE Moved
    <3>1. ASSUME NEW u \in Threads, NEW w \in Videos \ {v}, NEW name \in {"part", "body"},
                 Completes(u, w, name)
          PROVE  Completes(u, w, name)'
      BY <1>3, <2>1, <3>1 DEF Completes, V!At, V!Oid
    <3>2. \A w \in Videos \ {v} : (PartGrows(w) => PartGrows(w)') /\ (BodyGrows(w) => BodyGrows(w)')
      BY <1>3, <3>1 DEF PartGrows, BodyGrows
    <3>3. ASSUME NEW u \in Threads, Completes(u, v, "part") PROVE Completes(u, v, "body")'
      <4>1. file[v] \in VideoFile /\ file'[v] \in VideoFile
        BY <1>2, <1>3
      <4>2. file'[v]["body"] = file[v]["part"]
        BY <2>3, <4>1 DEF Moved, VideoFile
      <4>3. u # t /\ thread[u].oid = v /\ thread[u].fd = "part"
        BY <2>1, <3>3 DEF Completes, V!Oid
      <4>4. QED
        BY <1>3, <2>3, <3>3, <4>2, <4>3 DEF Completes, V!At, V!Oid, Moved
    <3>4. PartGrows(v)' /\ (PartGrows(v) => BodyGrows(v)')
      BY <2>3, <3>3 DEF PartGrows, BodyGrows, Moved
    <3>5. QED
      BY <1>2, <3>2, <3>4 DEF VideoInv, WholeInv
  <2>4. QED
    BY <1>3, <2>2, <2>3
<1>10. SidecarInv' /\ ThumbInv'
  <2>1. \A w \in Videos : Noted(w) => Noted(w)'
    BY <1>2, <1>3 DEF Noted, V!At, V!Oid
  <2>2. Moved => Noted(v)'
    BY DEF Moved, Noted, V!At, V!Oid
  <2>3. \A w \in Videos : file'[w].body = file[w].body \/ (w = v /\ Moved)
    BY <1>3, <1>4
  <2>4. crossed \subseteq crossed'
    BY <1>3 DEF NothingThere, Moved
  <2>5. ASSUME NEW u \in Threads, V!At(u, "dropSidecar")'
        PROVE  /\ thread'[u].victim \in thread'[u].victims
               /\ thread'[u].victim \in crossed' \/ file'[thread'[u].victim].body = None
    <3>1. u # t /\ V!At(u, "dropSidecar")
      BY <1>3, <2>5 DEF V!At, NothingThere, Moved
    <3>2. /\ thread[u].victim \in thread[u].victims /\ thread[u].victims \in SUBSET Videos
          /\ thread[u].victim \in crossed \/ file[thread[u].victim].body = None
      BY <3>1 DEF VideoInv, VideoTypes, Worker, SidecarInv
    <3>3. QED
      BY <1>3, <2>3, <2>4, <3>1, <3>2 DEF Moved
  <2>6. SidecarInv'
    BY <1>2, <2>1, <2>2, <2>3, <2>4, <2>5 DEF VideoInv, SidecarInv
  <2>7. ThumbInv'
    BY <1>2, <1>3 DEF VideoInv, ThumbInv, V!At, V!Oid
  <2>8. QED
    BY <2>6, <2>7
<1>11. TrimInv'
  <2>1. \A u \in Threads : V!At(u, "sidecar") => V!At(u, "sidecar")' /\ V!Oid(u)' = V!Oid(u)
    BY <1>2, <1>3 DEF V!At, V!Oid
  <2>2. Late \subseteq Late' /\ (Moved => v \in Late')
    BY <2>1 DEF Late, Moved, V!At, V!Oid
  <2>3. V!Counted' \ Late' \subseteq V!Counted \ Late
    BY <1>2, <1>3, <1>4, <2>2 DEF V!Counted
  <2>4. \A u \in Threads : V!At(u, "trim") => V!At(u, "trim")'
    BY <1>2, <1>3 DEF V!At
  <2>5. \A u \in Threads : thread[u].pc \in {"drop", "dropSidecar"} =>
            /\ thread'[u].pc \in {"drop", "dropSidecar"}
            /\ thread'[u].victims = thread[u].victims
    BY <1>2, <1>3
  <2>6. QED
    BY <1>2, <2>3, <2>4, <2>5, LimitHolds DEF VideoInv
<1>12. QED
  BY <1>2, <1>5, <1>8, <1>9, <1>10, <1>11 DEF VideoInv

(* The sidecar is written, or stays torn when the body is gone again.       *)
LEMMA SidecarStep ==
    ASSUME V!VideoCacheAssumption, VideoInv, NEW t \in Threads, V!Sidecar(t)
    PROVE  VideoInv'
<1>1. PICK v \in Videos : v = V!Oid(t) /\ thread[t].oid = v
  BY DEF V!Sidecar, V!At, V!Oid, VideoInv, VideoTypes
<1>2. /\ thread[t].pc = "sidecar" /\ thread[t] \in Worker /\ thread[t].fd = "gone"
      /\ UNCHANGED <<file, thumb, met, short, cut, crossed, tornServed>>
      /\ sidecar' = [sidecar EXCEPT ![v] = sidecar'[v]]
      /\ \/ sidecar'[v] = "good" /\ thread' = [thread EXCEPT ![t] = [thread[t] EXCEPT !.pc = "trim"]]
         \/ sidecar'[v] = "torn" /\ file[v].body = None /\ thread' = [thread EXCEPT ![t] = V!Idle]
  <2> DEFINE fails == (thread[t].why = "thumb" \/ v \in captured) /\ file[v].body = None
  <2>1. /\ sidecar' = [sidecar EXCEPT ![v] = IF fails THEN "torn" ELSE "good"]
        /\ thread' = [thread EXCEPT ![t] = IF fails THEN V!Idle ELSE [thread[t] EXCEPT !.pc = "trim"]]
    BY <1>1 DEF V!Sidecar, VideoInv, VideoTypes
  <2>2. thread[t].pc = "sidecar" /\ thread[t] \in Worker /\ thread[t].fd = "gone"
    BY DEF V!Sidecar, V!At, VideoInv, VideoTypes, Handle
  <2>3. QED
    BY <2>1, <2>2 DEF V!Sidecar, V!history, VideoInv, VideoTypes
<1>3. /\ thread' \in [Threads -> Worker] /\ \A u \in Threads \ {t} : thread'[u] = thread[u]
      /\ thread'[t].pc \in {"trim", "idle"} /\ thread'[t].fd = "gone"
      /\ thread'[t].pc = "trim" => thread'[t].oid = v /\ sidecar'[v] = "good"
      /\ thread'[t].pc = "idle" => file[v].body = None /\ sidecar'[v] = "torn"
  <2>1. V!Idle \in Worker /\ V!Idle.pc = "idle" /\ V!Idle.fd = "gone"
    BY DEF V!Idle, Worker
  <2>2. /\ [thread[t] EXCEPT !.pc = "trim"] \in Worker /\ [thread[t] EXCEPT !.pc = "trim"].pc = "trim"
        /\ [thread[t] EXCEPT !.pc = "trim"].fd = "gone" /\ [thread[t] EXCEPT !.pc = "trim"].oid = v
    BY <1>1, <1>2 DEF Worker
  <2>3. QED
    BY <1>2, <2>1, <2>2 DEF VideoInv, VideoTypes
<1>4. /\ sidecar' \in [Videos -> {"none", "torn", "good"}]
      /\ \A w \in Videos \ {v} : sidecar'[w] = sidecar[w]
  BY <1>2 DEF VideoInv, VideoTypes
<1>5. /\ AloneInv' /\ WholeInv'
      /\ \A u \in Threads : (~V!At(u, "idle") => V!Oid(u) \in Videos)' /\ Handle(u)'
  BY <1>2, <1>3, FillsStay DEF VideoInv
<1>6. VideoTypes'
  BY <1>2, <1>3, <1>4, <1>5 DEF VideoInv, VideoTypes
<1>7. SidecarInv'
  <2>1. \A w \in Videos \ {v} : Noted(w) => Noted(w)'
    BY <1>1, <1>3, <1>4 DEF Noted, V!At, V!Oid
  <2>2. file[v].body = None \/ Noted(v)'
    BY <1>3 DEF Noted
  <2>3. QED
    BY <1>2, <1>3, <2>1, <2>2 DEF VideoInv, SidecarInv, V!At
<1>8. ThumbInv'
  BY <1>2, <1>3 DEF VideoInv, ThumbInv, V!At, V!Oid
<1>9. TrimInv'
  <2>1. CASE thread'[t].pc = "trim"
    BY <2>1 DEF TrimInv, V!At
  <2>2. CASE thread'[t].pc = "idle"
    <3>1. v \notin V!Counted' /\ V!Counted' \subseteq V!Counted
      BY <1>2, <1>3, <1>4, <2>2 DEF V!Counted
    <3>2. ASSUME NEW w \in Late, w # v PROVE w \in Late'
      <4>1. PICK u \in Threads : V!At(u, "sidecar") /\ w = V!Oid(u)
        BY DEF Late
      <4>2. u # t
        BY <1>1, <3>2, <4>1
      <4>3. V!At(u, "sidecar")' /\ w = V!Oid(u)'
        BY <1>3, <4>1, <4>2 DEF V!At, V!Oid
      <4>4. QED
        BY <4>3 DEF Late
    <3>3. V!Counted' \ Late' \subseteq V!Counted \ Late
      BY <3>1, <3>2
    <3>4. \A u \in Threads : V!At(u, "trim") => V!At(u, "trim")'
      BY <1>2, <1>3 DEF V!At
    <3>5. \A u \in Threads : thread[u].pc \in {"drop", "dropSidecar"} =>
              /\ thread'[u].pc \in {"drop", "dropSidecar"}
              /\ thread'[u].victims = thread[u].victims
      BY <1>2, <1>3
    <3>6. QED
      BY <1>2, <3>3, <3>4, <3>5, LimitHolds DEF VideoInv
  <2>3. QED
    BY <1>3, <2>1, <2>2
<1>10. QED
  BY <1>2, <1>5, <1>6, <1>7, <1>8, <1>9 DEF VideoInv

(* A trim counts: what is too much becomes its victims, so that what is left *)
(* is within the limit.                                                     *)
LEMMA VictimsSuffice ==
    ASSUME V!VideoCacheAssumption, NEW c \in SUBSET Videos, NEW vs \in SUBSET c,
           ~(Cardinality(c) <= Budget), Cardinality(vs) = Cardinality(c) - Budget
    PROVE  Cardinality(c \ vs) <= Budget
<1>1. IsFiniteSet(c)
  BY SameCount, FS_Subset DEF V!VideoCacheAssumption
<1>2. Cardinality(c \ vs) = Cardinality(c) - Cardinality(c \cap vs)
  BY <1>1, FS_Difference
<1>3. c \cap vs = vs
  OBVIOUS
<1>4. Cardinality(c \ vs) = Cardinality(c) - (Cardinality(c) - Budget)
  BY <1>2, <1>3, Zenon
<1>5. Cardinality(c) \in Nat /\ Budget \in Nat
  BY <1>1, FS_CardinalityType DEF V!VideoCacheAssumption
<1>6. \A m, n \in Nat : m - (m - n) = n /\ n <= n
  OBVIOUS
<1>7. QED
  BY <1>4, <1>5, <1>6, Zenon

(* What a thread goes on with after its video was stored, or was not.       *)
LEMMA DoneIs ==
    ASSUME VideoTypes, NEW t \in Threads, V!Oid(t) \in Videos
    PROVE  /\ V!Done(t) \in Worker /\ V!Done(t).pc \in {"render", "idle"} /\ V!Done(t).fd = "gone"
           /\ V!Done(t).pc = "render" => V!Done(t).oid = V!Oid(t)
BY DEF V!Done, V!Idle, Worker

LEMMA TrimStep ==
    ASSUME V!VideoCacheAssumption, VideoInv, NEW t \in Threads, V!Trim(t)
    PROVE  VideoInv'
<1>1. PICK v \in Videos : v = V!Oid(t) /\ thread[t].oid = v
  BY DEF V!Trim, V!At, V!Oid, VideoInv, VideoTypes
<1>2. /\ thread[t].pc = "trim" /\ thread[t] \in Worker /\ thread[t].fd = "gone"
      /\ UNCHANGED <<file, sidecar, thumb, met, short, cut, crossed, tornServed>>
      /\ thread \in [Threads -> Worker]
  BY DEF V!Trim, V!At, V!history, VideoInv, VideoTypes, Handle
<1>3. /\ V!Done(t) \in Worker /\ V!Done(t).pc \in {"render", "idle"} /\ V!Done(t).fd = "gone"
      /\ V!Done(t).pc = "render" => V!Done(t).oid = v
  BY DoneIs, <1>1 DEF VideoInv
<1>4. /\ thread' \in [Threads -> Worker] /\ \A u \in Threads \ {t} : thread'[u] = thread[u]
      /\ thread'[t].fd = "gone" /\ thread'[t].pc \in {"render", "idle", "drop"}
      /\ thread'[t].pc # "idle" => thread'[t].oid = v
      /\ \/ Cardinality(V!Counted) <= Budget
         \/ /\ thread'[t].pc = "drop"
            /\ Cardinality(V!Counted \ thread'[t].victims) <= Budget
  <2>1. CASE V!Cardinality(V!Counted) <= Budget
    <3>1. thread' = [thread EXCEPT ![t] = V!Done(t)]
      BY <2>1 DEF V!Trim
    <3>2. Cardinality(V!Counted) <= Budget
      BY <2>1, SameCount
    <3>3. QED
      BY <1>2, <1>3, <3>1, <3>2
  <2>2. CASE ~(V!Cardinality(V!Counted) <= Budget)
    <3>1. PICK vs \in V!kSubset(V!Cardinality(V!Counted) - Budget, V!Counted) :
              thread' = [thread EXCEPT ![t].pc = "drop", ![t].victims = vs]
      BY <2>2 DEF V!Trim
    <3>2. vs \in SUBSET V!Counted /\ V!Counted \in SUBSET Videos
      BY <3>1 DEF V!kSubset, V!Counted
    <3>3. V!Cardinality(vs) = V!Cardinality(V!Counted) - Budget
      BY <3>1 DEF V!kSubset
    <3>4. Cardinality(V!Counted \ vs) <= Budget
      <4>1. ~(Cardinality(V!Counted) <= Budget) /\ Cardinality(vs) = Cardinality(V!Counted) - Budget
        BY <2>2, <3>3, SameCount, Zenon
      <4>2. QED
        BY <3>2, <4>1, VictimsSuffice
    <3>5. thread' = [thread EXCEPT ![t] = [thread[t] EXCEPT !.pc = "drop", !.victims = vs]]
      BY <1>2, <3>1
    <3>6. LET w == [thread[t] EXCEPT !.pc = "drop", !.victims = vs] IN
          w \in Worker /\ w.pc = "drop" /\ w.victims = vs /\ w.fd = "gone" /\ w.oid = v
      BY <1>1, <1>2, <3>2 DEF Worker
    <3>7. QED
      BY <1>2, <3>4, <3>5, <3>6
  <2>3. QED
    BY <2>1, <2>2
<1>5. /\ AloneInv' /\ WholeInv'
      /\ \A u \in Threads : (~V!At(u, "idle") => V!Oid(u) \in Videos)' /\ Handle(u)'
  BY <1>2, <1>4, FillsStay DEF VideoInv
<1>6. VideoTypes'
  BY <1>2, <1>4, <1>5 DEF VideoInv, VideoTypes
<1>7. SidecarInv' /\ ThumbInv'
  BY <1>2, <1>4 DEF VideoInv, SidecarInv, ThumbInv, Noted, V!At, V!Oid
<1>8. TrimInv'
  <2>1. V!Counted' = V!Counted /\ V!Counted \in SUBSET Videos
    BY <1>2 DEF V!Counted
  <2>2. ASSUME Cardinality(V!Counted) <= Budget PROVE Cardinality(V!Counted' \ Late') <= Budget
    BY <2>1, <2>2, Fits
  <2>3. ASSUME thread'[t].pc = "drop", Cardinality(V!Counted \ thread'[t].victims) <= Budget
        PROVE  Drops(t)'
    <3>1. (V!Counted' \ Late') \ thread'[t].victims \subseteq V!Counted \ thread'[t].victims
      BY <2>1
    <3>2. V!Counted \ thread'[t].victims \in SUBSET Videos
      BY <2>1
    <3>3. Cardinality((V!Counted' \ Late') \ thread'[t].victims) <= Budget
      BY <2>3, <3>1, <3>2, Fits
    <3>4. QED
      BY <2>3, <3>3 DEF Drops
  <2>4. QED
    BY <1>4, <2>2, <2>3 DEF TrimInv
<1>9. QED
  BY <1>2, <1>5, <1>6, <1>7, <1>8 DEF VideoInv

(* A victim's body goes.                                                    *)
LEMMA DropBodyStep ==
    ASSUME V!VideoCacheAssumption, VideoInv, NEW t \in Threads, NEW v \in Videos, V!DropBody(t, v)
    PROVE  VideoInv'
<1> DEFINE th == V!Handles(v, thread, [body |-> "gone"])
<1>1. /\ thread[t].pc = "drop" /\ v \in thread[t].victims /\ thread[t].fd = "gone"
      /\ UNCHANGED <<sidecar, thumb, met, short, cut, crossed, tornServed>>
      /\ file \in [Videos -> VideoFile] /\ thread \in [Threads -> Worker]
      /\ file' = [file EXCEPT ![v]["body"] = None]
      /\ thread' = [th EXCEPT ![t] = [th[t] EXCEPT !.pc = "dropSidecar", !.victim = v]]
  <2>1. thread[t].pc = "drop" /\ thread[t].fd = "gone"
    BY DEF V!DropBody, V!At, VideoInv, VideoTypes, Handle
  <2>2. file' = [file EXCEPT ![v].body = None] /\ file \in [Videos -> VideoFile]
    BY DEF V!DropBody, VideoInv, VideoTypes
  <2>3. [file EXCEPT ![v].body = None] = [file EXCEPT ![v]["body"] = None]
    BY <2>2 DEF VideoFile
  <2>4. t \in DOMAIN th
    BY DEF V!Handles
  <2>5. thread' = [th EXCEPT ![t] = [th[t] EXCEPT !.pc = "dropSidecar", !.victim = v]]
    BY <2>4 DEF V!DropBody
  <2>6. QED
    BY <2>1, <2>2, <2>3, <2>5 DEF V!DropBody, V!history, VideoInv, VideoTypes
<1>2. /\ file' \in [Videos -> VideoFile] /\ \A w \in Videos \ {v} : file'[w] = file[w]
      /\ file'[v].part = file[v].part /\ file'[v].body = None
  <2>1. None \in Regions
    BY DEF Regions
  <2>2. QED
    BY <1>1, <2>1, BodyBecomes
<1>3. /\ th \in [Threads -> Worker]
      /\ \A u \in Threads :
             /\ th[u].pc = thread[u].pc
             /\ th[u].oid = thread[u].oid
             /\ th[u].victims = thread[u].victims
             /\ th[u].victim = thread[u].victim
             /\ th[u].fd = IF thread[u].oid = v /\ thread[u].fd \in {"body"}
                           THEN "gone" ELSE thread[u].fd
  BY <1>1, HandlesLead
<1> HIDE DEF th
<1>4. /\ thread' \in [Threads -> Worker]
      /\ thread'[t].pc = "dropSidecar" /\ thread'[t].victim = v
      /\ \A u \in Threads \ {t} : thread'[u] = th[u]
      /\ thread'[t].oid = th[t].oid /\ thread'[t].fd = th[t].fd /\ thread'[t].victims = th[t].victims
  <2>1. \A w \in Worker : LET x == [w EXCEPT !.pc = "dropSidecar", !.victim = v] IN
            /\ x \in Worker /\ x.pc = "dropSidecar" /\ x.victim = v
            /\ x.oid = w.oid /\ x.fd = w.fd /\ x.victims = w.victims
    BY DEF Worker
  <2>2. th[t] \in Worker
    BY <1>3
  <2>3. QED
    BY <1>1, <1>3, <2>1, <2>2
<1>5. \A u \in Threads :
          /\ thread'[u].oid = thread[u].oid /\ thread'[u].victims = thread[u].victims
          /\ u # t => thread'[u].pc = thread[u].pc /\ thread'[u].victim = thread[u].victim
          /\ thread'[u].fd = IF thread[u].oid = v /\ thread[u].fd = "body" THEN "gone" ELSE thread[u].fd
  BY <1>3, <1>4
<1>6. VideoTypes'
  <2>1. \A u \in Threads : (~V!At(u, "idle") => V!Oid(u) \in Videos)'
    BY <1>1, <1>5 DEF VideoInv, VideoTypes, V!At, V!Oid
  <2>2. ASSUME NEW u \in Threads, thread'[u].fd # "gone" PROVE Handle(u)'
    <3>1. Handle(u) /\ thread[u] \in Worker /\ (thread[u].pc # "idle" => thread[u].oid \in Videos)
      BY DEF VideoInv, VideoTypes, V!At, V!Oid
    <3>2. thread'[u].fd = thread[u].fd /\ ~(thread[u].oid = v /\ thread[u].fd = "body")
      BY <1>5, <2>2
    <3>3. /\ thread[u].oid \in Videos /\ file[thread[u].oid][thread[u].fd] # None
          /\ thread[u].fd \in {"part", "body"} /\ thread[u].pc \in {"write1", "write2", "replace"}
      BY <2>2, <3>1, <3>2 DEF Handle, Worker, V!Oid
    <3>4. file'[thread[u].oid][thread[u].fd] # None
      <4>1. CASE thread[u].oid # v
        BY <1>2, <3>3, <4>1
      <4>2. CASE thread[u].oid = v
        <5>1. thread[u].fd = "part"
          BY <3>2, <3>3, <4>2
        <5>2. file[v]["part"] # None
          BY <3>3, <4>2, <5>1
        <5>3. file[v] \in VideoFile /\ file'[v] \in VideoFile
          BY <1>1, <1>2
        <5>4. file'[v]["part"] # None
          BY <1>2, <5>2, <5>3 DEF VideoFile
        <5>5. QED
          BY <4>2, <5>1, <5>4
      <4>3. QED
        BY <4>1, <4>2
    <3>5. u # t
      BY <1>1, <3>3
    <3>6. QED
      BY <1>5, <3>2, <3>3, <3>4, <3>5 DEF Handle, V!Oid
  <2>3. \A u \in Threads : Handle(u)'
    BY <2>2 DEF Handle
  <2>4. QED
    BY <1>1, <1>2, <1>4, <2>1, <2>3 DEF VideoInv, VideoTypes
<1>7. AloneInv'
  <2>1. \A u \in Threads, w \in Videos : V!Filling(u, w)' => V!Filling(u, w)
    BY <1>4, <1>5 DEF V!Filling, V!Oid
  <2>2. ASSUME NEW w \in Videos \ (met \cup short), NEW u \in Threads, V!Filling(u, w)' PROVE FillIsSound(u, w)'
    <3>1. V!Filling(u, w) /\ FillIsSound(u, w) /\ u # t
      BY <1>1, <2>1, <2>2 DEF VideoInv, AloneInv, V!Filling
    <3>2. QED
      BY <1>2, <1>5, <3>1 DEF FillIsSound, V!At
  <2>3. QED
    BY <1>1, <1>2, <2>1, <2>2 DEF VideoInv, AloneInv
<1>8. WholeInv'
  <2>1. \A u \in Threads : \A w \in Videos, name \in {"part", "body"} : Completes(u, w, name) => u # t
    BY <1>1 DEF Completes, V!At
  <2>2. ASSUME NEW u \in Threads, NEW w \in Videos, NEW name \in {"part", "body"}, Completes(u, w, name),
               w # v \/ name = "part"
        PROVE  Completes(u, w, name)'
    <3>1. file'[w][name] = file[w][name]
      <4>1. CASE w # v
        BY <1>2, <4>1
      <4>2. CASE w = v /\ name = "part"
        <5>1. file[v] \in VideoFile /\ file'[v] \in VideoFile
          BY <1>1, <1>2
        <5>2. file'[v]["part"] = file[v]["part"]
          BY <1>2, <5>1 DEF VideoFile
        <5>3. QED
          BY <4>2, <5>2
      <4>3. QED
        BY <2>2, <4>1, <4>2
    <3>2. QED
      BY <1>5, <2>1, <2>2, <3>1 DEF Completes, V!At, V!Oid
  <2>3. \A w \in Videos : PartGrows(w) => PartGrows(w)'
    BY <1>2, <2>2 DEF PartGrows
  <2>4. \A w \in Videos : BodyGrows(w) => BodyGrows(w)'
    BY <1>2, <2>2 DEF BodyGrows
  <2>5. QED
    BY <1>1, <2>3, <2>4 DEF VideoInv, WholeInv
<1>9. SidecarInv' /\ ThumbInv'
  <2>1. \A w \in Videos : Noted(w) => Noted(w)'
    BY <1>1, <1>5 DEF Noted, V!At, V!Oid
  <2>2. \A w \in Videos : file'[w].body = None \/ file'[w].body = file[w].body
    BY <1>2
  <2>3. \A u \in Threads : V!At(u, "dropSidecar") =>
            thread[u].victim \in Videos /\ thread'[u].victim = thread[u].victim /\ u # t
    BY <1>1, <1>5 DEF V!At, VideoInv, SidecarInv, VideoTypes, Worker
  <2>4. \A u \in Threads \ {t} : V!At(u, "dropSidecar")' => V!At(u, "dropSidecar")
    BY <1>5 DEF V!At
  <2>5. ASSUME NEW u \in Threads, V!At(u, "dropSidecar")'
        PROVE  /\ thread'[u].victim \in thread'[u].victims
               /\ thread'[u].victim \in crossed' \/ file'[thread'[u].victim].body = None
    <3>1. CASE u = t
      BY <1>1, <1>2, <1>4, <1>5, <3>1
    <3>2. CASE u # t
      BY <1>1, <1>5, <2>2, <2>3, <2>4, <2>5, <3>2 DEF VideoInv, SidecarInv
    <3>3. QED
      BY <3>1, <3>2
  <2>6. SidecarInv'
    BY <1>1, <2>1, <2>2, <2>5 DEF VideoInv, SidecarInv
  <2>7. ThumbInv'
    BY <1>1, <1>5 DEF VideoInv, ThumbInv, V!At, V!Oid
  <2>8. QED
    BY <2>6, <2>7
<1>10. TrimInv'
  <2>1. Late \subseteq Late'
    BY <1>1, <1>5 DEF Late, V!At, V!Oid
  <2>2. V!Counted' \ Late' \subseteq V!Counted \ Late
    BY <1>1, <1>2, <2>1 DEF V!Counted
  <2>3. \A u \in Threads : V!At(u, "trim") => V!At(u, "trim")'
    BY <1>1, <1>5 DEF V!At
  <2>4. \A u \in Threads : thread[u].pc \in {"drop", "dropSidecar"} =>
            /\ thread'[u].pc \in {"drop", "dropSidecar"}
            /\ thread'[u].victims = thread[u].victims
    BY <1>4, <1>5
  <2>5. QED
    BY <1>1, <2>2, <2>3, <2>4, LimitHolds DEF VideoInv
<1>11. QED
  BY <1>1, <1>6, <1>7, <1>8, <1>9, <1>10 DEF VideoInv

(* A victim's sidecar goes; it was counted no more.                         *)
LEMMA DropSidecarStep ==
    ASSUME V!VideoCacheAssumption, VideoInv, NEW t \in Threads, V!DropSidecar(t)
    PROVE  VideoInv'
<1>1. PICK v \in Videos : v = thread[t].victim /\ v \in thread[t].victims
  BY DEF V!DropSidecar, V!At, VideoInv, VideoTypes, SidecarInv, Worker
<1>2. PICK w \in Videos : w = V!Oid(t) /\ thread[t].oid = w
  BY DEF V!DropSidecar, V!At, V!Oid, VideoInv, VideoTypes
<1>3. /\ thread[t].pc = "dropSidecar" /\ thread[t] \in Worker /\ thread[t].fd = "gone"
      /\ UNCHANGED <<file, thumb, met, short, cut, crossed, tornServed>>
      /\ thread \in [Threads -> Worker] /\ sidecar' = [sidecar EXCEPT ![v] = "none"]
      /\ v \in crossed \/ file[v].body = None
  BY <1>1 DEF V!DropSidecar, V!At, V!history, VideoInv, VideoTypes, Handle, SidecarInv
<1>4. /\ thread' \in [Threads -> Worker] /\ \A u \in Threads \ {t} : thread'[u] = thread[u]
      /\ thread'[t].fd = "gone" /\ thread'[t].pc \in {"render", "idle", "drop"}
      /\ thread'[t].pc # "idle" => thread'[t].oid = w
      /\ \/ thread[t].victims = {v} /\ thread'[t].pc \in {"render", "idle"}
         \/ thread'[t].victims = thread[t].victims \ {v} /\ thread'[t].pc = "drop"
  <2>1. CASE thread[t].victims \ {v} = {}
    <3>1. thread' = [thread EXCEPT ![t] = V!Done(t)] /\ thread[t].victims = {v}
      BY <1>1, <2>1 DEF V!DropSidecar
    <3>2. /\ V!Done(t) \in Worker /\ V!Done(t).pc \in {"render", "idle"} /\ V!Done(t).fd = "gone"
          /\ V!Done(t).pc = "render" => V!Done(t).oid = w
      BY DoneIs, <1>2 DEF VideoInv
    <3>3. QED
      BY <1>3, <3>1, <3>2
  <2>2. CASE thread[t].victims \ {v} # {}
    <3> DEFINE x == [thread[t] EXCEPT !.pc = "drop", !.victims = thread[t].victims \ {v}]
    <3>1. thread' = [thread EXCEPT ![t] = x]
      BY <1>1, <1>3, <2>2 DEF V!DropSidecar
    <3>2. x \in Worker /\ x.pc = "drop" /\ x.fd = "gone" /\ x.oid = w /\ x.victims = thread[t].victims \ {v}
      BY <1>2, <1>3 DEF Worker
    <3> HIDE DEF x
    <3>3. QED
      BY <1>3, <3>1, <3>2
  <2>3. QED
    BY <2>1, <2>2
<1>5. /\ AloneInv' /\ WholeInv'
      /\ \A u \in Threads : (~V!At(u, "idle") => V!Oid(u) \in Videos)' /\ Handle(u)'
  BY <1>2, <1>3, <1>4, FillsStay DEF VideoInv
<1>6. VideoTypes'
  BY <1>3, <1>4, <1>5 DEF VideoInv, VideoTypes
<1>7. SidecarInv' /\ ThumbInv'
  <2>1. \A x \in Videos \ {v} : sidecar'[x] = sidecar[x]
    BY <1>3 DEF VideoInv, VideoTypes
  <2>2. \A x \in Videos \ {v} : Noted(x) => Noted(x)'
    BY <1>3, <1>4, <2>1 DEF Noted, V!At, V!Oid
  <2>3. SidecarInv'
    BY <1>3, <1>4, <2>2 DEF VideoInv, SidecarInv, V!At
  <2>4. ThumbInv'
    BY <1>3, <1>4 DEF VideoInv, ThumbInv, V!At, V!Oid
  <2>5. QED
    BY <2>3, <2>4
<1>8. TrimInv'
  <2>1. V!Counted' = V!Counted \ {v} /\ V!Counted \in SUBSET Videos
    BY <1>3 DEF V!Counted, VideoInv, VideoTypes
  <2>2. Late' = Late
    <3>1. \A u \in Threads : V!At(u, "sidecar")' <=> V!At(u, "sidecar")
      BY <1>3, <1>4 DEF V!At
    <3>2. \A u \in Threads : V!At(u, "sidecar") => V!Oid(u)' = V!Oid(u)
      BY <1>3, <1>4 DEF V!At, V!Oid
    <3>3. QED
      BY <3>1, <3>2 DEF Late
  <2>3. ASSUME Cardinality(V!Counted \ Late) <= Budget PROVE Cardinality(V!Counted' \ Late') <= Budget
    BY <2>1, <2>2, <2>3, Fits
  <2>4. ASSUME NEW u \in Threads \ {t}, Drops(u) PROVE Drops(u)'
    <3>1. (V!Counted' \ Late') \ thread'[u].victims \subseteq (V!Counted \ Late) \ thread[u].victims
      BY <1>4, <2>1, <2>2
    <3>2. (V!Counted \ Late) \ thread[u].victims \in SUBSET Videos
      BY <2>1
    <3>3. Cardinality((V!Counted' \ Late') \ thread'[u].victims) <= Budget
      BY <2>4, <3>1, <3>2, Fits DEF Drops
    <3>4. QED
      BY <1>4, <2>4, <3>3 DEF Drops
  <2>5. ASSUME Drops(t) PROVE Drops(t)' \/ Cardinality(V!Counted' \ Late') <= Budget
    <3>1. (V!Counted \ Late) \ thread[t].victims \in SUBSET Videos
      BY <2>1
    <3>2. CASE thread[t].victims = {v}
      <4>1. V!Counted' \ Late' \subseteq (V!Counted \ Late) \ thread[t].victims
        BY <2>1, <2>2, <3>2
      <4>2. QED
        BY <2>5, <3>1, <4>1, Fits DEF Drops
    <3>3. CASE thread'[t].victims = thread[t].victims \ {v} /\ thread'[t].pc = "drop"
      <4>1. (V!Counted' \ Late') \ thread'[t].victims \subseteq (V!Counted \ Late) \ thread[t].victims
        BY <2>1, <2>2, <3>3
      <4>2. Cardinality((V!Counted' \ Late') \ thread'[t].victims) <= Budget
        BY <2>5, <3>1, <4>1, Fits DEF Drops
      <4>3. QED
        BY <3>3, <4>2 DEF Drops
    <3>4. QED
      BY <1>4, <3>2, <3>3
  <2>6. \A u \in Threads : V!At(u, "trim") => V!At(u, "trim")'
    BY <1>3, <1>4 DEF V!At
  <2>7. QED
    BY <1>3, <2>3, <2>4, <2>5, <2>6 DEF VideoInv, TrimInv
<1>9. QED
  BY <1>3, <1>5, <1>6, <1>7, <1>8 DEF VideoInv

(* A body is played, which a fill that met no other leaves whole.           *)
LEMMA ServeStep ==
    ASSUME VideoInv, NEW v \in Videos, V!Serve(v)
    PROVE  VideoInv'
<1>1. /\ UNCHANGED <<file, sidecar, thumb, thread, met, short, cut, crossed>>
      /\ file[v].body = V!Whole => tornServed' = tornServed
      /\ tornServed' \subseteq tornServed \cup {v}
      /\ file[v].body # None
  BY DEF V!Serve
<1>2. v \notin met \cup short => file[v].body = V!Whole
  BY <1>1 DEF VideoInv, AloneInv
<1>3. tornServed' \subseteq met' \cup short'
  BY <1>1, <1>2 DEF VideoInv
<1>4. VideoTypes' /\ AloneInv' /\ WholeInv' /\ SidecarInv' /\ ThumbInv'
  BY <1>1 DEF VideoInv, VideoTypes, AloneInv, WholeInv, SidecarInv, ThumbInv, V!At, V!Oid,
              V!Filling, FillIsSound, PartGrows, BodyGrows, Completes, Noted, Handle
<1>5. TrimInv'
  BY <1>1 DEF VideoInv, TrimInv, V!Counted, Late, Drops, V!At, V!Oid
<1>6. QED
  BY <1>3, <1>4, <1>5 DEF VideoInv

(* A restart: everyone stops, and what was worked on counts as cut short.   *)
LEMMA VideoRestart ==
    ASSUME V!VideoCacheAssumption, VideoInv, V!Restart
    PROVE  VideoInv'
<1>1. /\ UNCHANGED <<file, sidecar, thumb, met, short, crossed, tornServed>> /\ cut \subseteq cut'
      /\ thread' = [u \in Threads |-> V!Idle]
      /\ \A u \in Threads : ~V!At(u, "idle") => V!Oid(u) \in cut'
  BY DEF V!Restart
<1>2. /\ V!Idle \in Worker /\ V!Idle.pc = "idle" /\ V!Idle.fd = "gone"
  BY DEF V!Idle, Worker
<1>3. /\ thread' \in [Threads -> Worker]
      /\ \A u \in Threads : thread'[u].pc = "idle" /\ thread'[u].fd = "gone"
  BY <1>1, <1>2
<1>4. VideoTypes' /\ AloneInv'
  BY <1>1, <1>3 DEF VideoInv, VideoTypes, AloneInv, V!Filling, V!At, Handle
<1>5. \A v \in Videos \ cut', u \in Threads : ~V!At(u, "idle") => V!Oid(u) # v
  BY <1>1
<1>6. WholeInv'
  <2>1. \A v \in Videos \ (cut' \cup short) : file[v].part \in {None, V!Whole} /\ file[v].body \in {None, V!Whole}
    BY <1>1, <1>5 DEF VideoInv, WholeInv, PartGrows, BodyGrows, Completes, V!At, V!Oid
  <2>2. QED
    BY <1>1, <2>1 DEF WholeInv, PartGrows, BodyGrows
<1>7. SidecarInv' /\ ThumbInv'
  <2>1. \A v \in Videos \ cut' : Noted(v) => sidecar[v] = "good"
    BY <1>5 DEF Noted, V!At
  <2>2. \A v \in Videos \ cut' : thumb[v] # "torn"
    BY <1>1, <1>5 DEF VideoInv, ThumbInv, V!At
  <2>3. QED
    BY <1>1, <1>3, <2>1, <2>2 DEF VideoInv, SidecarInv, ThumbInv, Noted, V!At
<1>8. TrimInv'
  <2>1. ASSUME cut' = {} PROVE Cardinality(V!Counted' \ Late') <= Budget
    <3>1. \A u \in Threads : V!At(u, "idle")
      BY <1>1, <2>1
    <3>2. Cardinality(V!Counted \ Late) <= Budget
      BY <1>1, <2>1, <3>1 DEF VideoInv, TrimInv, Drops, V!At
    <3>3. Late = {} /\ Late' = {} /\ V!Counted' = V!Counted
      BY <1>1, <1>3, <3>1 DEF Late, V!At, V!Counted
    <3>4. QED
      BY <3>2, <3>3
  <2>2. QED
    BY <2>1 DEF TrimInv
<1>9. QED
  BY <1>1, <1>4, <1>6, <1>7, <1>8 DEF VideoInv

(* The copy of a captured video ends early: the video joins short.          *)
LEMMA CopyEndsStep ==
    ASSUME VideoInv, NEW t \in Threads, V!CopyEnds(t)
    PROVE  VideoInv'
<1>1. PICK v \in Videos : v = V!Oid(t)
  BY DEF V!CopyEnds, V!At, VideoInv, VideoTypes
<1>2. /\ thread[t] \in Worker /\ thread[t].pc \in {"write1", "write2"} /\ thread[t].oid = v
      /\ thread' = [thread EXCEPT ![t] = [thread[t] EXCEPT !.pc = "replace"]]
      /\ short' = short \cup {v}
      /\ UNCHANGED <<file, sidecar, thumb, met, cut, crossed, tornServed>>
  BY <1>1 DEF V!CopyEnds, V!Oid, VideoInv, VideoTypes
<1>3. /\ thread' \in [Threads -> Worker] /\ \A u \in Threads \ {t} : thread'[u] = thread[u]
      /\ thread'[t].pc = "replace" /\ thread'[t].oid = v /\ thread'[t].fd = thread[t].fd
      /\ thread'[t].victims = thread[t].victims
  <2>1. [thread[t] EXCEPT !.pc = "replace"] \in Worker
    BY <1>2 DEF Worker
  <2>2. QED
    BY <1>2, <2>1 DEF VideoInv, VideoTypes, Worker
<1>4. VideoTypes'
  BY <1>2, <1>3 DEF VideoInv, VideoTypes, V!At, V!Oid, Handle
<1>5. AloneInv'
  <2>1. \A w \in Videos, u \in Threads : V!Filling(u, w)' <=> V!Filling(u, w)
    BY <1>2, <1>3 DEF V!Filling, V!Oid
  <2>2. \A w \in Videos \ {v}, u \in Threads :
            V!Filling(u, w) => u # t /\ (FillIsSound(u, w) => FillIsSound(u, w)')
    BY <1>2, <1>3 DEF V!Filling, V!Oid, FillIsSound, V!At
  <2>3. QED
    BY <1>2, <2>1, <2>2 DEF VideoInv, AloneInv
<1>6. WholeInv'
  <2>1. \A w \in Videos \ {v}, u \in Threads : \A name \in {"part", "body"} :
            Completes(u, w, name) => Completes(u, w, name)'
    BY <1>2, <1>3 DEF Completes, V!At, V!Oid
  <2>2. QED
    BY <1>2, <2>1 DEF VideoInv, WholeInv, PartGrows, BodyGrows
<1>7. SidecarInv' /\ ThumbInv'
  BY <1>2, <1>3 DEF VideoInv, SidecarInv, ThumbInv, Noted, V!At, V!Oid
<1>8. TrimInv'
  BY <1>2, <1>3, LimitStays DEF VideoInv
<1>9. tornServed' \subseteq met' \cup short'
  BY <1>2 DEF VideoInv
<1>10. QED
  BY <1>4, <1>5, <1>6, <1>7, <1>8, <1>9 DEF VideoInv

LEMMA VideoStep ==
    ASSUME V!VideoCacheAssumption, VideoInv, [V!Next]_(V!vars)
    PROVE  VideoInv'
<1>1. CASE V!Restart
  BY <1>1, VideoRestart
<1>2. ASSUME NEW t \in Threads,
             \/ V!Fetch(t) \/ V!FetchFails(t) \/ V!Write(t) \/ V!CopyEnds(t)
             \/ V!WriteFails(t) \/ V!Replace(t) \/ V!Sidecar(t) \/ V!Trim(t) \/ V!DropSidecar(t) \/ V!Render(t) \/ V!RenderFails(t)
             \/ \E v \in Videos : V!DropBody(t, v) \/ \E why \in {"url", "thumb"} : V!Ask(t, v, why)
      PROVE  VideoInv'
  BY <1>2, FetchStep, FetchFailsStep, WriteStep, CopyEndsStep, WriteFailsStep, ReplaceStep, SidecarStep,
     TrimStep, DropSidecarStep, RenderStep, DropBodyStep, AskStep
<1>3. ASSUME NEW v \in Videos, V!Serve(v) PROVE VideoInv'
  BY <1>3, ServeStep
<1>4. CASE UNCHANGED V!vars \/ \E v \in Videos : V!Upload(v)
  <2>1. UNCHANGED <<file, sidecar, thumb, thread, met, short, cut, crossed, tornServed>>
    BY <1>4 DEF V!vars, V!history, V!Upload
  <2>2. VideoTypes' /\ AloneInv' /\ WholeInv' /\ SidecarInv' /\ ThumbInv'
    BY <2>1 DEF VideoInv, VideoTypes, AloneInv, WholeInv, SidecarInv, ThumbInv, V!At, V!Oid,
                V!Filling, FillIsSound, PartGrows, BodyGrows, Completes, Noted, Handle
  <2>3. TrimInv'
    BY <2>1 DEF VideoInv, TrimInv, V!Counted, Late, Drops, V!At, V!Oid
  <2>4. QED
    BY <2>1, <2>2, <2>3 DEF VideoInv
<1>5. QED
  BY <1>1, <1>2, <1>3, <1>4 DEF V!Next

(* What the invariant says when nobody is at work.                          *)
LEMMA VideosTold ==
    ASSUME V!VideoCacheAssumption, VideoInv
    PROVE  V!ServedWhole /\ V!CacheSound
<1>1. V!ServedWhole
  BY DEF VideoInv, V!ServedWhole
<1>2. ASSUME \A t \in Threads : V!At(t, "idle")
      PROVE  /\ \A v \in Videos :
                   /\ file[v].body \in {None, V!Whole} \/ v \in (met \cap cut) \cup short
                   /\ file[v].body = None \/ sidecar[v] = "good" \/ v \in cut \cup crossed
                   /\ thumb[v] = "torn" => v \in cut
             /\ Cardinality(V!Counted) <= Budget \/ cut # {}
  <2>1. \A v \in Videos : file[v].body \in {None, V!Whole} \/ v \in (met \cap cut) \cup short
    BY <1>2 DEF VideoInv, AloneInv, WholeInv, BodyGrows, Completes, V!At
  <2>2. \A v \in Videos : file[v].body = None \/ sidecar[v] = "good" \/ v \in cut \cup crossed
    BY <1>2 DEF VideoInv, SidecarInv, Noted, V!At
  <2>3. \A v \in Videos : thumb[v] = "torn" => v \in cut
    BY <1>2 DEF VideoInv, ThumbInv, V!At
  <2>4. V!Counted \ Late = V!Counted
    BY <1>2 DEF Late, V!At
  <2>5. Cardinality(V!Counted) <= Budget \/ cut # {}
    BY <1>2, <2>4 DEF VideoInv, TrimInv, Drops, V!At
  <2>6. QED
    BY <2>1, <2>2, <2>3, <2>5
<1>3. V!CacheSound
  BY <1>2, SameCount DEF V!CacheSound
<1>4. QED
  BY <1>1, <1>3

-----------------------------------------------------------------------------
(* The copies of files: for any number of threads and replacements a lookup   *)
(* shows what the file held when it looked, outside the cases Excused names.  *)

Source == [written : Nat, time : Nat, place : Nat, empty : BOOLEAN]
Stamps == {None} \cup Seq(Nat)
Copy   == [value : Nat, stamp : Stamps]
LoadSteps == {"read", "clear", "fill", "stampFirst", "stamp", "stampNow", "both"}
Lookup == [todo : Seq(LoadSteps), busy : BOOLEAN, loads : BOOLEAN, need : Nat, stamp : Stamps,
           place : Nat, got : Nat]

Todo(t) == look[t].todo

(* What is left of a load: the steps of the copy from some point on.        *)
LeftToDo(todo) ==
    \/ todo = <<>>
    \/ /\ copyOf \in {"profile", "contacts", "pictures"}
       /\ todo \in {<<"stampNow">>, <<"fill", "stampNow">>}
    \/ copyOf = "profile" /\ todo \in {<<"clear", "fill", "stampNow">>, S!LoadProfile}
    \/ copyOf = "contacts" /\ todo = S!LoadContacts
    \/ /\ copyOf = "pictures"
       /\ todo \in {<<"read", "fill", "stampNow">>, <<"clear", "read", "fill", "stampNow">>,
                    S!LoadPictures}
    \/ copyOf \in {"timeline", "token", "index"} /\ todo \in {<<"stamp">>, <<"fill", "stamp">>}
    \/ copyOf = "timeline" /\ todo = S!TimelinePicture
    \/ copyOf = "token" /\ todo = S!RealToken
    \/ copyOf = "index" /\ todo \in {<<"clear", "fill", "stamp">>, S!MediaRecord}
    \/ copyOf \in {"states", "identity"} /\ todo \in {<<"both">>, S!ContactStateSet}

CopyTypes ==
    /\ copyOf \in {"profile", "contacts", "pictures", "timeline", "token", "index", "states", "identity"}
    /\ source \in Source /\ copy \in Copy /\ look \in [Threads -> Lookup]
    /\ crossed \in BOOLEAN /\ loadsMet \in BOOLEAN /\ emptied \in BOOLEAN /\ failed \in BOOLEAN
    /\ copyOf # "token" => ~source.empty /\ source.place = 1 /\ ~emptied
    /\ \A t \in Threads : /\ LeftToDo(Todo(t))
                          /\ Todo(t) # <<>> => look[t].loads
                          /\ look[t].loads => look[t].busy
                          /\ copyOf # "token" => look[t].place = 1

(* Until loads met, the thread that loads is alone.                         *)
LoadsAlone == ~loadsMet => \A t, u \in Threads : t # u /\ look[t].loads => ~look[u].busy

(* A stamp of the file as it was, which the next change makes an old one.   *)
StampOf(a, b) == IF copyOf = "token" THEN <<a, b>> ELSE <<a>>
Seen(s) ==
    /\ s = None \/ \E a, b \in Nat : s = StampOf(a, b) /\ a <= source.time /\ b <= source.place
    /\ source.empty => s # S!Stamp(source)
SeenInv == ~emptied =>
    /\ Seen(copy.stamp)
    /\ \A t \in Threads : look[t].busy =>
          /\ Seen(look[t].stamp) /\ look[t].need <= source.written
          /\ look[t].stamp = S!Stamp(source) => look[t].need = source.written

(* As long as no write crossed a lookup, the lookups have seen what is there. *)
SteadyInv == ~crossed /\ ~emptied => \A t \in Threads : look[t].busy =>
    look[t].stamp = S!Stamp(source) /\ look[t].need = source.written

(* What was read is what was there at the look, or newer, and fills the copy. *)
ReadDone == {<<"both">>, <<"fill", "stamp">>, <<"fill", "stampNow">>,
             <<"clear", "fill", "stamp">>, <<"clear", "fill", "stampNow">>}
HasRead(t) == Todo(t) \in ReadDone
ReadInv == ~emptied => \A t \in Threads : HasRead(t) => look[t].got >= look[t].need
HasFilled(t) == look[t].busy /\ Todo(t) \in {<<>>, <<"stamp">>, <<"stampNow">>}
FilledInv == ~S!Excused => \A t \in Threads : HasFilled(t) => S!Shown(t) >= look[t].need

(* A copy under the file's stamp holds what the file holds.  The pictures    *)
(* are stamped before they are loaded.                                      *)
Settled == copyOf = "pictures" => \A t \in Threads : Todo(t) = <<>>
CopyInv == ~S!Excused /\ Settled /\ copy.stamp = S!Stamp(source) => copy.value >= source.written

(* The copy keeps an old stamp while a thread loads alone.                  *)
StampInv == ~loadsMet /\ ~emptied /\ copyOf # "pictures" =>
    \A t \in Threads : Todo(t) # <<>> => copy.stamp # S!Stamp(source)

SnapshotInv ==
    /\ CopyTypes /\ LoadsAlone /\ SeenInv /\ SteadyInv /\ ReadInv /\ FilledInv /\ CopyInv /\ StampInv
    /\ S!LookupIsFresh

(* Stamps of other times, or of other places of the token, differ.          *)
LEMMA StampsDiffer ==
    /\ \A a, b, c, d \in Nat : StampOf(a, b) = StampOf(c, d) => a = c /\ (copyOf = "token" => b = d)
    /\ \A a, b \in Nat : StampOf(a, b) \in Seq(Nat)
    /\ \A f \in Source : S!Stamp(f) = StampOf(f.time, f.place) /\ S!Stamp(f) \in Seq(Nat)
<1>1. \A a, b, c, d \in Nat : /\ <<a, b>> = <<c, d>> => a = c /\ b = d
                              /\ <<a>> = <<c>> => a = c
                              /\ <<a, b>> \in Seq(Nat) /\ <<a>> \in Seq(Nat)
  OBVIOUS
<1>2. QED
  BY <1>1 DEF StampOf, S!Stamp, Source

LEMMA SnapshotInit ==
    ASSUME S!SnapshotCacheAssumption, S!Init
    PROVE  SnapshotInv
<1>1. /\ source = [written |-> 1, time |-> 1, place |-> 1, empty |-> FALSE]
      /\ copy = [value |-> 0, stamp |-> None] /\ look = [t \in Threads |-> S!Rest]
      /\ S!Rest = [todo |-> <<>>, busy |-> FALSE, loads |-> FALSE, need |-> 0, stamp |-> None,
                   place |-> 1, got |-> 0]
  BY DEF S!Init, S!Rest
<1>2. source \in Source /\ copy \in Copy /\ S!Rest \in Lookup
  BY <1>1 DEF Source, Copy, Lookup, Stamps
<1>3. copyOf \in {"profile", "contacts", "pictures", "timeline", "token", "index", "states", "identity"}
  BY DEF S!Init, S!Steps
<1>4. /\ \A t \in Threads : Todo(t) = <<>> /\ ~look[t].busy /\ ~look[t].loads /\ look[t].place = 1
      /\ ~source.empty /\ copy.stamp = None /\ source.place = 1
  BY <1>1 DEF Todo
<1>5. CopyTypes
  BY <1>1, <1>2, <1>3, <1>4 DEF S!Init, CopyTypes, LeftToDo
<1>6. copy.stamp # S!Stamp(source)
  BY <1>2, <1>4, StampsDiffer DEF S!SnapshotCacheAssumption
<1>7. LoadsAlone /\ SteadyInv /\ ReadInv /\ FilledInv /\ CopyInv /\ StampInv
  BY <1>4, <1>6 DEF LoadsAlone, SteadyInv, ReadInv, FilledInv, CopyInv, StampInv, HasRead, ReadDone,
                   HasFilled
<1>8. SeenInv
  BY <1>4 DEF SeenInv, Seen
<1>9. S!LookupIsFresh
  BY DEF S!Init, S!LookupIsFresh
<1>10. QED
  BY <1>5, <1>7, <1>8, <1>9 DEF SnapshotInv

(* The exceptions last.                                                     *)
LEMMA ExcusedStays ==
    ASSUME CopyTypes, copyOf' = copyOf, crossed => crossed', loadsMet => loadsMet',
           emptied => emptied', failed => failed', S!Excused
    PROVE  S!Excused'
BY DEF CopyTypes, S!Excused

(* What an unexcused copy has going for it.                                 *)
LEMMA Unexcused ==
    ASSUME CopyTypes, ~S!Excused
    PROVE  /\ ~emptied
           /\ copyOf \in {"profile", "pictures", "index"} => ~loadsMet
           /\ copyOf \in {"profile", "pictures", "contacts"} => ~crossed
           /\ copyOf = "pictures" => ~failed
           /\ copyOf = "contacts" => ~failed \/ ~loadsMet
           /\ copyOf # "states" => ~crossed \/ ~loadsMet
BY DEF CopyTypes, S!Excused

(* The file is written: every stamp that was seen is an old one from now.    *)
LEMMA ChangedStep ==
    ASSUME S!SnapshotCacheAssumption, SnapshotInv, NEW f \in Source, S!Changed(f),
           f.written >= source.written, f.time >= source.time, f.place >= source.place,
           copyOf # "token" => ~f.empty /\ f.place = 1,
           f.time = source.time => (copyOf = "token" /\ f.place > source.place) \/ source.empty,
           source.empty /\ f.time = source.time => f.place = source.place
    PROVE  SnapshotInv'
<1>1. /\ source' = f /\ UNCHANGED <<copyOf, copy, look, loadsMet, emptied, failed, stale>>
      /\ crossed' = (crossed \/ \E t \in Threads : look[t].busy)
      /\ source \in Source
  BY DEF S!Changed, SnapshotInv, CopyTypes
<1>2. ASSUME NEW s, Seen(s)
      PROVE  Seen(s)' /\ s # S!Stamp(f)
  <2>1. /\ f.time \in Nat /\ f.place \in Nat /\ source.time \in Nat /\ source.place \in Nat
        /\ S!Stamp(f) = StampOf(f.time, f.place) /\ S!Stamp(f) \in Seq(Nat)
        /\ S!Stamp(source) = StampOf(source.time, source.place)
    BY <1>1, StampsDiffer DEF Source
  <2>2. s # S!Stamp(f)
    <3>1. CASE s = None
      BY <2>1, <3>1 DEF S!SnapshotCacheAssumption
    <3>2. CASE s # None
      <4>1. PICK a, b \in Nat : s = StampOf(a, b) /\ a <= source.time /\ b <= source.place
        BY <1>2, <3>2 DEF Seen
      <4>2. SUFFICES ASSUME s = S!Stamp(f) PROVE FALSE
        OBVIOUS
      <4>3. a = f.time /\ (copyOf = "token" => b = f.place)
        <5>1. StampOf(a, b) = StampOf(f.time, f.place)
          BY <2>1, <4>1, <4>2
        <5>2. \A c, d \in Nat : StampOf(a, b) = StampOf(c, d) => a = c /\ (copyOf = "token" => b = d)
          BY StampsDiffer
        <5>3. QED
          BY <2>1, <5>1, <5>2
      <4>4. f.time = source.time
        BY <2>1, <4>1, <4>3
      <4>5. source.empty
        BY <2>1, <4>1, <4>3, <4>4
      <4>6. S!Stamp(f) = S!Stamp(source)
        BY <2>1, <4>4, <4>5
      <4>7. QED
        BY <1>2, <4>2, <4>5, <4>6 DEF Seen
    <3>3. QED
      BY <3>1, <3>2
  <2>3. S!Stamp(source)' = S!Stamp(f)
    BY <1>1 DEF S!Stamp
  <2>4. s = None \/ \E a, b \in Nat : s = StampOf(a, b)' /\ a <= f.time /\ b <= f.place
    <3>1. CASE s # None
      <4>1. PICK a, b \in Nat : s = StampOf(a, b) /\ a <= source.time /\ b <= source.place
        BY <1>2, <3>1 DEF Seen
      <4>2. a <= f.time /\ b <= f.place /\ StampOf(a, b)' = StampOf(a, b)
        BY <1>1, <2>1, <4>1 DEF StampOf
      <4>3. QED
        BY <4>1, <4>2
    <3>2. QED
      BY <3>1
  <2>5. QED
    BY <1>1, <2>2, <2>3, <2>4 DEF Seen
<1>3. S!Stamp(source)' = S!Stamp(f)
  BY <1>1 DEF S!Stamp
<1>4. CopyTypes'
  BY <1>1 DEF SnapshotInv, CopyTypes, LeftToDo, Todo
<1>5. LoadsAlone' /\ ReadInv'
  BY <1>1 DEF SnapshotInv, LoadsAlone, ReadInv, HasRead, Todo
<1>6. SeenInv'
  <2>1. \A t \in Threads : look[t].busy /\ ~emptied => look[t].need <= f.written
    BY <1>1 DEF SnapshotInv, SeenInv, CopyTypes, Lookup, Source
  <2>2. QED
    BY <1>1, <1>2, <1>3, <2>1 DEF SnapshotInv, SeenInv
<1>7. SteadyInv'
  BY <1>1 DEF SteadyInv
<1>8. ~S!Excused' => ~S!Excused
  BY <1>1, ExcusedStays DEF SnapshotInv
<1>9. FilledInv'
  BY <1>1, <1>8 DEF SnapshotInv, FilledInv, HasFilled, S!Shown, Todo
<1>10. CopyInv'
  <2>1. ~emptied => copy.stamp # S!Stamp(f)
    BY <1>2 DEF SnapshotInv, SeenInv
  <2>2. ~S!Excused' => ~emptied
    BY <1>1, <1>8, Unexcused DEF SnapshotInv
  <2>3. QED
    BY <1>1, <1>3, <2>1, <2>2 DEF CopyInv
<1>11. StampInv'
  BY <1>1, <1>2, <1>3 DEF SnapshotInv, SeenInv, StampInv, Todo
<1>12. S!LookupIsFresh'
  BY <1>1, <1>8 DEF SnapshotInv, S!LookupIsFresh
<1>13. QED
  BY <1>4, <1>5, <1>6, <1>7, <1>9, <1>10, <1>11, <1>12 DEF SnapshotInv

(* The steps of each load, as the code orders them.                         *)
LEMMA StepsAre ==
    ASSUME copyOf \in {"profile", "contacts", "pictures", "timeline", "token", "index", "states",
                       "identity"}
    PROVE  /\ S!Steps[copyOf] \in Seq(LoadSteps) /\ LeftToDo(S!Steps[copyOf]) /\ LeftToDo(<<>>)
           /\ S!Steps[copyOf] # <<>> /\ Head(S!Steps[copyOf]) \in {"read", "stampFirst"}
<1>1. copyOf \in {"profile", "contacts", "pictures", "timeline"} => S!Steps[copyOf] =
          CASE copyOf = "profile"  -> S!LoadProfile
            [] copyOf = "contacts" -> S!LoadContacts
            [] copyOf = "pictures" -> S!LoadPictures
            [] copyOf = "timeline" -> S!TimelinePicture
  BY DEF S!Steps
<1>2. copyOf \in {"token", "index", "states", "identity"} => S!Steps[copyOf] =
          CASE copyOf = "token"    -> S!RealToken
            [] copyOf = "index"    -> S!MediaRecord
            [] copyOf = "states"   -> S!ContactStateSet
            [] copyOf = "identity" -> S!BridgeIdentity
  BY DEF S!Steps
<1>3. LeftToDo(<<>>) /\ LeftToDo(S!Steps[copyOf])
  BY <1>1, <1>2 DEF LeftToDo, S!ContactStateSet, S!BridgeIdentity
<1>4. /\ \A l \in {S!LoadProfile, S!LoadContacts, S!LoadPictures, S!TimelinePicture, S!RealToken,
                   S!MediaRecord, S!ContactStateSet, S!BridgeIdentity} :
            l \in Seq(LoadSteps) /\ l # <<>> /\ Head(l) \in {"read", "stampFirst"}
  <2> DEFINE Fine(l) == l \in Seq(LoadSteps) /\ l # <<>> /\ Head(l) \in {"read", "stampFirst"}
  <2>1. Fine(S!LoadProfile) /\ Fine(S!LoadContacts)
    BY DEF LoadSteps, S!LoadProfile, S!LoadContacts
  <2>2. Fine(S!LoadPictures)
    BY DEF LoadSteps, S!LoadPictures
  <2>3. Fine(S!TimelinePicture) /\ Fine(S!RealToken)
    BY DEF LoadSteps, S!TimelinePicture, S!RealToken
  <2>4. Fine(S!MediaRecord)
    BY DEF LoadSteps, S!MediaRecord
  <2>5. Fine(S!ContactStateSet) /\ Fine(S!BridgeIdentity)
    BY DEF LoadSteps, S!ContactStateSet, S!BridgeIdentity
  <2>6. QED
    BY <2>1, <2>2, <2>3, <2>4, <2>5
<1>5. QED
  BY <1>1, <1>2, <1>3, <1>4

(* A thread looks at the file.                                              *)
LEMMA LookStep ==
    ASSUME S!SnapshotCacheAssumption, SnapshotInv, NEW t \in Threads, S!Look(t)
    PROVE  SnapshotInv'
<1> DEFINE miss == S!Stamp(source) # copy.stamp
           w == [todo |-> IF miss THEN S!Steps[copyOf] ELSE <<>>, busy |-> TRUE, loads |-> miss,
                 need |-> S!Content(source), stamp |-> S!Stamp(source), place |-> source.place,
                 got |-> copy.value]
<1>1. /\ ~look[t].busy /\ look' = [look EXCEPT ![t] = w]
      /\ loadsMet' = (loadsMet \/ \E u \in Threads : look[u].busy /\ (miss \/ look[u].loads))
      /\ emptied' = (emptied \/ source.empty)
      /\ UNCHANGED <<copyOf, source, copy, crossed, failed, stale>>
  BY DEF S!Look
<1>2. /\ source \in Source /\ copy \in Copy /\ S!Stamp(source) \in Stamps
      /\ S!Content(source) \in Nat /\ S!Content(source) <= source.written
      /\ ~source.empty => S!Content(source) = source.written
      /\ S!Stamp(source) = StampOf(source.time, source.place)
  BY StampsDiffer DEF SnapshotInv, CopyTypes, Source, Stamps, S!Content
<1>3. S!Steps[copyOf] \in Seq(LoadSteps) /\ LeftToDo(S!Steps[copyOf]) /\ LeftToDo(<<>>)
      /\ S!Steps[copyOf] # <<>> /\ Head(S!Steps[copyOf]) \in {"read", "stampFirst"}
  BY StepsAre DEF SnapshotInv, CopyTypes
<1>4. w \in Lookup
  <2>1. (IF miss THEN S!Steps[copyOf] ELSE <<>>) \in Seq(LoadSteps) /\ miss \in BOOLEAN
    BY <1>3
  <2>2. copy.value \in Nat /\ source.place \in Nat
    BY <1>2 DEF Source, Copy
  <2>3. QED
    BY <1>2, <2>1, <2>2 DEF Lookup
<1>5. /\ look' \in [Threads -> Lookup] /\ look'[t] = w /\ \A u \in Threads \ {t} : look'[u] = look[u]
      /\ w.busy /\ (w.loads => miss) /\ (miss => w.loads) /\ w.need = S!Content(source) /\ w.stamp = S!Stamp(source)
      /\ w.got = copy.value /\ w.place = source.place
      /\ miss => w.todo = S!Steps[copyOf]
      /\ ~miss => w.todo = <<>>
  BY <1>1, <1>4 DEF SnapshotInv, CopyTypes
<1> HIDE DEF w
<1>6. CopyTypes'
  <2>1. \A u \in Threads : /\ LeftToDo(Todo(u))'
                           /\ Todo(u)' # <<>> => look'[u].loads
                           /\ look'[u].loads => look'[u].busy
                           /\ copyOf # "token" => look'[u].place = 1
    <3>1. ASSUME NEW todo PROVE LeftToDo(todo)' <=> LeftToDo(todo)
      BY <1>1 DEF LeftToDo
    <3>2. LeftToDo(w.todo) /\ (w.todo # <<>> => w.loads) /\ (copyOf # "token" => w.place = 1)
      BY <1>3, <1>5 DEF SnapshotInv, CopyTypes
    <3>3. ASSUME NEW u \in Threads
          PROVE  /\ LeftToDo(look'[u].todo)
                 /\ look'[u].todo # <<>> => look'[u].loads
                 /\ look'[u].loads => look'[u].busy
                 /\ copyOf # "token" => look'[u].place = 1
      <4>1. CASE u = t
        BY <1>5, <3>2, <4>1
      <4>2. CASE u # t
        BY <1>5, <4>2 DEF SnapshotInv, CopyTypes, Todo
      <4>3. QED
        BY <4>1, <4>2
    <3>4. QED
      BY <1>1, <3>1, <3>3 DEF Todo
  <2>2. loadsMet' \in BOOLEAN /\ emptied' \in BOOLEAN /\ (copyOf # "token" => ~emptied')
    BY <1>1, <1>2 DEF SnapshotInv, CopyTypes, Source
  <2>3. QED
    BY <1>1, <1>5, <2>1, <2>2 DEF SnapshotInv, CopyTypes
<1>7. Todo(t) = <<>> /\ \A u \in Threads \ {t} : Todo(u)' = Todo(u)
  BY <1>1, <1>5 DEF SnapshotInv, CopyTypes, Todo
<1>8. ~loadsMet' => ~loadsMet /\ \A u \in Threads : look[u].busy => ~miss /\ ~look[u].loads
  BY <1>1
<1>9. LoadsAlone'
  <2>1. ASSUME ~loadsMet', NEW u \in Threads, NEW x \in Threads, u # x, look'[u].loads
        PROVE  ~look'[x].busy
    <3>1. CASE u = t
      BY <1>5, <1>8, <2>1, <3>1
    <3>2. CASE u # t
      <4>1. look[u].loads /\ look[u].busy
        BY <1>5, <2>1, <3>2 DEF SnapshotInv, CopyTypes
      <4>2. QED
        BY <1>8, <2>1, <4>1
    <3>3. QED
      BY <3>1, <3>2
  <2>2. QED
    BY <2>1 DEF LoadsAlone
<1>10. ~emptied' => ~emptied /\ ~source.empty
  BY <1>1
<1>11. S!Stamp(source)' = S!Stamp(source) /\ \A s : Seen(s)' <=> Seen(s)
  BY <1>1 DEF S!Stamp, Seen, StampOf
<1>12. ~source.empty => Seen(S!Stamp(source))
  BY <1>2 DEF Seen, Source
<1>13. SeenInv' /\ SteadyInv'
  BY <1>1, <1>2, <1>5, <1>10, <1>11, <1>12 DEF SnapshotInv, SeenInv, SteadyInv
<1>14. ReadInv'
  <2>1. ~HasRead(t)'
    <3>1. w.todo = <<>> \/ (w.todo # <<>> /\ Head(w.todo) \in {"read", "stampFirst"})
      BY <1>3, <1>5
    <3>2. \A todo \in ReadDone : todo # <<>> /\ Head(todo) \in {"both", "fill", "clear"}
      BY DEF ReadDone
    <3>3. QED
      BY <1>5, <3>1, <3>2 DEF HasRead, Todo
  <2>2. QED
    BY <1>5, <1>7, <1>10, <2>1 DEF SnapshotInv, ReadInv, HasRead
<1>15. ~S!Excused' => ~S!Excused /\ ~emptied'
  BY <1>1, <1>6, ExcusedStays, Unexcused DEF SnapshotInv, CopyTypes, S!Excused
<1>16. FilledInv'
  <2>1. ASSUME ~S!Excused', HasFilled(t)' PROVE S!Shown(t)' >= w.need
    <3>1. ~miss
      BY <1>3, <1>5, <2>1 DEF HasFilled, Todo
    <3>2. Settled
      <4>1. copyOf = "pictures" => ~loadsMet'
        BY <1>1, <1>6, <2>1, Unexcused DEF CopyTypes, S!Excused
      <4>2. QED
        BY <1>8, <4>1 DEF Settled, SnapshotInv, CopyTypes
    <3>3. copy.value >= source.written
      BY <1>15, <2>1, <3>1, <3>2 DEF SnapshotInv, CopyInv
    <3>4. S!Shown(t)' = copy.value /\ w.need = source.written
      BY <1>1, <1>2, <1>5, <1>10, <1>15, <2>1 DEF S!Shown
    <3>5. QED
      BY <3>3, <3>4
  <2>2. \A u \in Threads \ {t} : (HasFilled(u)' <=> HasFilled(u)) /\ S!Shown(u)' = S!Shown(u)
    BY <1>1, <1>5, <1>7 DEF HasFilled, S!Shown
  <2>3. QED
    BY <1>5, <1>15, <2>1, <2>2 DEF SnapshotInv, FilledInv
<1>17. CopyInv' /\ StampInv'
  <2>1. Settled' => Settled
    BY <1>1, <1>7 DEF Settled
  <2>2. Todo(t)' # <<>> => copy.stamp # S!Stamp(source)
    BY <1>5 DEF Todo
  <2>3. QED
    BY <1>1, <1>7, <1>8, <1>10, <1>11, <1>15, <2>1, <2>2 DEF SnapshotInv, CopyInv, StampInv
<1>18. S!LookupIsFresh'
  BY <1>1, <1>15 DEF SnapshotInv, S!LookupIsFresh
<1>19. QED
  BY <1>6, <1>9, <1>13, <1>14, <1>16, <1>17, <1>18 DEF SnapshotInv

(* A lookup uses what it found.                                             *)
LEMMA UseStep ==
    ASSUME SnapshotInv, NEW t \in Threads, S!Use(t)
    PROVE  SnapshotInv'
<1>1. /\ look[t].busy /\ Todo(t) = <<>> /\ look' = [look EXCEPT ![t] = S!Rest]
      /\ stale' = (stale \/ S!Shown(t) < look[t].need)
      /\ UNCHANGED <<copyOf, source, copy, crossed, loadsMet, emptied, failed>>
  BY DEF S!Use, Todo
<1>2. /\ S!Rest \in Lookup /\ ~S!Rest.busy /\ ~S!Rest.loads /\ S!Rest.todo = <<>> /\ S!Rest.place = 1
  BY DEF S!Rest, Lookup, Stamps
<1>3. /\ look' \in [Threads -> Lookup] /\ look'[t] = S!Rest /\ \A u \in Threads \ {t} : look'[u] = look[u]
      /\ Todo(t)' = <<>> /\ ~look'[t].busy /\ \A u \in Threads : Todo(u)' = Todo(u)
  BY <1>1, <1>2 DEF SnapshotInv, CopyTypes, Todo
<1>4. CopyTypes'
  BY <1>1, <1>2, <1>3 DEF SnapshotInv, CopyTypes, LeftToDo
<1>5. LoadsAlone'
  BY <1>1, <1>2, <1>3 DEF SnapshotInv, LoadsAlone
<1>6. S!Stamp(source)' = S!Stamp(source) /\ \A s : Seen(s)' <=> Seen(s)
  BY <1>1 DEF S!Stamp, Seen, StampOf
<1>7. S!Excused' <=> S!Excused
  BY <1>1 DEF S!Excused
<1>8. SeenInv' /\ SteadyInv' /\ ReadInv'
  <2>1. SeenInv'
    BY <1>1, <1>3, <1>6 DEF SnapshotInv, SeenInv
  <2>2. SteadyInv'
    BY <1>1, <1>3, <1>6 DEF SnapshotInv, SteadyInv
  <2>3. ~HasRead(t)' /\ \A u \in Threads \ {t} : HasRead(u)' <=> HasRead(u)
    BY <1>3 DEF HasRead, ReadDone
  <2>4. ReadInv'
    BY <1>1, <1>3, <2>3 DEF SnapshotInv, ReadInv
  <2>5. QED
    BY <2>1, <2>2, <2>4
<1>9. FilledInv' /\ CopyInv' /\ StampInv'
  BY <1>1, <1>2, <1>3, <1>6, <1>7
     DEF SnapshotInv, FilledInv, HasFilled, S!Shown, CopyInv, Settled, StampInv
<1>10. S!LookupIsFresh'
  <2>1. ASSUME ~S!Excused PROVE ~(S!Shown(t) < look[t].need)
    <3>1. S!Shown(t) >= look[t].need
      BY <1>1, <2>1 DEF SnapshotInv, FilledInv, HasFilled
    <3>2. S!Shown(t) \in Nat /\ look[t].need \in Nat
      BY DEF SnapshotInv, CopyTypes, Lookup, Copy, S!Shown
    <3>3. QED
      BY <3>1, <3>2
  <2>2. QED
    BY <1>1, <1>7, <2>1 DEF SnapshotInv, S!LookupIsFresh
<1>11. QED
  BY <1>4, <1>5, <1>8, <1>9, <1>10 DEF SnapshotInv

(* What each step of a load comes after and before.                         *)
LEMMA StepOrder ==
    ASSUME NEW todo, LeftToDo(todo), todo # <<>>,
           NEW task, task = Head(todo), NEW rest, rest = Tail(todo)
    PROVE  /\ LeftToDo(rest) /\ task \in LoadSteps /\ rest \in Seq(LoadSteps)
           /\ task = "read"  => rest \in ReadDone
           /\ task = "clear" => /\ copyOf \in {"profile", "index", "pictures"}
                                /\ copyOf # "pictures" => todo \in ReadDone
           /\ task = "fill"  => /\ copyOf \notin {"states", "identity"} /\ todo \in ReadDone
           /\ task = "stampFirst" => copyOf = "pictures"
           /\ task = "stamp" => todo = <<"stamp">> /\ copyOf \in {"timeline", "token", "index"}
           /\ task = "stampNow" => todo = <<"stampNow">> /\ copyOf \in {"profile", "contacts", "pictures"}
           /\ task = "both" => todo \in ReadDone /\ copyOf \in {"states", "identity"}
           /\ task \in {"stamp", "stampNow", "both"} <=> rest = <<>>
           /\ rest \in {<<"stamp">>, <<"stampNow">>} => task = "fill"
           /\ rest \in ReadDone => task = "read" \/ (task = "clear" /\ copyOf # "pictures") \/ copyOf = "pictures"
           /\ rest \in ReadDone /\ task = "clear" => todo \in ReadDone
           /\ rest \in ReadDone => task \in {"read", "clear"}
<1>1. CASE todo = <<"stampNow">> /\ copyOf \in {"profile", "contacts", "pictures"}
  BY <1>1 DEF LeftToDo, LoadSteps, ReadDone
<1>2. CASE todo = <<"fill", "stampNow">> /\ copyOf \in {"profile", "contacts", "pictures"}
  BY <1>2 DEF LeftToDo, LoadSteps, ReadDone
<1>3. CASE todo = <<"stamp">> /\ copyOf \in {"timeline", "token", "index"}
  BY <1>3 DEF LeftToDo, LoadSteps, ReadDone
<1>4. CASE todo = <<"fill", "stamp">> /\ copyOf \in {"timeline", "token", "index"}
  BY <1>4 DEF LeftToDo, LoadSteps, ReadDone
<1>5. CASE todo = <<"clear", "fill", "stampNow">> /\ copyOf = "profile"
  BY <1>5 DEF LeftToDo, LoadSteps, ReadDone
<1>6. CASE todo = S!LoadProfile /\ copyOf = "profile"
  BY <1>6 DEF LeftToDo, LoadSteps, ReadDone, S!LoadProfile
<1>7. CASE todo = S!LoadContacts /\ copyOf = "contacts"
  BY <1>7 DEF LeftToDo, LoadSteps, ReadDone, S!LoadContacts
<1>8. CASE todo = <<"read", "fill", "stampNow">> /\ copyOf = "pictures"
  BY <1>8 DEF LeftToDo, LoadSteps, ReadDone
<1>9. CASE todo = <<"clear", "read", "fill", "stampNow">> /\ copyOf = "pictures"
  BY <1>9 DEF LeftToDo, LoadSteps, ReadDone
<1>10. CASE todo = S!LoadPictures /\ copyOf = "pictures"
  BY <1>10 DEF LeftToDo, LoadSteps, ReadDone, S!LoadPictures
<1>11. CASE todo = S!TimelinePicture /\ copyOf = "timeline"
  BY <1>11 DEF LeftToDo, LoadSteps, ReadDone, S!TimelinePicture
<1>12. CASE todo = S!RealToken /\ copyOf = "token"
  BY <1>12 DEF LeftToDo, LoadSteps, ReadDone, S!RealToken
<1>13. CASE todo = <<"clear", "fill", "stamp">> /\ copyOf = "index"
  BY <1>13 DEF LeftToDo, LoadSteps, ReadDone
<1>14. CASE todo = S!MediaRecord /\ copyOf = "index"
  BY <1>14 DEF LeftToDo, LoadSteps, ReadDone, S!MediaRecord
<1>15. CASE todo = <<"both">> /\ copyOf \in {"states", "identity"}
  BY <1>15 DEF LeftToDo, LoadSteps, ReadDone
<1>16. CASE todo = S!ContactStateSet /\ copyOf \in {"states", "identity"}
  BY <1>16 DEF LeftToDo, LoadSteps, ReadDone, S!ContactStateSet
<1>17. QED
  BY <1>1, <1>2, <1>3, <1>4, <1>5, <1>6, <1>7, <1>8, <1>9, <1>10, <1>11, <1>12, <1>13, <1>14,
     <1>15, <1>16, Zenon DEF LeftToDo

(* A load goes one step on.                                                 *)
LEMMA LoadStep ==
    ASSUME S!SnapshotCacheAssumption, SnapshotInv, NEW t \in Threads, S!Step(t)
    PROVE  SnapshotInv'
<1>1. PICK task, rest, g :
          /\ task = Head(Todo(t)) /\ rest = Tail(Todo(t))
          /\ g = IF task # "read" THEN look[t].got
                 ELSE IF look[t].place = source.place THEN S!Content(source) ELSE look[t].need
  OBVIOUS
<1>2. /\ Todo(t) # <<>> /\ look[t] \in Lookup /\ look[t].busy /\ look[t].loads
      /\ look' = [look EXCEPT ![t] = [look[t] EXCEPT !.todo = rest, !.got = g]]
      /\ emptied' = (emptied \/ (task = "read" /\ source.empty))
      /\ UNCHANGED <<copyOf, source, crossed, loadsMet, failed, stale>>
  BY <1>1 DEF S!Step, Todo, SnapshotInv, CopyTypes
<1>3. /\ task = "clear" => copy' = [copy EXCEPT !.value = 0]
      /\ task = "fill"  => copy' = [copy EXCEPT !.value = look[t].got]
      /\ task \in {"stampFirst", "stamp"} => copy' = [copy EXCEPT !.stamp = look[t].stamp]
      /\ task = "stampNow" => copy' = [copy EXCEPT !.stamp = S!Stamp(source)]
      /\ task = "both" => copy' = [value |-> look[t].got, stamp |-> look[t].stamp]
      /\ task = "read" => copy' = copy
  BY <1>1 DEF S!Step, Todo
<1>4. /\ LeftToDo(Todo(t)) /\ source \in Source /\ copy \in Copy /\ S!Stamp(source) \in Stamps
      /\ look[t].need \in Nat /\ look[t].got \in Nat /\ look[t].stamp \in Stamps
      /\ S!Content(source) \in Nat /\ (~source.empty => S!Content(source) = source.written)
      /\ S!Stamp(source) = StampOf(source.time, source.place)
  BY <1>2, StampsDiffer DEF SnapshotInv, CopyTypes, Source, Stamps, S!Content, Lookup
<1>5. /\ LeftToDo(rest) /\ task \in LoadSteps /\ rest \in Seq(LoadSteps)
      /\ task = "read"  => rest \in ReadDone
      /\ task = "clear" => /\ copyOf \in {"profile", "index", "pictures"}
                           /\ copyOf # "pictures" => Todo(t) \in ReadDone
      /\ task = "fill"  => copyOf \notin {"states", "identity"} /\ Todo(t) \in ReadDone
      /\ task = "stampFirst" => copyOf = "pictures"
      /\ task = "stamp" => Todo(t) = <<"stamp">> /\ copyOf \in {"timeline", "token", "index"}
      /\ task = "stampNow" => Todo(t) = <<"stampNow">> /\ copyOf \in {"profile", "contacts", "pictures"}
      /\ task = "both" => Todo(t) \in ReadDone /\ copyOf \in {"states", "identity"}
      /\ task \in {"stamp", "stampNow", "both"} <=> rest = <<>>
      /\ rest \in {<<"stamp">>, <<"stampNow">>} => task = "fill"
      /\ rest \in ReadDone /\ task = "clear" => Todo(t) \in ReadDone
      /\ rest \in ReadDone => task \in {"read", "clear"}
  <2>1. LeftToDo(Todo(t)) /\ Todo(t) # <<>> /\ task = Head(Todo(t)) /\ rest = Tail(Todo(t))
    BY <1>1, <1>2, <1>4
  <2>2. PICK todo : todo = Todo(t)
    OBVIOUS
  <2>3. LeftToDo(todo) /\ todo # <<>> /\ task = Head(todo) /\ rest = Tail(todo)
    BY <2>1, <2>2
  <2>4. /\ LeftToDo(rest) /\ task \in LoadSteps /\ rest \in Seq(LoadSteps)
        /\ task = "read"  => rest \in ReadDone
        /\ task = "clear" => /\ copyOf \in {"profile", "index", "pictures"}
                             /\ copyOf # "pictures" => todo \in ReadDone
        /\ task = "fill"  => copyOf \notin {"states", "identity"} /\ todo \in ReadDone
        /\ task = "stampFirst" => copyOf = "pictures"
        /\ task = "stamp" => todo = <<"stamp">> /\ copyOf \in {"timeline", "token", "index"}
        /\ task = "stampNow" =>
              todo = <<"stampNow">> /\ copyOf \in {"profile", "contacts", "pictures"}
        /\ task = "both" => todo \in ReadDone /\ copyOf \in {"states", "identity"}
        /\ task \in {"stamp", "stampNow", "both"} <=> rest = <<>>
        /\ rest \in {<<"stamp">>, <<"stampNow">>} => task = "fill"
        /\ rest \in ReadDone /\ task = "clear" => todo \in ReadDone
        /\ rest \in ReadDone => task \in {"read", "clear"}
    BY <2>3, StepOrder, ZenonT(60)
  <2>5. QED
    BY <2>2, <2>4, Zenon
<1>6. /\ copy' \in Copy
      /\ copy'.value = CASE task = "clear" -> 0
                         [] task \in {"fill", "both"} -> look[t].got
                         [] OTHER -> copy.value
      /\ copy'.stamp = CASE task \in {"stampFirst", "stamp", "both"} -> look[t].stamp
                         [] task = "stampNow" -> S!Stamp(source)
                         [] OTHER -> copy.stamp
  BY <1>3, <1>4, <1>5 DEF Copy, LoadSteps
<1>7. /\ look' \in [Threads -> Lookup] /\ \A u \in Threads \ {t} : look'[u] = look[u]
      /\ look'[t].todo = rest /\ look'[t].got = g /\ look'[t].busy /\ look'[t].loads
      /\ look'[t].need = look[t].need /\ look'[t].stamp = look[t].stamp /\ look'[t].place = look[t].place
  <2>1. g \in Nat
    BY <1>1, <1>4
  <2>2. LET w == [look[t] EXCEPT !.todo = rest, !.got = g] IN
        /\ w \in Lookup /\ w.todo = rest /\ w.got = g /\ w.busy /\ w.loads
        /\ w.need = look[t].need /\ w.stamp = look[t].stamp /\ w.place = look[t].place
    BY <1>2, <1>5, <2>1 DEF Lookup
  <2>3. QED
    BY <1>2, <2>2 DEF SnapshotInv, CopyTypes
<1>8. \A u \in Threads \ {t} : Todo(u)' = Todo(u)
  BY <1>7 DEF Todo
<1>9. CopyTypes'
  <2>1. ASSUME NEW todo PROVE LeftToDo(todo)' <=> LeftToDo(todo)
    BY <1>2 DEF LeftToDo
  <2>2. \A u \in Threads : LeftToDo(look'[u].todo)
    BY <1>5, <1>7 DEF SnapshotInv, CopyTypes, Todo
  <2>3. \A u \in Threads : /\ look'[u].todo # <<>> => look'[u].loads
                           /\ look'[u].loads => look'[u].busy
                           /\ copyOf # "token" => look'[u].place = 1
    BY <1>7 DEF SnapshotInv, CopyTypes, Todo
  <2>4. emptied' \in BOOLEAN /\ (copyOf # "token" => ~emptied')
    BY <1>2 DEF SnapshotInv, CopyTypes
  <2>5. QED
    BY <1>2, <1>6, <1>7, <2>1, <2>2, <2>3, <2>4 DEF SnapshotInv, CopyTypes, Todo
<1>10. LoadsAlone'
  BY <1>2, <1>7 DEF SnapshotInv, LoadsAlone
<1>11. S!Stamp(source)' = S!Stamp(source) /\ \A s : Seen(s)' <=> Seen(s)
  BY <1>2 DEF S!Stamp, Seen, StampOf
<1>12. ~emptied' => ~emptied /\ (task = "read" => ~source.empty)
  BY <1>2
<1>13. SeenInv'
  <2>1. copyOf # "token" => Seen(S!Stamp(source))
    BY <1>4 DEF Seen, Source, SnapshotInv, CopyTypes
  <2>2. ~emptied => Seen(look[t].stamp) /\ Seen(copy.stamp)
    BY <1>2 DEF SnapshotInv, SeenInv
  <2>3. ~emptied => Seen(copy'.stamp)
    BY <1>5, <1>6, <2>1, <2>2
  <2>4. QED
    BY <1>2, <1>7, <1>11, <1>12, <2>3 DEF SnapshotInv, SeenInv
<1>14. SteadyInv'
  BY <1>2, <1>7, <1>11, <1>12 DEF SnapshotInv, SteadyInv
<1>15. ~emptied' /\ HasRead(t)' => g >= look[t].need
  <2>1. CASE task = "read"
    BY <1>1, <1>2, <1>4, <1>12, <2>1 DEF SnapshotInv, SeenInv
  <2>2. CASE task # "read"
    BY <1>1, <1>5, <1>7, <1>12, <2>2 DEF HasRead, Todo, SnapshotInv, ReadInv
  <2>3. QED
    BY <2>1, <2>2
<1>16. ReadInv'
  BY <1>7, <1>8, <1>12, <1>15 DEF SnapshotInv, ReadInv, HasRead
<1>17. StampInv'
  <2>1. \A u \in Threads \ {t} : ~loadsMet => Todo(u) = <<>>
    BY <1>2 DEF SnapshotInv, LoadsAlone, CopyTypes
  <2>2. rest # <<>> /\ copyOf # "pictures" => copy'.stamp = copy.stamp
    BY <1>5, <1>6
  <2>3. QED
    BY <1>2, <1>7, <1>8, <1>11, <1>12, <2>1, <2>2 DEF SnapshotInv, StampInv, Todo
<1>18. ~S!Excused' => ~S!Excused /\ ~emptied'
  BY <1>2, <1>9, ExcusedStays, Unexcused DEF SnapshotInv, CopyTypes, S!Excused
<1>19. ASSUME ~S!Excused'
       PROVE  /\ ~emptied
              /\ copyOf \in {"profile", "pictures", "index"} => ~loadsMet
              /\ copyOf \in {"profile", "pictures", "contacts"} => ~crossed
              /\ copyOf # "states" => ~crossed \/ ~loadsMet
  BY <1>18, <1>19, Unexcused DEF SnapshotInv
<1>20. ~emptied => /\ HasRead(t) => look[t].got >= look[t].need
                   /\ look[t].stamp = S!Stamp(source) => look[t].need = source.written
                   /\ ~crossed => look[t].need = source.written
  BY <1>2 DEF SnapshotInv, ReadInv, SeenInv, SteadyInv
<1>21. ~S!Excused => (Todo(t) \in {<<"stamp">>, <<"stampNow">>} => S!Shown(t) >= look[t].need)
  BY <1>2 DEF SnapshotInv, FilledInv, HasFilled
<1>22. FilledInv'
  <2>1. ASSUME ~S!Excused', HasFilled(t)' PROVE S!Shown(t)' >= look[t].need
    <3>1. task \in {"fill", "stamp", "stampNow", "both"}
      BY <1>5, <1>7, <2>1 DEF HasFilled, Todo
    <3>2. CASE task = "fill"
      <4>1. S!Shown(t)' = look[t].got
        BY <1>2, <1>5, <1>6, <3>2 DEF S!Shown
      <4>2. QED
        BY <1>5, <1>19, <1>20, <2>1, <3>2, <4>1 DEF HasRead
    <3>3. CASE task = "both"
      <4>1. S!Shown(t)' = look[t].got
        BY <1>1, <1>2, <1>6, <1>7, <3>3 DEF S!Shown
      <4>2. QED
        BY <1>5, <1>19, <1>20, <2>1, <3>3, <4>1 DEF HasRead
    <3>4. CASE task \in {"stamp", "stampNow"}
      <4>1. S!Shown(t)' = S!Shown(t) /\ Todo(t) \in {<<"stamp">>, <<"stampNow">>}
        BY <1>1, <1>2, <1>5, <1>6, <1>7, <3>4 DEF S!Shown
      <4>2. QED
        BY <1>18, <1>21, <2>1, <4>1
    <3>5. QED
      BY <3>1, <3>2, <3>3, <3>4
  <2>2. ASSUME ~S!Excused', NEW u \in Threads \ {t}, HasFilled(u)' PROVE S!Shown(u)' >= look[u].need
    <3>1. HasFilled(u) /\ S!Shown(u) >= look[u].need /\ look[u].busy
      BY <1>7, <1>8, <1>18, <2>2 DEF HasFilled, SnapshotInv, FilledInv
    <3>2. CASE copyOf = "states" \/ copy'.value = copy.value
      BY <1>2, <1>7, <3>1, <3>2 DEF S!Shown
    <3>3. CASE copyOf # "states" /\ copy'.value # copy.value
      <4>1. loadsMet
        BY <1>2, <3>1 DEF SnapshotInv, LoadsAlone
      <4>2. ~crossed /\ task \in {"fill", "both"}
        BY <1>5, <1>6, <1>19, <2>2, <3>3, <4>1 DEF LoadSteps
      <4>3. look[u].need = source.written /\ copy'.value >= source.written
        BY <1>5, <1>6, <1>19, <1>20, <2>2, <3>1, <4>2 DEF HasRead, SnapshotInv, SteadyInv
      <4>4. QED
        BY <1>2, <3>3, <4>3 DEF S!Shown
    <3>4. QED
      BY <3>2, <3>3
  <2>3. QED
    BY <1>7, <2>1, <2>2 DEF FilledInv
<1>23. CopyInv'
  <2>1. SUFFICES ASSUME ~S!Excused', Settled', copy'.stamp = S!Stamp(source)
                 PROVE  copy'.value >= source.written
    BY <1>2, <1>11 DEF CopyInv
  <2>2. ~S!Excused /\ ~emptied
    BY <1>18, <1>19, <2>1
  <2>3. copyOf = "pictures" => task = "stampNow"
    BY <1>2, <1>5, <1>7, <2>1 DEF Settled, Todo
  <2>4. CASE task = "read"
    BY <1>6, <2>1, <2>2, <2>3, <2>4 DEF SnapshotInv, CopyInv, Settled
  <2>5. CASE task \in {"clear", "fill"}
    <3>1. copy.stamp = S!Stamp(source)
      BY <1>6, <2>1, <2>5
    <3>2. loadsMet
      BY <1>2, <2>2, <2>3, <2>5, <3>1 DEF SnapshotInv, StampInv
    <3>3. task = "fill" /\ ~crossed
      BY <1>5, <1>19, <2>1, <2>5, <3>2
    <3>4. QED
      BY <1>5, <1>6, <1>20, <2>2, <3>3 DEF HasRead
  <2>6. CASE task = "both"
    BY <1>5, <1>6, <1>20, <2>1, <2>2, <2>6 DEF HasRead
  <2>7. CASE task \in {"stamp", "stampNow"}
    <3>1. copy'.value = copy.value /\ S!Shown(t) = copy.value
      BY <1>5, <1>6, <2>7 DEF S!Shown
    <3>2. look[t].need = source.written
      BY <1>5, <1>6, <1>19, <1>20, <2>1, <2>2, <2>7
    <3>3. QED
      BY <1>5, <1>21, <2>2, <2>7, <3>1, <3>2
  <2>8. QED
    BY <1>5, <2>3, <2>4, <2>5, <2>6, <2>7 DEF LoadSteps
<1>24. S!LookupIsFresh'
  BY <1>2, <1>18 DEF SnapshotInv, S!LookupIsFresh
<1>25. QED
  BY <1>9, <1>10, <1>13, <1>14, <1>16, <1>17, <1>22, <1>23, <1>24 DEF SnapshotInv

(* The file cannot be read.                                                 *)
LEMMA ReadFailsStep ==
    ASSUME S!SnapshotCacheAssumption, SnapshotInv, NEW t \in Threads, S!ReadFails(t)
    PROVE  SnapshotInv'
<1>1. /\ Todo(t) # <<>> /\ look[t].busy /\ look[t].loads /\ look' = [look EXCEPT ![t] = S!Rest] /\ failed'
      /\ UNCHANGED <<copyOf, source, crossed, loadsMet, emptied, stale>>
  BY DEF S!ReadFails, Todo, SnapshotInv, CopyTypes
<1>2. /\ copyOf \in {"profile", "contacts"} => copy' = [copy EXCEPT !.value = 0]
      /\ copyOf = "pictures" => copy' = [copy EXCEPT !.stamp = S!Stamp(source)]
      /\ copyOf = "states" => copy' = [value |-> 0, stamp |-> look[t].stamp]
      /\ copyOf \notin {"profile", "contacts", "pictures", "states"} => copy' = copy
  BY DEF S!ReadFails
<1>3. /\ source \in Source /\ copy \in Copy /\ S!Stamp(source) \in Stamps
      /\ S!Stamp(source) = StampOf(source.time, source.place) /\ look[t].stamp \in Stamps
  BY StampsDiffer DEF SnapshotInv, CopyTypes, Source, Stamps, Lookup
<1>4. /\ copy' \in Copy
      /\ copyOf \in {"profile", "contacts", "states"} \/ copy'.value = copy.value
      /\ copy'.stamp = IF copyOf = "pictures" THEN S!Stamp(source)
                       ELSE IF copyOf = "states" THEN look[t].stamp ELSE copy.stamp
  BY <1>2, <1>3 DEF Copy
<1>5. /\ S!Rest \in Lookup /\ ~S!Rest.busy /\ ~S!Rest.loads /\ S!Rest.todo = <<>> /\ S!Rest.place = 1
  BY DEF S!Rest, Lookup, Stamps
<1>6. /\ look' \in [Threads -> Lookup] /\ look'[t] = S!Rest /\ \A u \in Threads \ {t} : look'[u] = look[u]
      /\ Todo(t)' = <<>> /\ ~look'[t].busy /\ \A u \in Threads \ {t} : Todo(u)' = Todo(u)
  BY <1>1, <1>5 DEF SnapshotInv, CopyTypes, Todo
<1>7. CopyTypes'
  <2>1. ASSUME NEW todo PROVE LeftToDo(todo)' <=> LeftToDo(todo)
    BY <1>1 DEF LeftToDo
  <2>2. LeftToDo(<<>>)
    BY DEF LeftToDo
  <2>3. QED
    BY <1>1, <1>4, <1>5, <1>6, <2>1, <2>2 DEF SnapshotInv, CopyTypes
<1>8. LoadsAlone'
  BY <1>1, <1>5, <1>6 DEF SnapshotInv, LoadsAlone
<1>9. S!Stamp(source)' = S!Stamp(source) /\ \A s : Seen(s)' <=> Seen(s)
  BY <1>1 DEF S!Stamp, Seen, StampOf
<1>10. SeenInv'
  <2>1. copyOf # "token" => Seen(S!Stamp(source))
    BY <1>3 DEF Seen, Source, SnapshotInv, CopyTypes
  <2>2. QED
    BY <1>1, <1>4, <1>6, <1>9, <2>1 DEF SnapshotInv, SeenInv
<1>11. SteadyInv'
  BY <1>1, <1>6, <1>9 DEF SnapshotInv, SteadyInv
<1>12. ReadInv'
  <2>1. ~HasRead(t)' /\ \A u \in Threads \ {t} : HasRead(u)' <=> HasRead(u)
    BY <1>6 DEF HasRead, ReadDone
  <2>2. QED
    BY <1>1, <1>6, <2>1 DEF SnapshotInv, ReadInv
<1>13. \A u \in Threads \ {t} : ~loadsMet => Todo(u) = <<>> /\ ~look[u].busy
  BY <1>1 DEF SnapshotInv, LoadsAlone, CopyTypes
<1>14. StampInv'
  BY <1>1, <1>4, <1>6, <1>9, <1>13 DEF SnapshotInv, StampInv
<1>15. ~S!Excused' => ~S!Excused
  BY <1>1, ExcusedStays DEF SnapshotInv, CopyTypes
<1>16. ASSUME ~S!Excused'
       PROVE  /\ copyOf \notin {"pictures", "states"} /\ ~emptied
              /\ (copyOf \in {"profile", "contacts"} => ~loadsMet)
  BY <1>1, <1>7, <1>16, Unexcused DEF CopyTypes, S!Excused
<1>17. FilledInv'
  <2>1. ASSUME ~S!Excused', NEW u \in Threads, HasFilled(u)' PROVE S!Shown(u)' >= look'[u].need
    <3>1. u # t /\ HasFilled(u) /\ look[u].busy /\ S!Shown(u) >= look[u].need
      BY <1>6, <1>15, <2>1 DEF HasFilled, SnapshotInv, FilledInv
    <3>2. copyOf \notin {"profile", "contacts", "states"}
      BY <1>13, <1>16, <2>1, <3>1
    <3>3. QED
      BY <1>1, <1>4, <1>6, <3>1, <3>2 DEF S!Shown
  <2>2. QED
    BY <2>1 DEF FilledInv
<1>18. CopyInv'
  <2>1. SUFFICES ASSUME ~S!Excused', copy'.stamp = S!Stamp(source) PROVE copy'.value >= source.written
    BY <1>1, <1>9 DEF CopyInv
  <2>2. copy.stamp = S!Stamp(source) /\ copyOf \notin {"pictures", "states"} /\ Settled
    BY <1>4, <1>16, <2>1 DEF Settled
  <2>3. copyOf \notin {"profile", "contacts", "states"}
    BY <1>1, <1>16, <2>1, <2>2 DEF SnapshotInv, StampInv
  <2>4. QED
    BY <1>4, <1>15, <2>1, <2>2, <2>3 DEF SnapshotInv, CopyInv
<1>19. S!LookupIsFresh'
  BY <1>1, <1>15 DEF SnapshotInv, S!LookupIsFresh
<1>20. QED
  BY <1>7, <1>8, <1>10, <1>11, <1>12, <1>14, <1>17, <1>18, <1>19 DEF SnapshotInv

LEMMA SnapshotStep ==
    ASSUME S!SnapshotCacheAssumption, SnapshotInv, [S!Next]_(S!vars)
    PROVE  SnapshotInv'
<1>1. source \in Source /\ (copyOf # "token" => ~source.empty /\ source.place = 1)
  BY DEF SnapshotInv, CopyTypes
<1>2. CASE S!ReplaceFile
  <2> DEFINE f == [source EXCEPT !.written = @ + 1, !.time = @ + 1]
  <2>1. /\ f \in Source /\ f.written >= source.written /\ f.time > source.time /\ f.place = source.place
        /\ f.empty = source.empty /\ f.time >= source.time /\ f.time # source.time
        /\ f.place >= source.place
    <3>1. PICK w \in Nat, c \in Nat : w = source.written + 1 /\ c = source.time + 1
      BY <1>1 DEF Source
    <3>2. f = [source EXCEPT !.written = w, !.time = c]
      BY <3>1
    <3> HIDE DEF f
    <3>3. f \in Source /\ f.written = w /\ f.time = c /\ f.place = source.place /\ f.empty = source.empty
      BY <1>1, <3>2 DEF Source
    <3>4. source.written \in Nat /\ source.time \in Nat /\ source.place \in Nat
      BY <1>1 DEF Source
    <3>5. QED
      BY <3>1, <3>3, <3>4
  <2>2. S!Changed(f)
    BY <1>2 DEF S!ReplaceFile
  <2> HIDE DEF f
  <2>3. QED
    BY <1>1, <2>1, <2>2, ChangedStep
<1>3. CASE S!EmptyToken
  <2> DEFINE f == [source EXCEPT !.empty = TRUE, !.time = @ + 1]
  <2>1. /\ f \in Source /\ f.written >= source.written /\ f.place >= source.place
        /\ f.time >= source.time /\ f.time # source.time
    <3>1. PICK c \in Nat : c = source.time + 1
      BY <1>1 DEF Source
    <3>2. f = [source EXCEPT !.empty = TRUE, !.time = c]
      BY <3>1
    <3> HIDE DEF f
    <3>3. f \in Source /\ f.written = source.written /\ f.time = c /\ f.place = source.place
      BY <1>1, <3>2 DEF Source
    <3>4. source.written \in Nat /\ source.time \in Nat /\ source.place \in Nat
      BY <1>1 DEF Source
    <3>5. QED
      BY <3>1, <3>3, <3>4
  <2>2. S!Changed(f) /\ copyOf = "token"
    BY <1>3 DEF S!EmptyToken
  <2> HIDE DEF f
  <2>3. QED
    BY <2>1, <2>2, ChangedStep
<1>4. CASE S!WriteToken
  <2>1. PICK later \in {0, 1} :
            S!Changed([source EXCEPT !.written = @ + 1, !.empty = FALSE, !.time = @ + later])
    BY <1>4 DEF S!WriteToken
  <2> DEFINE f == [source EXCEPT !.written = @ + 1, !.empty = FALSE, !.time = @ + later]
  <2>2. /\ f \in Source /\ f.written >= source.written /\ f.place = source.place
        /\ f.time >= source.time /\ ~f.empty /\ f.place >= source.place
    <3>1. PICK w \in Nat, c \in Nat : w = source.written + 1 /\ c = source.time + later
      BY <1>1 DEF Source
    <3>2. f = [source EXCEPT !.written = w, !.empty = FALSE, !.time = c]
      BY <3>1
    <3> HIDE DEF f
    <3>3. f \in Source /\ f.written = w /\ f.time = c /\ f.place = source.place /\ ~f.empty
      BY <1>1, <3>2 DEF Source
    <3>4. source.written \in Nat /\ source.time \in Nat /\ source.place \in Nat
      BY <1>1 DEF Source
    <3>5. QED
      BY <3>1, <3>3, <3>4
  <2>3. S!Changed(f) /\ source.empty /\ copyOf = "token"
    BY <1>1, <1>4, <2>1 DEF S!WriteToken
  <2> HIDE DEF f
  <2>4. QED
    BY <2>2, <2>3, ChangedStep
<1>5. CASE S!OtherToken
  <2> DEFINE f == [source EXCEPT !.written = @ + 1, !.place = @ + 1]
  <2>1. /\ f \in Source /\ f.written >= source.written /\ f.place > source.place
        /\ f.time >= source.time /\ f.place >= source.place
    <3>1. PICK w \in Nat, d \in Nat : w = source.written + 1 /\ d = source.place + 1
      BY <1>1 DEF Source
    <3>2. f = [source EXCEPT !.written = w, !.place = d]
      BY <3>1
    <3> HIDE DEF f
    <3>3. f \in Source /\ f.written = w /\ f.time = source.time /\ f.place = d
      BY <1>1, <3>2 DEF Source
    <3>4. source.written \in Nat /\ source.time \in Nat /\ source.place \in Nat
      BY <1>1 DEF Source
    <3>5. QED
      BY <3>1, <3>3, <3>4
  <2>2. S!Changed(f) /\ copyOf = "token" /\ ~source.empty
    BY <1>5 DEF S!OtherToken
  <2> HIDE DEF f
  <2>3. QED
    BY <2>1, <2>2, ChangedStep
<1>6. ASSUME NEW t \in Threads, S!Look(t) \/ S!Step(t) \/ S!ReadFails(t) \/ S!Use(t)
      PROVE  SnapshotInv'
  BY <1>6, LookStep, LoadStep, ReadFailsStep, UseStep
<1>7. CASE UNCHANGED S!vars
  <2>1. UNCHANGED <<copyOf, source, copy, look, crossed, loadsMet, emptied, failed, stale>>
    BY <1>7 DEF S!vars
  <2>2. CopyTypes' /\ LoadsAlone' /\ ReadInv'
    BY <2>1 DEF SnapshotInv, CopyTypes, LeftToDo, LoadsAlone, ReadInv, HasRead, Todo
  <2>3. SeenInv' /\ SteadyInv' /\ StampInv'
    BY <2>1 DEF SnapshotInv, SeenInv, SteadyInv, StampInv, Seen, StampOf, S!Stamp, Todo
  <2>4. FilledInv' /\ CopyInv' /\ S!LookupIsFresh'
    BY <2>1 DEF SnapshotInv, FilledInv, HasFilled, S!Shown, CopyInv, Settled, S!LookupIsFresh,
                S!Excused, S!Stamp, Todo
  <2>5. QED
    BY <2>2, <2>3, <2>4 DEF SnapshotInv
<1>8. QED
  BY <1>2, <1>3, <1>4, <1>5, <1>6, <1>7 DEF S!Next

-----------------------------------------------------------------------------
(* The posts: for any number of posts and of requests side by side, with     *)
(* crashes, retries and torn pictures.                                       *)

PostSteps == {"idle", "read", "upload", "lock", "create", "store", "fetch", "keep", "list"}
ListSteps == {"idle", "fetch", "keep", "list"}
Bodies    == {"text", "part", "whole"}
Pictures  == {"none", "part", "whole"}
PostRequest == [pc : PostSteps, post : Posts \cup {None}, at : Nat, bucket : Nat, body : Bodies,
                known : SUBSET Posts, items : SUBSET Posts, off : SUBSET Posts,
                crossed : SUBSET Posts, bad : BOOLEAN]
NoteList == [at : Nat, items : SUBSET Posts, off : SUBSET Posts, crossed : SUBSET Posts,
             bad : BOOLEAN]
Creation == [at : Nat, bucket : Nat]

PostTypes ==
    /\ notes \in SUBSET Posts /\ pictures \in SUBSET Posts /\ now \in Nat
    /\ file \in [Posts -> {"none", "torn", "whole"}] /\ req \in [Threads -> PostRequest]
    /\ listCache # None => listCache \in NoteList
    /\ kept \in SUBSET [post : Posts, at : Nat]
    /\ completed \in SUBSET [post : Posts, bucket : Nat, until : Nat]
    /\ oids \in [Posts -> Pictures] /\ obs \in [Posts -> Pictures]
    /\ posted \in [Posts -> SUBSET Creation] /\ bodies \in [Posts -> SUBSET Bodies]
    /\ made \in [Posts -> Nat] /\ told \in SUBSET Posts /\ rewritten \in SUBSET Posts

(* What holds of a request by itself.  It is about a post unless it is idle  *)
(* or lists; only what was made was told, and what a request knew was told is *)
(* told as long as it is served: a restart ends both.                        *)
ShapeOK(q) ==
    /\ q.post = None <=> q.pc \in ListSteps
    /\ q.pc \in {"read", "upload"} => q.post \in pictures
    /\ q.pc = "lock" => q.post \notin notes
    /\ q.at <= now
    /\ q.post \in q.known => q.post \in told
    /\ q.pc \in {"fetch", "keep", "list"} => q.known \cap notes \subseteq told
    /\ \A p \in q.known : bodies[p] # {}

(* A picture that was not captured again is whole wherever it got to.        *)
StepsWithBody == {"upload", "lock", "create", "store"}
PictureOK(q) == q.post \in pictures =>
    /\ file[q.post] # "none" /\ (q.post \notin rewritten => file[q.post] = "whole")
    /\ q.pc \in StepsWithBody =>
          /\ q.body \in {"part", "whole"}
          /\ q.post \notin rewritten => q.body = "whole"
          /\ q.post \notin notes /\ q.pc # "upload" => obs[q.post] # "none"

(* A request that created its post did; what it knew was told is too old for *)
(* it, or of another bucket.                                                 *)
TooOld(q, c) == q.at >= c.at + CreateLife \/ (q.post \notin notes /\ c.bucket # q.bucket)
CreationOK(q) ==
    /\ q.pc = "store" => \E c \in posted[q.post] : c.at = q.at /\ c.bucket = q.bucket
    /\ q.post \in q.known /\ (q.post \in notes \/ q.pc = "create") =>
          \E c \in posted[q.post] : TooOld(q, c)

(* A list that was fetched lacks only what was created since it was asked for. *)
Lacks(items) == {p \in notes \ items : bodies[p] # {}}
Sound(l) == ~l.bad =>
    \A p \in Lacks(l.items \cup l.off) : made[p] >= l.at /\ (p \in told => p \in l.crossed)
ListOK(q) ==
    /\ q.pc = "keep" => Sound(q)
    /\ q.pc = "list" /\ ~q.bad => \A p \in Lacks(q.items \cup q.off) :
          /\ q.at < made[p] + ListLife
          /\ p \in q.known => p \in q.crossed

RequestOK(q) == ShapeOK(q) /\ PictureOK(q) /\ CreationOK(q) /\ ListOK(q)
Served == {req[r] : r \in Threads}
RequestInv == \A q \in Served : RequestOK(q)

(* What the memories hold was created, and what was told is in them as long  *)
(* as it lives.                                                              *)
PictureInv == \A p \in pictures :
    /\ bodies[p] \subseteq {"part", "whole"}
    /\ p \notin rewritten => bodies[p] \subseteq {"whole"} /\ oids[p] # "part" /\ obs[p] # "part"
PostedInv == \A p \in Posts : posted[p] # {} => bodies[p] # {}
KeptInv == \A k \in kept : /\ k.post \in notes \cap told
                           /\ \E c \in posted[k.post] : c.at = k.at
CompletedInv == \A d \in completed :
    /\ d.post \notin notes
    /\ \E c \in posted[d.post] : c.bucket = d.bucket /\ d.until = c.at + CreateLife
Kept(p, c) == \E k \in kept : k.post = p /\ k.at = c.at
Completed(p, c) ==
    \E d \in completed : d.post = p /\ d.bucket = c.bucket /\ d.until = c.at + CreateLife
ToldInv == \A p \in told : \E c \in posted[p] :
    \/ now >= c.at + CreateLife
    \/ p \in notes /\ Kept(p, c)
    \/ p \notin notes /\ Completed(p, c)
CacheInv == listCache # None => Sound(listCache) /\ listCache.at <= now

MemoryInv == PictureInv /\ PostedInv /\ KeptInv /\ CompletedInv /\ ToldInv /\ CacheInv
PostInv == PostTypes /\ RequestInv /\ MemoryInv

(* A world that changes this way leaves what holds of a request as it is.    *)
Leaves(q) ==
    /\ notes' = notes /\ pictures' = pictures /\ now' >= now /\ rewritten \subseteq rewritten'
    /\ q.post \in Posts =>
          /\ posted[q.post] \subseteq posted'[q.post]
          /\ q.post \in told => q.post \in told'
          /\ obs[q.post] # "none" => obs'[q.post] # "none"
          /\ file[q.post] # "none" => file'[q.post] # "none"
          /\ q.post \notin rewritten' /\ file[q.post] = "whole" => file'[q.post] = "whole"
    /\ \A p \in Posts : bodies[p] # {} => bodies'[p] # {} /\ made'[p] = made[p]
    /\ \A p \in Posts : bodies[p] = {} /\ bodies'[p] # {} => made'[p] >= now
    /\ q.pc \in {"fetch", "keep", "list"} => told \cap notes \subseteq told'
    /\ q.pc = "keep" => told' \cap notes \subseteq told

LEMMA ToldIsMade ==
    ASSUME PostTypes, PostedInv, ToldInv
    PROVE  \A p \in told : bodies[p] # {} /\ posted[p] # {}
  BY DEF PostTypes, PostedInv, ToldInv

LEMMA StaysFit ==
    ASSUME P!PostWriteAssumption, PostTypes, PostTypes', PostedInv, ToldInv,
           NEW q \in PostRequest, RequestOK(q), Leaves(q)
    PROVE  RequestOK(q)'
<1> USE DEF Leaves
<1>1. /\ notes' = notes /\ pictures' = pictures /\ now \in Nat /\ now' \in Nat
      /\ pictures \subseteq Posts /\ notes \subseteq Posts /\ None \notin Posts
      /\ q.post \in Posts \cup {None} /\ q.known \subseteq Posts /\ q.at \in Nat
      /\ ListLife \in Nat \ {0}
      /\ made \in [Posts -> Nat] /\ made' \in [Posts -> Nat]
  BY DEF PostTypes, P!PostWriteAssumption, PostRequest
<1>2. ShapeOK(q)'
  BY <1>1 DEF RequestOK, ShapeOK
<1>3. PictureOK(q)'
  BY <1>1 DEF RequestOK, PictureOK
<1>4. CreationOK(q)'
  <2>1. q.pc = "store" \/ q.post \in q.known => q.post \in Posts
    BY <1>1 DEF RequestOK, ShapeOK, ListSteps
  <2>2. QED
    BY <1>1, <2>1 DEF RequestOK, CreationOK, TooOld
<1>5. ListOK(q)'
  <2>0. PICK i : i = q.items \cup q.off
    OBVIOUS
  <2>1. \A p \in Lacks(i)' : p \in notes \ i /\ p \in Posts /\ bodies'[p] # {}
    BY <1>1 DEF Lacks
  <2>2. ASSUME NEW p \in Lacks(i)', bodies[p] = {}
        PROVE  made'[p] >= now /\ p \notin told /\ p \notin q.known
    BY <1>1, <2>1, <2>2, ToldIsMade DEF RequestOK, ShapeOK
  <2>3. \A p \in Lacks(i)' : bodies[p] # {} => p \in Lacks(i) /\ made'[p] = made[p]
    BY <1>1, <2>1 DEF Lacks
  <2>4. q.at <= now /\ (q.pc = "keep" => Sound(q))
        /\ (q.pc = "list" /\ ~q.bad => \A p \in Lacks(i) :
              q.at < made[p] + ListLife /\ (p \in q.known => p \in q.crossed))
    BY <2>0 DEF RequestOK, ShapeOK, ListOK
  <2>5. \A p \in Lacks(i)' : made[p] \in Nat /\ made'[p] \in Nat
    BY <1>1, <2>1
  <2>6. ASSUME q.pc = "keep", ~q.bad, NEW p \in Lacks(i)'
        PROVE  made'[p] >= q.at /\ (p \in told' => p \in q.crossed)
    <3>1. p \in told' => p \in told
      BY <2>1, <2>6, <1>1
    <3>2. CASE bodies[p] = {}
      BY <1>1, <2>2, <2>4, <2>5, <3>1, <3>2
    <3>3. CASE bodies[p] # {}
      BY <2>0, <2>3, <2>4, <2>6, <3>1, <3>3 DEF Sound
    <3>4. QED
      BY <3>2, <3>3
  <2>7. ASSUME q.pc = "list", ~q.bad, NEW p \in Lacks(i)'
        PROVE  q.at < made'[p] + ListLife /\ (p \in q.known => p \in q.crossed)
    <3>1. CASE bodies[p] = {}
      BY <1>1, <2>2, <2>4, <2>5, <3>1
    <3>2. CASE bodies[p] # {}
      BY <2>3, <2>4, <2>7, <3>2
    <3>3. QED
      BY <3>1, <3>2
  <2>8. QED
    BY <2>0, <2>6, <2>7 DEF ListOK, Sound
<1>6. QED
  BY <1>2, <1>3, <1>4, <1>5 DEF RequestOK

(* One request becomes another; the world leaves the others.                 *)
LEMMA OneBecomes ==
    ASSUME P!PostWriteAssumption, PostInv, PostTypes', MemoryInv', NEW r \in Threads, NEW n,
           req' = [req EXCEPT ![r] = n], \A q \in Served : Leaves(q), RequestOK(n)'
    PROVE  PostInv'
<1>1. ASSUME NEW q \in Served'
      PROVE  q = n \/ q \in Served
  <2>1. PICK u \in Threads : q = req'[u]
    BY <1>1 DEF Served
  <2>2. QED
    BY <2>1 DEF Served, PostInv, PostTypes
<1>2. ASSUME NEW q \in Served PROVE RequestOK(q)'
  <2>1. q \in PostRequest
    BY <1>2 DEF Served, PostInv, PostTypes
  <2> HIDE DEF Leaves, RequestOK, Served
  <2>2. RequestOK(q)
    BY <1>2 DEF PostInv, RequestInv
  <2>3. QED
    BY <1>2, <2>1, <2>2, StaysFit DEF PostInv, MemoryInv
<1>3. RequestInv'
  <2> HIDE DEF RequestOK
  <2>1. QED
    BY <1>1, <1>2 DEF RequestInv
<1>4. QED
  BY <1>3 DEF PostInv

(* The requests stay as they are.                                            *)
LEMMA NoneBecomes ==
    ASSUME P!PostWriteAssumption, PostInv, PostTypes', MemoryInv', req' = req,
           \A q \in Served : Leaves(q)
    PROVE  PostInv'
<1>1. Served' = Served
  BY DEF Served
<1>2. ASSUME NEW q \in Served PROVE RequestOK(q)'
  <2>1. q \in PostRequest
    BY <1>2 DEF Served, PostInv, PostTypes
  <2> HIDE DEF Leaves, RequestOK, Served
  <2>2. RequestOK(q)
    BY <1>2 DEF PostInv, RequestInv
  <2>3. QED
    BY <1>2, <2>1, <2>2, StaysFit DEF PostInv, MemoryInv
<1>3. RequestInv'
  <2> HIDE DEF RequestOK
  <2>1. QED
    BY <1>1, <1>2 DEF RequestInv
<1>4. QED
  BY <1>3 DEF PostInv

(* What a request becomes.                                                   *)
LEMMA IdleFits ==
    ASSUME P!PostWriteAssumption, PostTypes
    PROVE  P!Idle \in PostRequest /\ RequestOK(P!Idle)
<1>1. P!Idle \in PostRequest /\ P!Idle.pc = "idle" /\ P!Idle.at = 0 /\ P!Idle.known = {}
      /\ P!Idle.post = None
  BY DEF P!Idle, PostRequest, PostSteps, Bodies
<1>2. P!Idle.post \notin pictures /\ now >= 0
  BY <1>1 DEF PostTypes, P!PostWriteAssumption
<1>3. ShapeOK(P!Idle)
  BY <1>1, <1>2 DEF ShapeOK, ListSteps
<1>4. PictureOK(P!Idle) /\ CreationOK(P!Idle) /\ ListOK(P!Idle)
  BY <1>1, <1>2 DEF PictureOK, CreationOK, ListOK
<1>5. QED
  BY <1>1, <1>3, <1>4 DEF RequestOK

LEMMA IdleFitsNext ==
    ASSUME P!PostWriteAssumption, PostTypes'
    PROVE  RequestOK(P!Idle)'
<1>1. P!Idle \in PostRequest /\ P!Idle.pc = "idle" /\ P!Idle.at = 0 /\ P!Idle.known = {}
      /\ P!Idle.post = None
  BY DEF P!Idle, PostRequest, PostSteps, Bodies
<1>2. P!Idle.post \notin pictures' /\ now' >= 0
  BY <1>1 DEF PostTypes, P!PostWriteAssumption
<1>3. ShapeOK(P!Idle)'
  BY <1>1, <1>2 DEF ShapeOK, ListSteps
<1>4. PictureOK(P!Idle)' /\ CreationOK(P!Idle)' /\ ListOK(P!Idle)'
  BY <1>1, <1>2 DEF PictureOK, CreationOK, ListOK
<1>5. QED
  BY <1>1, <1>3, <1>4 DEF RequestOK

(* The memories stay as they are while the clock goes on.                    *)
LEMMA MemoryStays ==
    ASSUME P!PostWriteAssumption, PostTypes, MemoryInv, now' \in Nat, now' >= now,
           rewritten \subseteq rewritten',
           UNCHANGED <<notes, pictures, bodies, oids, obs, posted, kept, completed, told,
                       listCache, made>>
    PROVE  MemoryInv'
<1>1. PictureInv' /\ PostedInv' /\ KeptInv' /\ CompletedInv'
  BY DEF MemoryInv, PictureInv, PostedInv, KeptInv, CompletedInv
<1>2. ToldInv'
  <2>1. ASSUME NEW p \in told
        PROVE  \E c \in posted[p] :
                  \/ now' >= c.at + CreateLife
                  \/ p \in notes /\ Kept(p, c)
                  \/ p \notin notes /\ Completed(p, c)
    <3>1. PICK c \in posted[p] : \/ now >= c.at + CreateLife
                                 \/ p \in notes /\ Kept(p, c)
                                 \/ p \notin notes /\ Completed(p, c)
      BY <2>1 DEF MemoryInv, ToldInv
    <3>2. p \in Posts /\ c \in Creation /\ c.at + CreateLife \in Int /\ now \in Nat
      BY <2>1, <3>1 DEF PostTypes, Creation, P!PostWriteAssumption
    <3>3. now >= c.at + CreateLife => now' >= c.at + CreateLife
      BY <3>2
    <3>4. QED
      BY <3>1, <3>3, Zenon
  <2>2. QED
    BY <2>1 DEF ToldInv, Kept, Completed
<1>3. CacheInv'
  <2>1. CASE listCache = None
    BY <2>1 DEF CacheInv
  <2>2. CASE listCache # None
    BY <2>2 DEF PostTypes, NoteList, MemoryInv, CacheInv, Sound, Lacks
  <2>3. QED
    BY <2>1, <2>2
<1>4. QED
  BY <1>1, <1>2, <1>3 DEF MemoryInv

LEMMA TickStep ==
    ASSUME P!PostWriteAssumption, PostInv, P!Tick
    PROVE  PostInv'
<1>1. /\ now' = now + 1 /\ now \in Nat
      /\ UNCHANGED <<notes, pictures, file, req, listCache, kept, oids, completed, obs, posted,
                     bodies, made, told, rewritten>>
  BY DEF P!Tick, P!setting, P!noteVars, P!timeVars, P!lineVars, PostInv, PostTypes
<1>2. PostTypes'
  BY <1>1 DEF PostInv, PostTypes
<1>3. MemoryInv'
  BY <1>1, MemoryStays DEF PostInv
<1>4. \A q \in Served : Leaves(q)
  BY <1>1 DEF Leaves
<1>5. QED
  BY <1>1, <1>2, <1>3, <1>4, NoneBecomes

LEMMA TouchStep ==
    ASSUME P!PostWriteAssumption, PostInv, P!Touch
    PROVE  PostInv'
<1>1. /\ listCache' = None
      /\ UNCHANGED <<notes, pictures, now, file, req, kept, oids, completed, obs, posted,
                     bodies, made, told, rewritten>>
  BY DEF P!Touch, P!setting, P!timeVars, P!lineVars
<1>2. PostTypes'
  BY <1>1 DEF PostInv, PostTypes
<1>3. MemoryInv'
  BY <1>1 DEF PostInv, MemoryInv, PictureInv, PostedInv, KeptInv, CompletedInv, ToldInv, Kept,
              Completed, CacheInv
<1>4. \A q \in Served : Leaves(q)
  BY <1>1 DEF Leaves, PostInv, PostTypes
<1>5. QED
  BY <1>1, <1>2, <1>3, <1>4, NoneBecomes

(* The picture is captured: whoever is served is in rewritten.               *)
LEMMA CaptureStep ==
    ASSUME P!PostWriteAssumption, PostInv, NEW p \in Posts, P!Capture(p) \/ P!Captured(p)
    PROVE  PostInv'
<1>1. /\ UNCHANGED <<notes, pictures, now, req, listCache, kept, oids, completed, obs, posted,
                     bodies, made, told>>
      /\ rewritten \subseteq rewritten' /\ rewritten' \subseteq rewritten \cup {p}
      /\ file' \in [Posts -> {"none", "torn", "whole"}]
      /\ \A o \in Posts : o # p => file'[o] = file[o]
      /\ file'[p] \in {"torn", "whole"}
      /\ file'[p] = "torn" => \A r \in Threads : req[r].post = p => p \in rewritten'
  BY DEF P!Capture, P!Captured, P!Busy, P!setting, P!noteVars, P!timeVars, P!lineVars, PostInv,
         PostTypes
<1>2. PostTypes'
  BY <1>1 DEF PostInv, PostTypes
<1>3. MemoryInv'
  BY <1>1, MemoryStays DEF PostInv, PostTypes
<1>4. ASSUME NEW q \in Served PROVE Leaves(q)
  <2>1. q.post = p /\ file'[p] = "torn" => p \in rewritten'
    BY <1>1, <1>4 DEF Served
  <2>2. QED
    BY <1>1, <2>1 DEF Leaves, PostInv, PostTypes
<1>5. QED
  BY <1>1, <1>2, <1>3, <1>4, NoneBecomes

(* A step that changes one request and no memory.                            *)
LEMMA OnlyRequest ==
    ASSUME P!PostWriteAssumption, PostInv, NEW r \in Threads, NEW n \in PostRequest, RequestOK(n),
           req' = [req EXCEPT ![r] = n],
           UNCHANGED <<notes, pictures, now, file, rewritten, bodies, oids, obs, posted, kept,
                       completed, told, listCache, made>>
    PROVE  PostInv'
<1>1. PostTypes'
  BY DEF PostInv, PostTypes
<1>2. MemoryInv'
  BY MemoryStays DEF PostInv, PostTypes
<1>3. (\A q \in Served : Leaves(q)) /\ Leaves(n)
  BY DEF Leaves, PostInv, PostTypes
<1>4. RequestOK(n)'
  BY <1>1, <1>3, StaysFit DEF PostInv, MemoryInv
<1>5. QED
  BY <1>1, <1>2, <1>3, <1>4, OneBecomes

LEMMA RequestFits ==
    ASSUME PostInv, NEW r \in Threads
    PROVE  req[r] \in PostRequest /\ RequestOK(req[r])
<1>1. req[r] \in Served /\ req[r] \in PostRequest
  BY DEF Served, PostInv, PostTypes
<1>2. QED
  BY <1>1 DEF PostInv, RequestInv

LEMMA ReadPictureStep ==
    ASSUME P!PostWriteAssumption, PostInv, NEW r \in Threads, NEW piece, P!ReadPicture(r, piece)
    PROVE  PostInv'
<1>1. PICK q : q = req[r]
  OBVIOUS
<1>2. q \in PostRequest /\ RequestOK(q) /\ PostTypes
  BY <1>1, RequestFits DEF PostInv
<1>3. /\ q.pc = "read" /\ piece \in P!Body(q.post)
      /\ UNCHANGED <<notes, pictures, now, file, rewritten, bodies, oids, obs, posted, kept,
                     completed, told, listCache, made>>
  BY <1>1 DEF P!ReadPicture, P!Serving, P!setting, P!noteVars, P!timeVars, P!lineVars
<1>4. /\ q.post \in pictures /\ q.post \in Posts /\ q.post # None
      /\ file[q.post] \in {"torn", "whole"} /\ (q.post \notin rewritten => file[q.post] = "whole")
      /\ q.pc \notin ListSteps /\ q.pc \notin {"lock", "store", "create", "fetch", "keep", "list"}
      /\ oids[q.post] \in Pictures
      /\ q.post \notin rewritten => oids[q.post] # "part"
  BY <1>2, <1>3 DEF RequestOK, ShapeOK, PictureOK, PostTypes, P!PostWriteAssumption, ListSteps,
                   PostInv, MemoryInv, PictureInv
<1>5. piece \in {"empty", "part", "whole"} /\ (q.post \notin rewritten => piece = "whole")
  BY <1>3, <1>4 DEF P!Body
<1>6. CASE P!Refused(piece)
  <2>1. req' = [req EXCEPT ![r] = P!Idle]
    BY <1>6 DEF P!ReadPicture
  <2>2. QED
    BY <1>2, <1>3, <2>1, IdleFits, OnlyRequest
<1>7. ASSUME NEW s \in {"create", "upload"}, NEW b \in Bodies, NEW n, n = [[q EXCEPT !.pc = s] EXCEPT !.body = b],
             s = "create" => q.post \in notes, b \in {"part", "whole"},
             q.post \notin rewritten => b = "whole"
      PROVE  n \in PostRequest /\ RequestOK(n)
  <2>1. /\ n \in PostRequest
        /\ n.pc = s /\ n.post = q.post /\ n.at = q.at /\ n.bucket = q.bucket /\ n.body = b
        /\ n.known = q.known
    <3>1. s \in PostSteps
      BY DEF PostSteps
    <3>2. q \in PostRequest /\ b \in Bodies /\ n = [[q EXCEPT !.pc = s] EXCEPT !.body = b]
      BY <1>2, <1>7
    <3>3. QED
      BY <3>1, <3>2 DEF PostRequest
  <2> HIDE DEF TooOld
  <2>2. ShapeOK(n)
    BY <1>2, <1>4, <1>7, <2>1 DEF RequestOK, ShapeOK, ListSteps
  <2>3. PictureOK(n)
    BY <1>2, <1>4, <1>7, <2>1 DEF RequestOK, PictureOK
  <2>4. CreationOK(n)
    BY <1>2, <1>4, <1>7, <2>1 DEF RequestOK, CreationOK, TooOld
  <2>5. QED
    BY <1>7, <2>1, <2>2, <2>3, <2>4 DEF RequestOK, ListOK
<1>8. CASE ~P!Refused(piece) /\ q.post \in notes /\ oids[q.post] # "none"
  <2>1. PICK n, b : n = [[q EXCEPT !.pc = "create"] EXCEPT !.body = b] /\ b = oids[q.post]
    OBVIOUS
  <2>2. req' = [req EXCEPT ![r] = n]
    BY <1>1, <1>8, <2>1 DEF P!ReadPicture, P!Goes
  <2>3. b \in Bodies /\ b \in {"part", "whole"} /\ (q.post \notin rewritten => b = "whole")
    BY <1>4, <1>8, <2>1 DEF Bodies, Pictures
  <2>4. n \in PostRequest /\ RequestOK(n)
    BY <1>7, <1>8, <2>1, <2>3
  <2>5. QED
    BY <1>3, <2>2, <2>4, OnlyRequest
<1>9. CASE ~P!Refused(piece) /\ ~(q.post \in notes /\ oids[q.post] # "none")
  <2>1. PICK n : n = [[q EXCEPT !.pc = "upload"] EXCEPT !.body = piece]
    OBVIOUS
  <2>2. req' = [req EXCEPT ![r] = n]
    BY <1>1, <1>9, <2>1 DEF P!ReadPicture, P!Goes
  <2>3. piece \in Bodies /\ piece \in {"part", "whole"} /\ (q.post \notin rewritten => piece = "whole")
    BY <1>5, <1>9 DEF Bodies, P!Refused
  <2>4. n \in PostRequest /\ RequestOK(n)
    BY <1>7, <2>1, <2>3
  <2>5. QED
    BY <1>3, <2>2, <2>4, OnlyRequest
<1>10. QED
  BY <1>6, <1>8, <1>9

LEMMA EndStep ==
    ASSUME P!PostWriteAssumption, PostInv, NEW r \in Threads, P!Fail(r) \/ P!Show(r)
    PROVE  PostInv'
<1>1. /\ req' = [req EXCEPT ![r] = P!Idle]
      /\ UNCHANGED <<notes, pictures, now, file, rewritten, bodies, oids, obs, posted, kept,
                     completed, told, listCache, made>>
  BY DEF P!Fail, P!Show, P!setting, P!noteVars, P!timeVars, P!lineVars
<1>2. P!Idle \in PostRequest /\ RequestOK(P!Idle)
  BY IdleFits DEF PostInv
<1>3. QED
  BY <1>1, <1>2, OnlyRequest

(* Lists.                                                                    *)
LEMMA FetchListStep ==
    ASSUME P!PostWriteAssumption, PostInv, NEW r \in Threads, P!Fetch(r)
    PROVE  PostInv'
<1>1. PICK q, w : q = req[r] /\ w = P!Written
  BY Zenon
<1>2. q \in PostRequest /\ RequestOK(q) /\ PostTypes /\ w \in SUBSET Posts
  BY <1>1, RequestFits DEF PostInv, P!Written, P!Made
<1>3. /\ q.pc = "fetch"
      /\ UNCHANGED <<notes, pictures, now, file, rewritten, bodies, oids, obs, posted, kept,
                     completed, told, listCache, made>>
  BY <1>1 DEF P!Fetch, P!Serving, P!setting, P!noteVars, P!timeVars, P!lineVars
<1>4. ASSUME NEW n \in PostRequest, n.pc = "keep", n.post = q.post, n.at = q.at, n.known = q.known,
             n.bad \/ Lacks(n.items \cup n.off) = {}
      PROVE  RequestOK(n)
  <2>1. q.post = None /\ q.post \notin q.known /\ q.post \notin pictures
    BY <1>2, <1>3 DEF RequestOK, ShapeOK, ListSteps, PostRequest, PostTypes, P!PostWriteAssumption
  <2>2. ShapeOK(n)
    BY <1>2, <1>3, <1>4, <2>1 DEF RequestOK, ShapeOK, ListSteps
  <2>3. PictureOK(n) /\ CreationOK(n) /\ ListOK(n)
    BY <1>4, <2>1 DEF PictureOK, CreationOK, ListOK, Sound
  <2>4. QED
    BY <2>2, <2>3 DEF RequestOK
<1>5. ASSUME NEW off \in SUBSET w,
             req' = [req EXCEPT ![r] =
                        [P!Goes(r, "keep") EXCEPT !.items = P!Written \ off, !.off = off]]
      PROVE  PostInv'
  <2>1. PICK i, n : i = w \ off /\ n = [[q EXCEPT !.pc = "keep"] EXCEPT !.items = i, !.off = off]
    BY Zenon
  <2>2. req' = [req EXCEPT ![r] = n]
    BY <1>1, <1>5, <2>1 DEF P!Goes
  <2>3. n \in PostRequest /\ n.pc = "keep" /\ n.post = q.post /\ n.at = q.at /\ n.known = q.known
        /\ n.items = i /\ n.off = off
    <3>1. i \in SUBSET Posts /\ off \in SUBSET Posts
      BY <1>2, <2>1
    <3>2. QED
      BY <1>2, <2>1, <3>1 DEF PostRequest, PostSteps
  <2>4. Lacks(n.items \cup n.off) = {}
    BY <1>1, <1>2, <2>1, <2>3 DEF Lacks, P!Written, P!Made, PostTypes
  <2>5. QED
    BY <1>3, <1>4, <2>2, <2>3, <2>4, OnlyRequest
<1>6. CASE req' = [req EXCEPT ![r] = [P!Goes(r, "keep") EXCEPT !.bad = TRUE]]
  <2>1. PICK n : n = [[q EXCEPT !.pc = "keep"] EXCEPT !.bad = TRUE]
    OBVIOUS
  <2>2. req' = [req EXCEPT ![r] = n]
    BY <1>1, <1>6, <2>1 DEF P!Goes
  <2>3. n \in PostRequest /\ n.pc = "keep" /\ n.post = q.post /\ n.at = q.at /\ n.known = q.known
        /\ n.bad
    BY <1>2, <2>1 DEF PostRequest, PostSteps
  <2>4. QED
    BY <1>3, <1>4, <2>2, <2>3, OnlyRequest
<1>7. QED
  BY <1>1, <1>5, <1>6 DEF P!Fetch

LEMMA ListStep ==
    ASSUME P!PostWriteAssumption, PostInv, NEW r \in Threads, P!List(r)
    PROVE  PostInv'
<1>1. PICK n : req' = [req EXCEPT ![r] = n] /\
          n = [(IF listCache # None /\ now < listCache.at + ListLife
                THEN P!FromCache(listCache) ELSE [P!Idle EXCEPT !.pc = "fetch"])
                EXCEPT !.at = now, !.known = told]
  BY DEF P!List
<1>2. UNCHANGED <<notes, pictures, now, file, rewritten, bodies, oids, obs, posted, kept,
                  completed, told, listCache, made>>
  BY DEF P!List, P!setting, P!noteVars, P!timeVars, P!lineVars
<1>3. /\ PostTypes /\ now \in Nat /\ told \in SUBSET Posts /\ None \notin Posts
      /\ pictures \subseteq Posts /\ \A p \in told : bodies[p] # {}
  BY ToldIsMade DEF PostInv, MemoryInv, PostTypes, P!PostWriteAssumption
<1>4. ASSUME n \in PostRequest, n.pc \in {"fetch", "list"}, n.post = None, n.at = now,
             n.known = told
      PROVE  ShapeOK(n) /\ PictureOK(n) /\ CreationOK(n)
  BY <1>3, <1>4 DEF ShapeOK, PictureOK, CreationOK, ListSteps
<1>5. CASE listCache # None /\ now < listCache.at + ListLife
  <2>1. PICK l, e, a, t : l = listCache /\ l \in NoteList /\ Sound(l) /\ e = P!Idle /\ a = now /\ t = told
    BY <1>5 DEF PostInv, MemoryInv, CacheInv, PostTypes
  <2>2. n = [[e EXCEPT !.pc = "list", !.items = l.items, !.off = l.off, !.crossed = l.crossed,
                       !.bad = l.bad]
               EXCEPT !.at = a, !.known = t]
    BY <1>1, <1>5, <2>1 DEF P!FromCache
  <2>3. e \in PostRequest /\ e.post = None /\ a \in Nat /\ t \in SUBSET Posts
    BY <1>3, <2>1, IdleFits DEF P!Idle
  <2>4. /\ n \in PostRequest /\ n.pc = "list" /\ n.post = None /\ n.at = a /\ n.known = t
        /\ n.items = l.items /\ n.off = l.off /\ n.crossed = l.crossed /\ n.bad = l.bad
    BY <2>1, <2>2, <2>3 DEF PostRequest, NoteList, PostSteps
  <2>5. ListOK(n)
    <3>1. SUFFICES ASSUME ~l.bad, NEW p \in Lacks(l.items \cup l.off)
                   PROVE  now < made[p] + ListLife /\ (p \in told => p \in l.crossed)
      BY <2>1, <2>4 DEF ListOK
    <3>2. made[p] >= l.at /\ (p \in told => p \in l.crossed) /\ now < l.at + ListLife
      BY <1>5, <2>1, <3>1 DEF Sound
    <3>3. made[p] \in Nat /\ l.at \in Nat /\ ListLife \in Nat
      BY <1>3, <2>1 DEF Lacks, PostTypes, NoteList, P!PostWriteAssumption
    <3>4. QED
      BY <1>3, <3>2, <3>3
  <2>6. QED
    BY <1>1, <1>2, <1>4, <2>1, <2>4, <2>5, OnlyRequest DEF RequestOK
<1>6. CASE ~(listCache # None /\ now < listCache.at + ListLife)
  <2>1. PICK e, a, t : e = P!Idle /\ a = now /\ t = told
    OBVIOUS
  <2>2. n = [[e EXCEPT !.pc = "fetch"] EXCEPT !.at = a, !.known = t]
    BY <1>1, <1>6, <2>1
  <2>3. e \in PostRequest /\ e.post = None /\ a \in Nat /\ t \in SUBSET Posts
    BY <1>3, <2>1, IdleFits DEF P!Idle
  <2>4. n \in PostRequest /\ n.pc = "fetch" /\ n.post = None /\ n.at = a /\ n.known = t
    BY <2>2, <2>3 DEF PostRequest, PostSteps
  <2>5. ListOK(n)
    BY <2>4 DEF ListOK
  <2>6. QED
    BY <1>1, <1>2, <1>4, <2>1, <2>4, <2>5, OnlyRequest DEF RequestOK
<1>7. QED
  BY <1>5, <1>6

LEMMA KeepListStep ==
    ASSUME P!PostWriteAssumption, PostInv, NEW r \in Threads, P!KeepList(r)
    PROVE  PostInv'
<1>1. PICK q, n : q = req[r] /\ n = [q EXCEPT !.pc = "list"]
  OBVIOUS
<1>2. q \in PostRequest /\ RequestOK(q) /\ PostTypes
  BY <1>1, RequestFits DEF PostInv
<1>3. /\ q.pc = "keep" /\ req' = [req EXCEPT ![r] = n]
      /\ UNCHANGED <<notes, pictures, now, file, rewritten, bodies, oids, obs, posted, kept,
                     completed, told, made>>
  BY <1>1 DEF P!KeepList, P!Serving, P!Goes, P!setting, P!timeVars, P!lineVars
<1>4. /\ n \in PostRequest /\ n.pc = "list" /\ n.post = q.post /\ n.at = q.at /\ n.known = q.known
      /\ n.items = q.items /\ n.off = q.off /\ n.crossed = q.crossed /\ n.bad = q.bad
  BY <1>1, <1>2 DEF PostRequest, PostSteps
<1>5. PICK l : /\ l = listCache' /\ l.at = q.at /\ l.items = q.items /\ l.off = q.off
               /\ l.crossed = q.crossed
               /\ l.bad = q.bad /\ l \in NoteList
  BY <1>1, <1>2 DEF P!KeepList, PostRequest, NoteList
<1>6. PostTypes'
  BY <1>2, <1>3, <1>4, <1>5 DEF PostTypes
<1>7. Sound(q) /\ q.at <= now /\ q.post = None /\ q.known \cap notes \subseteq told
      /\ \A p \in q.known : bodies[p] # {}
  BY <1>2, <1>3 DEF RequestOK, ListOK, ShapeOK, ListSteps
<1>8. MemoryInv'
  <2>1. Sound(l)' /\ l.at <= now'
    BY <1>3, <1>5, <1>7 DEF Sound, Lacks
  <2>2. CacheInv'
    BY <1>5, <2>1 DEF CacheInv, Sound
  <2>3. QED
    BY <1>3, <2>2 DEF PostInv, MemoryInv, PictureInv, PostedInv, KeptInv, CompletedInv, ToldInv,
                     Kept, Completed
<1>9. RequestOK(n)
  <2>1. ShapeOK(n)
    BY <1>2, <1>3, <1>4, <1>7 DEF RequestOK, ShapeOK, ListSteps
  <2>2. None \notin pictures /\ None \notin n.known
    BY <1>2, <1>4 DEF PostTypes, P!PostWriteAssumption, PostRequest
  <2>3. PictureOK(n) /\ CreationOK(n)
    BY <1>4, <1>7, <2>2 DEF PictureOK, CreationOK
  <2>4. ASSUME ~q.bad, NEW p \in Lacks(q.items \cup q.off)
        PROVE  q.at < made[p] + ListLife /\ (p \in q.known => p \in q.crossed)
    <3>1. made[p] >= q.at /\ (p \in told => p \in q.crossed)
      BY <1>7, <2>4 DEF Sound
    <3>2. made[p] \in Nat /\ q.at \in Nat /\ ListLife \in Nat \ {0} /\ p \in notes
      BY <1>2, <2>4 DEF Lacks, PostTypes, PostRequest, P!PostWriteAssumption
    <3>3. QED
      BY <1>7, <3>1, <3>2
  <2>5. QED
    BY <1>4, <2>1, <2>3, <2>4 DEF ListOK, RequestOK
<1>10. (\A p \in Served : Leaves(p)) /\ Leaves(n)
  BY <1>2, <1>3 DEF Leaves, PostTypes
<1>11. RequestOK(n)'
  BY <1>2, <1>4, <1>6, <1>9, <1>10, StaysFit DEF PostInv, MemoryInv
<1>12. QED
  BY <1>3, <1>6, <1>8, <1>10, <1>11, OneBecomes

(* The pictures the store got.                                               *)
LEMMA StoredPicture ==
    ASSUME PostInv, NEW r \in Threads, NEW q, q = req[r], q.pc = "upload", P!Stored(r)
    PROVE  /\ q \in PostRequest /\ RequestOK(q) /\ PostTypes /\ MemoryInv
           /\ q.post \in pictures /\ q.post \in Posts
           /\ q.body \in {"part", "whole"} /\ (q.post \notin rewritten => q.body = "whole")
           /\ obs' \in [Posts -> Pictures]
           /\ \A o \in Posts : obs[o] # "none" => obs'[o] = obs[o]
           /\ \A o \in Posts : o # q.post => obs'[o] = obs[o]
           /\ q.post \notin notes => obs'[q.post] # "none"
           /\ q.post \notin rewritten => obs'[q.post] # "part"
<1>1. q \in PostRequest /\ RequestOK(q) /\ PostTypes /\ MemoryInv
  BY RequestFits DEF PostInv
<1>2. /\ q.post \in pictures /\ q.post \in Posts
      /\ q.body \in {"part", "whole"} /\ (q.post \notin rewritten => q.body = "whole")
  BY <1>1 DEF RequestOK, ShapeOK, PictureOK, StepsWithBody, PostTypes
<1>3. q.body \in Pictures /\ (q.post \notin rewritten => obs[q.post] # "part")
      /\ obs \in [Posts -> Pictures]
  BY <1>1, <1>2 DEF Pictures, MemoryInv, PictureInv, PostTypes
<1>4. obs' = IF q.post \notin notes /\ obs[q.post] = "none" THEN [obs EXCEPT ![q.post] = q.body]
             ELSE obs
  BY DEF P!Stored
<1>5. QED
  BY <1>1, <1>2, <1>3, <1>4

LEMMA UploadStep ==
    ASSUME P!PostWriteAssumption, PostInv, NEW r \in Threads, P!UploadPicture(r) \/ P!UploadLost(r)
    PROVE  PostInv'
<1>1. PICK q : q = req[r]
  OBVIOUS
<1>2. q.pc = "upload" /\ P!Stored(r)
  BY <1>1 DEF P!UploadPicture, P!UploadLost, P!Serving
<1>3. /\ q \in PostRequest /\ RequestOK(q) /\ PostTypes /\ MemoryInv
      /\ q.post \in pictures /\ q.post \in Posts
      /\ q.body \in {"part", "whole"} /\ (q.post \notin rewritten => q.body = "whole")
      /\ obs' \in [Posts -> Pictures]
      /\ \A o \in Posts : obs[o] # "none" => obs'[o] = obs[o]
      /\ \A o \in Posts : o # q.post => obs'[o] = obs[o]
      /\ q.post \notin notes => obs'[q.post] # "none"
      /\ q.post \notin rewritten => obs'[q.post] # "part"
  BY <1>1, <1>2, StoredPicture
<1>4. /\ UNCHANGED <<notes, pictures, now, file, rewritten, bodies, posted, kept, completed, told,
                     listCache, made>>
      /\ oids' \in [Posts -> Pictures]
      /\ \A o \in Posts : o # q.post => oids'[o] = oids[o]
      /\ q.post \notin rewritten => oids'[q.post] # "part"
  <2>1. CASE P!UploadPicture(r)
    <3>1. oids' = IF q.post \in notes THEN [oids EXCEPT ![q.post] = q.body] ELSE oids
      BY <1>1, <2>1 DEF P!UploadPicture
    <3>2. /\ oids \in [Posts -> Pictures] /\ q.body \in Pictures
          /\ q.post \notin rewritten => oids[q.post] # "part"
      BY <1>3 DEF PostTypes, Pictures, MemoryInv, PictureInv
    <3>3. QED
      BY <1>3, <2>1, <3>1, <3>2 DEF P!UploadPicture, P!setting, P!timeVars
  <2>2. CASE P!UploadLost(r)
    BY <1>3, <2>2 DEF P!UploadLost, P!setting, P!noteVars, P!timeVars, PostTypes, MemoryInv,
                      PictureInv
  <2>3. QED
    BY <2>1, <2>2
<1>5. \A q2 \in Served : Leaves(q2)
  BY <1>3, <1>4 DEF Leaves, PostTypes
<1>6. MemoryInv'
  <2>1. PictureInv'
    BY <1>3, <1>4 DEF MemoryInv, PictureInv, PostTypes
  <2>2. QED
    BY <1>3, <1>4, <2>1 DEF MemoryInv, PostedInv, KeptInv, CompletedInv, ToldInv, Kept, Completed,
                           CacheInv, Sound, Lacks
<1>7. ASSUME NEW n \in PostRequest, req' = [req EXCEPT ![r] = n], RequestOK(n)'
      PROVE  PostInv'
  <2>1. PostTypes'
    BY <1>3, <1>4, <1>7 DEF PostTypes
  <2>2. QED
    BY <1>5, <1>6, <1>7, <2>1, OneBecomes
<1>8. CASE P!UploadLost(r)
  <2>1. req' = [req EXCEPT ![r] = P!Idle] /\ P!Idle \in PostRequest
    BY <1>3, <1>8, IdleFits DEF P!UploadLost
  <2>2. PostTypes'
    BY <1>3, <1>4, <2>1 DEF PostTypes
  <2>3. QED
    BY <1>7, <2>1, <2>2, IdleFitsNext
<1>9. CASE P!UploadPicture(r)
  <2>1. PICK s, b, n : /\ s = P!AfterUpload(q.post) /\ b = P!Bucket(q.post)
                       /\ n = [[q EXCEPT !.pc = s] EXCEPT !.bucket = b]
    OBVIOUS
  <2>2. req' = [req EXCEPT ![r] = n]
    BY <1>1, <1>9, <2>1 DEF P!UploadPicture, P!Goes
  <2>3. /\ s \in PostSteps /\ b \in Nat /\ (q.post \in notes => s = "create")
        /\ q.post \notin notes => s = "lock"
    <3>1. \A m \in Nat, k \in Nat \ {0} : m \div k \in Nat
      OBVIOUS
    <3>2. now \in Nat /\ CreateLife \in Nat \ {0}
      BY <1>3 DEF PostTypes, P!PostWriteAssumption
    <3>3. QED
      BY <2>1, <3>1, <3>2 DEF P!AfterUpload, P!Bucket, PostSteps
  <2>4. /\ n \in PostRequest /\ n.pc = s /\ n.post = q.post /\ n.at = q.at /\ n.bucket = b
        /\ n.body = q.body /\ n.known = q.known
    BY <1>3, <2>1, <2>3 DEF PostRequest
  <2>5. ShapeOK(n)'
    BY <1>2, <1>3, <1>4, <2>3, <2>4 DEF RequestOK, ShapeOK, ListSteps
  <2>6. PictureOK(n)'
    BY <1>2, <1>3, <1>4, <2>3, <2>4 DEF RequestOK, PictureOK
  <2>7. CreationOK(n)'
    BY <1>2, <1>3, <1>4, <2>3, <2>4 DEF RequestOK, CreationOK, TooOld
  <2>8. ListOK(n)'
    BY <2>3, <2>4 DEF ListOK
  <2>9. QED
    BY <1>7, <2>2, <2>4, <2>5, <2>6, <2>7, <2>8 DEF RequestOK
<1>10. QED
  BY <1>8, <1>9

LEMMA CreateStep ==
    ASSUME P!PostWriteAssumption, PostInv, NEW r \in Threads, P!Create(r)
    PROVE  PostInv'
<1>1. PICK q, n, d, x : /\ q = req[r] /\ n = [q EXCEPT !.pc = "store"]
                        /\ d = [at |-> q.at, bucket |-> q.bucket]
                        /\ x = (IF q.post \in pictures \ notes THEN obs[q.post] ELSE q.body)
  BY Zenon
<1>2. q \in PostRequest /\ RequestOK(q) /\ PostTypes /\ MemoryInv
  BY <1>1, RequestFits DEF PostInv
<1>3. /\ q.pc = "create" /\ req' = [req EXCEPT ![r] = n]
      /\ posted' = [posted EXCEPT ![q.post] = @ \cup {d}]
      /\ bodies' = [bodies EXCEPT ![q.post] = @ \cup {x}]
      /\ made' = IF q.post \in P!Made THEN made ELSE [made EXCEPT ![q.post] = now]
      /\ UNCHANGED <<notes, pictures, now, file, rewritten, oids, obs, kept, completed, told,
                     listCache>>
  BY <1>1 DEF P!Create, P!Serving, P!Goes, P!setting, P!noteVars, P!timeVars
<1>4. /\ q.post \in Posts /\ x \in Bodies
      /\ q.post \in pictures => /\ x \in {"part", "whole"}
                                /\ q.post \notin rewritten => x = "whole"
  <2>1. q.post \in Posts
    BY <1>2, <1>3 DEF RequestOK, ShapeOK, ListSteps, PostRequest
  <2>2. CASE q.post \in pictures
    BY <1>1, <1>2, <1>3, <2>1, <2>2 DEF RequestOK, PictureOK, StepsWithBody, MemoryInv, PictureInv,
                                       PostTypes, Pictures, Bodies
  <2>3. CASE q.post \notin pictures
    BY <1>1, <1>2, <2>1, <2>3 DEF PostRequest
  <2>4. QED
    BY <2>1, <2>2, <2>3
<1>5. /\ n \in PostRequest /\ n.pc = "store" /\ n.post = q.post /\ n.at = q.at
      /\ n.bucket = q.bucket /\ n.body = q.body /\ n.known = q.known
      /\ d \in Creation /\ d.at = q.at /\ d.bucket = q.bucket
  BY <1>1, <1>2 DEF PostRequest, PostSteps, Creation
<1>6. /\ posted' \in [Posts -> SUBSET Creation] /\ bodies' \in [Posts -> SUBSET Bodies]
      /\ made' \in [Posts -> Nat]
      /\ \A o \in Posts : posted[o] \subseteq posted'[o] /\ bodies[o] \subseteq bodies'[o]
      /\ \A o \in Posts : o # q.post => posted'[o] = posted[o] /\ bodies'[o] = bodies[o]
                                        /\ made'[o] = made[o]
      /\ d \in posted'[q.post] /\ bodies'[q.post] = bodies[q.post] \cup {x}
      /\ bodies[q.post] # {} => made'[q.post] = made[q.post]
      /\ bodies[q.post] = {} => made'[q.post] = now
  BY <1>2, <1>3, <1>4, <1>5 DEF PostTypes, P!Made
<1>7. PostTypes'
  BY <1>2, <1>3, <1>5, <1>6 DEF PostTypes
<1>8. (\A q2 \in Served : Leaves(q2)) /\ Leaves(q)
  BY <1>2, <1>3, <1>4, <1>6 DEF Leaves, PostTypes
<1>9. RequestOK(q)'
  BY <1>2, <1>7, <1>8, StaysFit DEF MemoryInv
<1>10. RequestOK(n)'
  <2>1. ShapeOK(n)'
    BY <1>3, <1>5, <1>9 DEF RequestOK, ShapeOK, ListSteps
  <2>2. PictureOK(n)'
    BY <1>3, <1>5, <1>9 DEF RequestOK, PictureOK, StepsWithBody
  <2>3. CreationOK(n)'
    BY <1>3, <1>5, <1>6, <1>9 DEF RequestOK, CreationOK, TooOld
  <2>4. ListOK(n)'
    BY <1>5 DEF ListOK
  <2>5. QED
    BY <2>1, <2>2, <2>3, <2>4 DEF RequestOK
<1>11. MemoryInv'
  <2>1. PictureInv'
    BY <1>2, <1>3, <1>4, <1>6 DEF MemoryInv, PictureInv, PostTypes
  <2>2. PostedInv'
    BY <1>2, <1>3, <1>4, <1>6 DEF MemoryInv, PostedInv
  <2>3. KeptInv' /\ CompletedInv'
    BY <1>2, <1>3, <1>6 DEF MemoryInv, KeptInv, CompletedInv, PostTypes
  <2>4. ToldInv'
    BY <1>2, <1>3, <1>6 DEF MemoryInv, ToldInv, Kept, Completed, PostTypes
  <2>5. CacheInv'
    <3>1. SUFFICES ASSUME listCache # None PROVE Sound(listCache)' /\ listCache.at <= now
      BY <1>3 DEF CacheInv
    <3>2. PICK l : l = listCache /\ l \in NoteList /\ Sound(l) /\ l.at <= now
      BY <1>2, <3>1 DEF MemoryInv, CacheInv, PostTypes
    <3>3. ASSUME ~l.bad, NEW p \in notes \ (l.items \cup l.off), bodies'[p] # {}
          PROVE  made'[p] >= l.at /\ (p \in told => p \in l.crossed)
      <4>1. p \in Posts
        BY <1>2, <3>3 DEF PostTypes
      <4>2. CASE bodies[p] = {}
        BY <1>2, <1>6, <3>2, <3>3, <4>1, <4>2, ToldIsMade DEF MemoryInv
      <4>3. CASE bodies[p] # {}
        BY <1>6, <3>2, <3>3, <4>1, <4>3 DEF Sound, Lacks
      <4>4. QED
        BY <4>2, <4>3
    <3>4. QED
      BY <1>3, <3>2, <3>3 DEF Sound, Lacks
  <2>6. QED
    BY <2>1, <2>2, <2>3, <2>4, <2>5 DEF MemoryInv
<1>12. QED
  BY <1>3, <1>7, <1>8, <1>10, <1>11, OneBecomes

(* Remembering and forgetting.                                               *)
LEMMA TakeLockStep ==
    ASSUME P!PostWriteAssumption, PostInv, NEW r \in Threads, P!TakeLock(r)
    PROVE  PostInv'
<1>1. PICK q, n, a : q = req[r] /\ n = [[q EXCEPT !.pc = "create"] EXCEPT !.at = a] /\ a = now
  OBVIOUS
<1>2. q \in PostRequest /\ RequestOK(q) /\ PostTypes /\ MemoryInv
  BY <1>1, RequestFits DEF PostInv
<1>3. PICK live : live = {c \in completed : c.until > now}
  OBVIOUS
<1>4. /\ q.pc = "lock" /\ completed' = live
      /\ UNCHANGED <<notes, pictures, now, file, rewritten, bodies, oids, obs, posted, kept,
                     listCache, made>>
      /\ \/ /\ \E c \in live : c.post = q.post /\ c.bucket = q.bucket
            /\ req' = [req EXCEPT ![r] = P!Idle] /\ told' = told \cup {q.post}
         \/ /\ ~\E c \in live : c.post = q.post /\ c.bucket = q.bucket
            /\ req' = [req EXCEPT ![r] = n] /\ told' = told
  BY <1>1, <1>3 DEF P!TakeLock, P!Serving, P!Goes, P!setting, P!noteVars, P!lineVars
<1>5. /\ q.post \in Posts \ notes /\ live \subseteq completed
      /\ told \subseteq told' /\ told' \subseteq told \cup {q.post}
  <2>1. q.post \in Posts \ notes
    BY <1>2, <1>4 DEF RequestOK, ShapeOK, ListSteps, PostRequest
  <2>2. QED
    BY <1>3, <1>4, <2>1
<1>6. \A q2 \in Served : Leaves(q2)
  BY <1>2, <1>4, <1>5 DEF Leaves, PostTypes
<1>7. \A p \in told : \E c \in posted[p] :
          \/ now >= c.at + CreateLife
          \/ p \in notes /\ Kept(p, c)
          \/ /\ p \notin notes
             /\ \E e \in live : /\ e.post = p /\ e.bucket = c.bucket
                                /\ e.until = c.at + CreateLife
  <2>1. SUFFICES ASSUME NEW p \in told
                 PROVE  \E c \in posted[p] :
                           \/ now >= c.at + CreateLife
                           \/ p \in notes /\ Kept(p, c)
                           \/ /\ p \notin notes
                              /\ \E e \in live : /\ e.post = p /\ e.bucket = c.bucket
                                                 /\ e.until = c.at + CreateLife
    OBVIOUS
  <2>2. PICK c \in posted[p] : \/ now >= c.at + CreateLife
                               \/ p \in notes /\ Kept(p, c)
                               \/ p \notin notes /\ Completed(p, c)
    BY <1>2 DEF MemoryInv, ToldInv
  <2>3. CASE p \notin notes /\ Completed(p, c)
    <3>1. PICK e \in completed : e.post = p /\ e.bucket = c.bucket /\ e.until = c.at + CreateLife
      BY <2>3 DEF Completed
    <3>2. e.until \in Nat /\ now \in Nat
      BY <1>2 DEF PostTypes
    <3>3. e \in live \/ now >= c.at + CreateLife
      BY <1>3, <3>1, <3>2
    <3>4. QED
      BY <2>3, <3>1, <3>3, Zenon
  <2>4. QED
    BY <2>2, <2>3, Zenon
<1>8. PictureInv' /\ PostedInv' /\ KeptInv' /\ CompletedInv' /\ CacheInv'
  <2>1. PictureInv' /\ PostedInv' /\ KeptInv' /\ CompletedInv'
    BY <1>2, <1>4, <1>5 DEF MemoryInv, PictureInv, PostedInv, KeptInv, CompletedInv
  <2>2. CacheInv'
    <3>1. told' \cap notes \subseteq told
      BY <1>5
    <3>2. QED
      BY <1>2, <1>4, <3>1 DEF MemoryInv, CacheInv, Sound, Lacks
  <2>3. QED
    BY <2>1, <2>2
<1>9. CASE /\ \E c \in live : c.post = q.post /\ c.bucket = q.bucket
           /\ req' = [req EXCEPT ![r] = P!Idle] /\ told' = told \cup {q.post}
  <2>1. PostTypes'
    BY <1>2, <1>4, <1>5, <1>9, IdleFits DEF PostTypes
  <2>2. \E c \in posted[q.post] : \E e \in live :
            e.post = q.post /\ e.bucket = c.bucket /\ e.until = c.at + CreateLife
    BY <1>2, <1>5, <1>9 DEF MemoryInv, CompletedInv
  <2>3. ToldInv'
    BY <1>4, <1>5, <1>7, <1>9, <2>2 DEF ToldInv, Kept, Completed
  <2>4. QED
    BY <1>6, <1>8, <1>9, <2>1, <2>3, IdleFitsNext, OneBecomes DEF MemoryInv
<1>10. CASE /\ ~\E c \in live : c.post = q.post /\ c.bucket = q.bucket
            /\ req' = [req EXCEPT ![r] = n] /\ told' = told
  <2>1. a \in Nat /\ now \in Nat
    BY <1>1, <1>2 DEF PostTypes
  <2>2. /\ n \in PostRequest /\ n.pc = "create" /\ n.post = q.post /\ n.at = a
        /\ n.bucket = q.bucket /\ n.body = q.body /\ n.known = q.known
    BY <1>1, <1>2, <2>1 DEF PostRequest, PostSteps
  <2>3. PostTypes'
    BY <1>2, <1>4, <1>5, <1>10, <2>2 DEF PostTypes
  <2>4. ToldInv'
    BY <1>4, <1>7, <1>10 DEF ToldInv, Kept, Completed
  <2>5. ShapeOK(n)'
    BY <1>1, <1>2, <1>4, <1>5, <1>10, <2>1, <2>2 DEF RequestOK, ShapeOK, ListSteps
  <2>6. PictureOK(n)'
    BY <1>2, <1>4, <2>2 DEF RequestOK, PictureOK, StepsWithBody
  <2>7. CreationOK(n)'
    <3>1. q.post \in q.known => \E c \in posted[q.post] : TooOld(n, c)
      <4>1. SUFFICES ASSUME q.post \in q.known PROVE \E c \in posted[q.post] : TooOld(n, c)
        OBVIOUS
      <4>2. q.post \in told
        BY <1>2, <4>1 DEF RequestOK, ShapeOK
      <4>3. PICK c \in posted[q.post] :
                \/ now >= c.at + CreateLife
                \/ \E e \in live : e.post = q.post /\ e.bucket = c.bucket
        BY <1>5, <1>7, <4>2
      <4>4. QED
        BY <1>1, <1>5, <1>10, <2>2, <4>3 DEF TooOld
    <3>2. QED
      BY <1>4, <2>2, <3>1 DEF CreationOK, TooOld
  <2>8. ListOK(n)'
    BY <2>2 DEF ListOK
  <2>9. QED
    BY <1>6, <1>8, <1>10, <2>3, <2>4, <2>5, <2>6, <2>7, <2>8, OneBecomes DEF MemoryInv, RequestOK
<1>11. QED
  BY <1>4, <1>9, <1>10

LEMMA StorePostStep ==
    ASSUME P!PostWriteAssumption, PostInv, NEW r \in Threads, P!StorePost(r)
    PROVE  PostInv'
<1>1. PICK q, e : /\ q = req[r]
                  /\ e = [post |-> q.post, bucket |-> q.bucket, until |-> q.at + CreateLife]
  OBVIOUS
<1>2. q \in PostRequest /\ RequestOK(q) /\ PostTypes /\ MemoryInv
  BY <1>1, RequestFits DEF PostInv
<1>3. /\ q.pc = "store" /\ q.post \notin notes
      /\ completed' = {c \in completed : [post |-> c.post, bucket |-> c.bucket]
                                           # [post |-> q.post, bucket |-> q.bucket]} \cup {e}
      /\ told' = told \cup {q.post} /\ req' = [req EXCEPT ![r] = P!Idle]
      /\ UNCHANGED <<notes, pictures, now, file, rewritten, bodies, oids, obs, posted, kept,
                     listCache, made>>
  BY <1>1 DEF P!StorePost, P!Serving, P!setting, P!noteVars, P!lineVars
<1>4. q.post \in Posts /\ q.post \notin notes /\ q.at + CreateLife \in Nat
  BY <1>2, <1>3 DEF RequestOK, ShapeOK, ListSteps, PostRequest, P!PostWriteAssumption
<1>5. e \in [post : Posts, bucket : Nat, until : Nat]
      /\ e.post = q.post /\ e.bucket = q.bucket /\ e.until = q.at + CreateLife
  BY <1>1, <1>2, <1>4 DEF PostRequest
<1>6. PICK d \in posted[q.post] : d.at = q.at /\ d.bucket = q.bucket
  BY <1>2, <1>3 DEF RequestOK, CreationOK
<1>7. PostTypes'
  BY <1>2, <1>3, <1>4, <1>5, IdleFits DEF PostTypes
<1>8. \A q2 \in Served : Leaves(q2)
  BY <1>2, <1>3, <1>4 DEF Leaves, PostTypes
<1>9. \A c \in completed : c.post # q.post => c \in completed'
  BY <1>3
<1>10. MemoryInv'
  <2>1. PictureInv' /\ PostedInv' /\ KeptInv'
    BY <1>2, <1>3 DEF MemoryInv, PictureInv, PostedInv, KeptInv
  <2>2. CompletedInv'
    BY <1>2, <1>3, <1>4, <1>5, <1>6 DEF MemoryInv, CompletedInv
  <2>3. ToldInv'
    <3>1. ASSUME NEW p \in told, p # q.post
          PROVE  \E c \in posted[p] : \/ now >= c.at + CreateLife
                                      \/ p \in notes /\ Kept(p, c)
                                      \/ p \notin notes /\ Completed(p, c)'
      BY <1>2, <1>9, <3>1 DEF MemoryInv, ToldInv, Completed
    <3>2. Completed(q.post, d)'
      BY <1>3, <1>5, <1>6 DEF Completed
    <3>3. QED
      BY <1>3, <1>4, <3>1, <3>2 DEF ToldInv, Kept
  <2>4. CacheInv'
    <3>1. told' \cap notes \subseteq told
      BY <1>3
    <3>2. QED
      BY <1>2, <1>3, <3>1 DEF MemoryInv, CacheInv, Sound, Lacks
  <2>5. QED
    BY <2>1, <2>2, <2>3, <2>4 DEF MemoryInv
<1>11. QED
  BY <1>3, <1>7, <1>8, <1>10, IdleFitsNext, OneBecomes

LEMMA StoreNoteStep ==
    ASSUME P!PostWriteAssumption, PostInv, NEW r \in Threads, P!StoreNote(r)
    PROVE  PostInv'
<1>1. PICK q, e, p : q = req[r] /\ p = q.post /\ e = [post |-> p, at |-> q.at]
  OBVIOUS
<1>2. q \in PostRequest /\ RequestOK(q) /\ PostTypes /\ MemoryInv
  BY <1>1, RequestFits DEF PostInv
<1>3. /\ q.pc = "store" /\ p \in notes /\ listCache' = None
      /\ kept' = {k \in kept : k.post # p} \cup {e}
      /\ told' = told \cup {p} /\ req' = [P!Crossed(p) EXCEPT ![r] = P!Idle]
      /\ UNCHANGED <<notes, pictures, now, file, rewritten, bodies, oids, obs, posted, completed,
                     made>>
  BY <1>1 DEF P!StoreNote, P!DropList, P!Serving, P!setting, P!timeVars, P!lineVars
<1>4. p \in Posts /\ e \in [post : Posts, at : Nat] /\ e.post = p /\ e.at = q.at
  BY <1>1, <1>2, <1>3 DEF PostRequest, PostTypes
<1>5. PICK d \in posted[p] : d.at = q.at /\ d.bucket = q.bucket
  BY <1>1, <1>2, <1>3 DEF RequestOK, CreationOK
<1>6. ASSUME NEW u \in Threads, u # r, req[u].pc \in {"fetch", "keep"}
      PROVE  /\ req'[u] \in PostRequest /\ req'[u].pc = req[u].pc /\ req'[u].post = req[u].post
             /\ req'[u].at = req[u].at /\ req'[u].known = req[u].known
             /\ req'[u].items = req[u].items /\ req'[u].off = req[u].off /\ req'[u].bad = req[u].bad
             /\ req'[u].crossed = req[u].crossed \cup {p}
  <2>1. PICK o, n : o = req[u] /\ n = [o EXCEPT !.crossed = @ \cup {p}]
    OBVIOUS
  <2>2. req'[u] = n
    BY <1>3, <1>6, <2>1 DEF P!Crossed
  <2>3. o \in PostRequest
    BY <1>2, <2>1 DEF PostTypes
  <2>4. QED
    BY <1>4, <2>1, <2>2, <2>3 DEF PostRequest
<1>7. ASSUME NEW u \in Threads, u # r, req[u].pc \notin {"fetch", "keep"}
      PROVE  req'[u] = req[u]
  BY <1>3, <1>7 DEF P!Crossed
<1>8. req'[r] = P!Idle /\ DOMAIN req' = Threads /\ P!Idle \in PostRequest
  BY <1>2, <1>3, IdleFits DEF P!Crossed
<1>9. PostTypes'
  <2>1. req' = [u \in Threads |-> req'[u]]
    BY <1>3 DEF P!Crossed
  <2>2. \A u \in Threads : req'[u] \in PostRequest
    BY <1>2, <1>6, <1>7, <1>8 DEF PostTypes
  <2>3. req' \in [Threads -> PostRequest]
    BY <2>1, <2>2
  <2>4. QED
    BY <1>2, <1>3, <1>4, <2>3 DEF PostTypes
<1>10. MemoryInv'
  <2>1. PictureInv' /\ PostedInv' /\ CompletedInv'
    BY <1>2, <1>3 DEF MemoryInv, PictureInv, PostedInv, CompletedInv
  <2>2. KeptInv'
    BY <1>2, <1>3, <1>4, <1>5 DEF MemoryInv, KeptInv
  <2>3. ToldInv'
    <3>1. ASSUME NEW o \in told, o # p
          PROVE  \E c \in posted[o] : \/ now >= c.at + CreateLife
                                      \/ o \in notes /\ Kept(o, c)'
                                      \/ o \notin notes /\ Completed(o, c)
      BY <1>2, <1>3, <3>1 DEF MemoryInv, ToldInv, Kept
    <3>2. Kept(p, d)'
      BY <1>3, <1>4, <1>5 DEF Kept
    <3>3. QED
      BY <1>3, <3>1, <3>2 DEF ToldInv, Completed
  <2>4. CacheInv'
    BY <1>3 DEF CacheInv
  <2>5. QED
    BY <2>1, <2>2, <2>3, <2>4 DEF MemoryInv
<1>11. ASSUME NEW u \in Threads, NEW n, n = req'[u]
       PROVE  RequestOK(n)'
  <2>1. CASE u = r
    BY <1>8, <1>9, <1>11, <2>1, IdleFitsNext
  <2>2. CASE u # r /\ req[u].pc \notin {"fetch", "keep"}
    <3>1. n \in PostRequest /\ RequestOK(n) /\ n.pc # "keep"
      BY <1>7, <1>11, <2>2, RequestFits
    <3>2. Leaves(n)
      BY <1>2, <1>3, <3>1 DEF Leaves, PostTypes
    <3>3. QED
      BY <1>2, <1>9, <3>1, <3>2, StaysFit DEF MemoryInv
  <2>3. CASE u # r /\ req[u].pc \in {"fetch", "keep"}
    <3>1. PICK o : o = req[u]
      OBVIOUS
    <3>2. /\ o \in PostRequest /\ RequestOK(o) /\ o.pc \in {"fetch", "keep"}
          /\ n \in PostRequest /\ n.pc = o.pc /\ n.post = o.post /\ n.at = o.at
          /\ n.known = o.known /\ n.items = o.items /\ n.off = o.off /\ n.bad = o.bad
          /\ n.crossed = o.crossed \cup {p}
      BY <1>6, <1>11, <2>3, <3>1, RequestFits
    <3>3. /\ n.post = None /\ None \notin pictures /\ None \notin n.known
      BY <1>2, <3>2 DEF RequestOK, ShapeOK, ListSteps, PostTypes, PostRequest,
                       P!PostWriteAssumption
    <3>4. ShapeOK(n)'
      BY <1>3, <3>2, <3>3 DEF RequestOK, ShapeOK, ListSteps
    <3>5. PictureOK(n)' /\ CreationOK(n)'
      BY <1>3, <3>2, <3>3 DEF PictureOK, CreationOK
    <3>6. ListOK(n)'
      <4>1. n.pc = "keep" => Sound(o)
        BY <3>2 DEF RequestOK, ListOK
      <4>2. n.pc # "list"
        BY <3>2
      <4>3. n.pc = "keep" => Sound(n)'
        BY <1>3, <3>2, <4>1 DEF Sound, Lacks
      <4>4. QED
        BY <4>2, <4>3 DEF ListOK
    <3>7. QED
      BY <3>4, <3>5, <3>6 DEF RequestOK
  <2>4. QED
    BY <2>1, <2>2, <2>3
<1>12. RequestInv'
  <2> HIDE DEF RequestOK
  <2>1. QED
    BY <1>11 DEF RequestInv, Served
<1>13. QED
  BY <1>9, <1>10, <1>12 DEF PostInv

LEMMA PostStep ==
    ASSUME P!PostWriteAssumption, PostInv, NEW r \in Threads, NEW p \in Posts, P!Post(r, p)
    PROVE  PostInv'
<1>1. PostTypes /\ MemoryInv /\ None \notin Posts /\ CreateLife \in Nat \ {0} /\ now \in Nat
      /\ pictures \subseteq Posts
  BY DEF PostInv, P!PostWriteAssumption, PostTypes
<1>2. /\ UNCHANGED <<notes, pictures, now, file, rewritten, bodies, oids, obs, posted, completed,
                     listCache, made>>
      /\ p \in pictures => file[p] = "whole"
  BY DEF P!Post, P!setting, P!timeVars, P!lineVars
<1>3. CASE P!Remembered(p)
  <2>1. told' = told \cup {p} /\ UNCHANGED <<req, kept>>
    BY <1>3 DEF P!Post
  <2>2. p \in notes /\ \E k \in kept : k.post = p
    BY <1>3 DEF P!Remembered
  <2>3. p \in told
    BY <1>1, <2>2 DEF MemoryInv, KeptInv
  <2>4. told' = told
    BY <2>1, <2>3
  <2>5. PostTypes'
    BY <1>1, <1>2, <2>1, <2>4 DEF PostTypes
  <2>6. MemoryInv'
    BY <1>1, <1>2, <2>1, <2>4, MemoryStays
  <2>7. \A q \in Served : Leaves(q)
    BY <1>1, <1>2, <2>4 DEF Leaves
  <2>8. QED
    BY <2>1, <2>5, <2>6, <2>7, NoneBecomes
<1>4. CASE ~P!Remembered(p)
  <2>1. PICK e, s, b, t, a, n : /\ e = P!Idle /\ s = P!FirstStep(p) /\ b = P!Bucket(p)
                                /\ t = told /\ a = now
                                /\ n = [e EXCEPT !.pc = s, !.post = p, !.known = t, !.at = a,
                                                 !.bucket = b]
    OBVIOUS
  <2>2. /\ kept' = IF p \in notes THEN {k \in kept : P!Alive(k)} ELSE kept
        /\ req' = [req EXCEPT ![r] = n] /\ told' = told
    BY <1>4, <2>1 DEF P!Post
  <2>3. /\ s \in PostSteps /\ b \in Nat /\ t \in SUBSET Posts /\ a \in Nat
        /\ p \in pictures => s = "read"
        /\ p \notin pictures => s = IF p \in notes THEN "create" ELSE "lock"
    <3>1. \A m \in Nat, k \in Nat \ {0} : m \div k \in Nat
      OBVIOUS
    <3>2. QED
      BY <1>1, <2>1, <3>1 DEF P!FirstStep, P!AfterUpload, P!Bucket, PostSteps, PostTypes
  <2>4. e \in PostRequest /\ e.body = "text"
    BY <1>1, <2>1, IdleFits DEF P!Idle
  <2>5. /\ n \in PostRequest /\ n.pc = s /\ n.post = p /\ n.known = t /\ n.at = a
        /\ n.bucket = b
    BY <2>1, <2>3, <2>4 DEF PostRequest
  <2>6. PostTypes'
    BY <1>1, <1>2, <2>2, <2>5 DEF PostTypes
  <2>7. \A k \in kept : k \in [post : Posts, at : Nat]
    BY <1>1 DEF PostTypes
  <2>8. \A o \in told \cap notes : \E c \in posted[o] :
            now >= c.at + CreateLife \/ (Kept(o, c) /\ Kept(o, c)' /\ o # p)
    <3>1. SUFFICES ASSUME NEW o \in told \cap notes
                   PROVE  \E c \in posted[o] :
                             now >= c.at + CreateLife \/ (Kept(o, c) /\ Kept(o, c)' /\ o # p)
      OBVIOUS
    <3>2. PICK c \in posted[o] : now >= c.at + CreateLife \/ Kept(o, c)
      BY <1>1 DEF MemoryInv, ToldInv
    <3>3. CASE Kept(o, c)
      <4>1. PICK k \in kept : k.post = o /\ k.at = c.at
        BY <3>3 DEF Kept
      <4>2. k.at \in Nat
        BY <2>7
      <4>3. CASE P!Alive(k)
        <5>1. k \in kept'
          BY <2>2, <4>3
        <5>2. Kept(o, c)'
          BY <4>1, <5>1 DEF Kept
        <5>3. o # p
          BY <1>4, <4>1, <4>3 DEF P!Remembered
        <5>4. QED
          BY <3>3, <5>2, <5>3, Zenon
      <4>4. CASE ~P!Alive(k)
        <5>1. now >= c.at + CreateLife
          BY <1>1, <4>1, <4>2, <4>4 DEF P!Alive
        <5>2. QED
          BY <5>1, Zenon
      <4>5. QED
        BY <4>3, <4>4
    <3>4. QED
      BY <3>2, <3>3, Zenon
  <2>9. MemoryInv'
    <3>1. PictureInv' /\ PostedInv' /\ CompletedInv' /\ CacheInv'
      BY <1>1, <1>2, <2>2 DEF MemoryInv, PictureInv, PostedInv, CompletedInv, CacheInv, Sound,
                              Lacks
    <3>2. KeptInv'
      BY <1>1, <1>2, <2>2 DEF MemoryInv, KeptInv
    <3>3. ToldInv'
      <4>1. \A o \in told \ notes : \E c \in posted[o] :
                now >= c.at + CreateLife \/ Completed(o, c)
        BY <1>1 DEF MemoryInv, ToldInv
      <4>2. QED
        BY <1>2, <2>2, <2>8, <4>1 DEF ToldInv, Completed
    <3>4. QED
      BY <3>1, <3>2, <3>3 DEF MemoryInv
  <2>10. (\A q \in Served : Leaves(q)) /\ Leaves(n)
    BY <1>1, <1>2, <2>2 DEF Leaves
  <2>11. RequestOK(n)
    <3>1. ShapeOK(n)
      <4>1. \A o \in told : bodies[o] # {}
        BY <1>1, ToldIsMade DEF MemoryInv
      <4>2. n.post # None /\ n.pc \notin ListSteps
        BY <1>1, <2>3, <2>5 DEF ListSteps
      <4>3. QED
        BY <1>1, <2>1, <2>3, <2>5, <4>1, <4>2 DEF ShapeOK, ListSteps
    <3>2. PictureOK(n)
      BY <1>2, <2>3, <2>5 DEF PictureOK, StepsWithBody
    <3>3. CreationOK(n)
      <4>1. n.pc # "store" /\ (n.pc = "create" => p \in notes)
        BY <2>3, <2>5
      <4>2. ASSUME p \in told, p \in notes PROVE \E c \in posted[p] : TooOld(n, c)
        <5>1. PICK c \in posted[p] : now >= c.at + CreateLife
          BY <2>8, <4>2
        <5>2. TooOld(n, c)
          BY <2>1, <2>5, <5>1 DEF TooOld
        <5>3. QED
          BY <5>2
      <4>3. QED
        BY <2>1, <2>5, <4>1, <4>2 DEF CreationOK
    <3>4. ListOK(n)
      BY <2>3, <2>5 DEF ListOK
    <3>5. QED
      BY <3>1, <3>2, <3>3, <3>4 DEF RequestOK
  <2>12. RequestOK(n)'
    BY <1>1, <2>5, <2>6, <2>10, <2>11, StaysFit DEF MemoryInv
  <2>13. QED
    BY <2>2, <2>6, <2>9, <2>10, <2>12, OneBecomes
<1>5. QED
  BY <1>3, <1>4

(* A restart ends the requests of its service and forgets its successes.     *)
LEMMA RestartStep ==
    ASSUME P!PostWriteAssumption, PostInv, NEW service \in {"cdn_proxy", "legy_proxy"},
           P!Restart(service)
    PROVE  PostInv'
<1>1. PostTypes /\ MemoryInv /\ None \notin Posts
  BY DEF PostInv, P!PostWriteAssumption
<1>2. PICK its : its = IF service = "cdn_proxy" THEN notes ELSE Posts \ notes
  OBVIOUS
<1>3. /\ its = {p \in Posts : P!Service(p) = service} /\ its \subseteq Posts
  BY <1>1, <1>2 DEF P!Service, PostTypes
<1>4. /\ UNCHANGED <<notes, pictures, now, file, obs, bodies, made, rewritten>>
      /\ req' = [r \in Threads |->
                    IF req[r].post \in its \/ (service = "cdn_proxy" /\ req[r].post = None)
                    THEN P!Idle ELSE req[r]]
      /\ service = "cdn_proxy" => /\ listCache' = None /\ kept' = {}
                                  /\ oids' = [p \in Posts |-> "none"]
                                  /\ completed' = completed
      /\ service # "cdn_proxy" => /\ completed' = {}
                                  /\ UNCHANGED <<listCache, kept, oids>>
      /\ told' = told \ its
      /\ posted' = [p \in Posts |-> IF p \in its THEN {} ELSE posted[p]]
  BY <1>3, Zenon DEF P!Restart, P!setting, P!noteVars, P!timeVars
<1>5. PostTypes'
  <2>1. req' \in [Threads -> PostRequest]
    BY <1>1, <1>4, IdleFits DEF PostTypes
  <2>2. oids' \in [Posts -> Pictures]
    BY <1>1, <1>4 DEF PostTypes, Pictures
  <2>3. posted' \in [Posts -> SUBSET Creation]
    BY <1>1, <1>4 DEF PostTypes
  <2>4. kept' \in SUBSET [post : Posts, at : Nat]
        /\ completed' \in SUBSET [post : Posts, bucket : Nat, until : Nat]
        /\ (listCache' # None => listCache' \in NoteList)
    BY <1>1, <1>4 DEF PostTypes
  <2>5. QED
    BY <1>1, <1>4, <2>1, <2>2, <2>3, <2>4 DEF PostTypes
<1>6. MemoryInv'
  <2>1. PictureInv'
    BY <1>1, <1>4 DEF MemoryInv, PictureInv, PostTypes
  <2>2. PostedInv'
    BY <1>1, <1>4 DEF MemoryInv, PostedInv
  <2>3. KeptInv' /\ CompletedInv' /\ CacheInv'
    <3>1. CASE service = "cdn_proxy"
      BY <1>1, <1>2, <1>4, <3>1 DEF MemoryInv, KeptInv, CompletedInv, CacheInv, PostTypes
    <3>2. CASE service # "cdn_proxy"
      <4>1. told' \cap notes = told \cap notes
        BY <1>2, <1>4, <3>2
      <4>2. KeptInv' /\ CompletedInv'
        BY <1>1, <1>2, <1>4, <3>2, <4>1 DEF MemoryInv, KeptInv, CompletedInv, PostTypes
      <4>3. CacheInv'
        BY <1>1, <1>4, <3>2, <4>1 DEF MemoryInv, CacheInv, Sound, Lacks
      <4>4. QED
        BY <4>2, <4>3
    <3>3. QED
      BY <3>1, <3>2
  <2>4. ToldInv'
    <3>1. ASSUME NEW p \in told'
          PROVE  \E c \in posted'[p] : \/ now >= c.at + CreateLife
                                       \/ p \in notes /\ Kept(p, c)'
                                       \/ p \notin notes /\ Completed(p, c)'
      <4>1. p \in told /\ p \notin its /\ p \in Posts /\ posted'[p] = posted[p]
        BY <1>1, <1>4, <3>1 DEF PostTypes
      <4>2. p \in notes => kept' = kept
        BY <1>2, <1>4, <4>1
      <4>3. p \notin notes => completed' = completed
        BY <1>2, <1>4, <4>1
      <4>4. QED
        BY <1>1, <4>1, <4>2, <4>3 DEF MemoryInv, ToldInv, Kept, Completed
    <3>2. QED
      BY <1>4, <3>1 DEF ToldInv
  <2>5. QED
    BY <2>1, <2>2, <2>3, <2>4 DEF MemoryInv
<1>7. ASSUME NEW u \in Threads, NEW n, n = req'[u]
      PROVE  RequestOK(n)'
  <2>1. CASE n = P!Idle
    BY <1>5, <2>1, IdleFitsNext
  <2>2. CASE n # P!Idle
    <3>1. /\ n = req[u] /\ n.post \notin its /\ (service = "cdn_proxy" => n.post # None)
          /\ n \in PostRequest /\ RequestOK(n)
      BY <1>4, <1>7, <2>2, RequestFits
    <3>2. service = "cdn_proxy" => n.post \in Posts \ notes /\ n.pc \notin ListSteps
      BY <1>2, <3>1 DEF PostRequest, RequestOK, ShapeOK
    <3>3. service # "cdn_proxy" => told \cap notes \subseteq told'
      BY <1>2, <1>4
    <3>4. /\ n.post \in Posts => posted'[n.post] = posted[n.post]
          /\ n.post \in told => n.post \in told'
      BY <1>4, <3>1
    <3>5. told' \subseteq told /\ now' >= now
      BY <1>1, <1>4 DEF PostTypes
    <3>6. Leaves(n)
      BY <1>4, <3>2, <3>3, <3>4, <3>5 DEF Leaves, ListSteps
    <3>7. QED
      BY <1>1, <1>5, <3>1, <3>6, StaysFit DEF MemoryInv
  <2>3. QED
    BY <2>1, <2>2
<1>8. RequestInv'
  <2> HIDE DEF RequestOK
  <2>1. QED
    BY <1>7 DEF RequestInv, Served
<1>9. QED
  BY <1>5, <1>6, <1>8 DEF PostInv

LEMMA PostInit ==
    ASSUME P!PostWriteAssumption, P!Init
    PROVE  PostInv
<1>1. /\ notes \in SUBSET Posts /\ pictures \in SUBSET Posts /\ now = 0
      /\ file = [p \in Posts |-> "none"] /\ req = [r \in Threads |-> P!Idle]
      /\ listCache = None /\ kept = {} /\ completed = {} /\ told = {} /\ rewritten = {}
      /\ oids = [p \in Posts |-> "none"] /\ obs = [p \in Posts |-> "none"]
      /\ posted = [p \in Posts |-> {}] /\ bodies = [p \in Posts |-> {}]
      /\ made = [p \in Posts |-> 0]
  BY DEF P!Init
<1>2. P!Idle \in PostRequest
  BY DEF P!Idle, PostRequest, PostSteps, Bodies
<1>3. PostTypes
  BY <1>1, <1>2 DEF PostTypes, Pictures
<1>4. MemoryInv
  BY <1>1 DEF MemoryInv, PictureInv, PostedInv, KeptInv, CompletedInv, ToldInv, CacheInv
<1>5. RequestInv
  <2>1. \A q \in Served : q = P!Idle
    BY <1>1 DEF Served
  <2>2. RequestOK(P!Idle)
    BY <1>3, IdleFits
  <2> HIDE DEF RequestOK, Served
  <2>3. QED
    BY <2>1, <2>2 DEF RequestInv
<1>6. QED
  BY <1>3, <1>4, <1>5 DEF PostInv

LEMMA PostsStep ==
    ASSUME P!PostWriteAssumption, PostInv, [P!Next]_(P!vars)
    PROVE  PostInv'
<1>1. CASE P!Tick \/ P!Touch
  BY <1>1, TickStep, TouchStep
<1>2. ASSUME NEW p \in Posts, P!Capture(p) \/ P!Captured(p)
      PROVE  PostInv'
  BY <1>2, CaptureStep
<1>3. ASSUME NEW r \in Threads, NEW p \in Posts, P!Post(r, p)
      PROVE  PostInv'
  BY <1>3, PostStep
<1>4. ASSUME NEW r \in Threads, NEW piece, P!ReadPicture(r, piece)
      PROVE  PostInv'
  BY <1>4, ReadPictureStep
<1>5. ASSUME NEW r \in Threads,
             P!UploadPicture(r) \/ P!UploadLost(r) \/ P!TakeLock(r) \/ P!Create(r)
      PROVE  PostInv'
  BY <1>5, UploadStep, TakeLockStep, CreateStep
<1>6. ASSUME NEW r \in Threads, P!Fail(r) \/ P!Show(r) \/ P!StoreNote(r) \/ P!StorePost(r)
      PROVE  PostInv'
  BY <1>6, EndStep, StoreNoteStep, StorePostStep
<1>7. ASSUME NEW r \in Threads, P!List(r) \/ P!Fetch(r) \/ P!KeepList(r)
      PROVE  PostInv'
  BY <1>7, ListStep, FetchListStep, KeepListStep
<1>8. ASSUME NEW service \in {"cdn_proxy", "legy_proxy"}, P!Restart(service)
      PROVE  PostInv'
  BY <1>8, RestartStep
<1>9. CASE UNCHANGED P!vars
  <2>1. UNCHANGED <<notes, pictures, now, file, req, rewritten, bodies, oids, obs, posted, kept,
                    completed, told, listCache, made>>
    BY <1>9 DEF P!vars, P!setting, P!noteVars, P!timeVars, P!lineVars
  <2>2. PostTypes'
    BY <2>1 DEF PostInv, PostTypes
  <2>3. MemoryInv' /\ \A q \in Served : Leaves(q)
    BY <2>1, MemoryStays DEF PostInv, PostTypes, Leaves
  <2>4. QED
    BY <2>1, <2>2, <2>3, NoneBecomes
<1>10. QED
  BY <1>1, <1>2, <1>3, <1>4, <1>5, <1>6, <1>7, <1>8, <1>9 DEF P!Next

(* The three properties of the posts.                                       *)
LEMMA PostsShown ==
    ASSUME P!PostWriteAssumption, PostInv
    PROVE  P!ListsFresh /\ P!ToldIsStored
<1>1. PostTypes /\ MemoryInv
  BY DEF PostInv
<1>2. P!ListsFresh
  <2>1. SUFFICES ASSUME NEW r \in Threads, req[r].pc = "list", ~req[r].bad,
                        NEW p \in P!Written \ (req[r].items \cup req[r].off)
                 PROVE  /\ req[r].at < made[p] + ListLife
                        /\ p \in req[r].known => p \in req[r].crossed
    BY DEF P!ListsFresh, P!Serving
  <2>2. ListOK(req[r])
    BY RequestFits DEF RequestOK
  <2>3. p \in Lacks(req[r].items \cup req[r].off)
    BY DEF P!Written, P!Made, Lacks
  <2>4. QED
    BY <2>1, <2>2, <2>3 DEF ListOK
<1>3. P!ToldIsStored
  <2>1. SUFFICES ASSUME NEW p \in told
                 PROVE  /\ bodies[p] # {}
                        /\ p \in pictures =>
                              /\ "text" \notin bodies[p] /\ bodies[p] \subseteq {"part", "whole"}
                              /\ p \notin rewritten => bodies[p] = {"whole"}
    BY DEF P!ToldIsStored
  <2>2. bodies[p] # {}
    BY <1>1, ToldIsMade DEF MemoryInv
  <2>3. p \in pictures => /\ bodies[p] \subseteq {"part", "whole"}
                          /\ p \notin rewritten => bodies[p] \subseteq {"whole"}
    BY <1>1 DEF MemoryInv, PictureInv
  <2>4. QED
    BY <2>2, <2>3
<1>4. QED
  BY <1>2, <1>3

LEMMA NoSecondPost ==
    ASSUME P!PostWriteAssumption, PostInv
    PROVE  P!NoSecondCopyStep
<1>1. SUFFICES ASSUME NEW r \in Threads, req[r].pc = "create", req[r].post \in req[r].known
               PROVE  \E c \in posted[req[r].post] :
                         \/ req[r].at >= c.at + CreateLife
                         \/ req[r].post \notin notes /\ c.bucket # req[r].bucket
  BY DEF P!NoSecondCopyStep, P!Serving
<1>2. CreationOK(req[r])
  BY RequestFits DEF RequestOK
<1>3. QED
  BY <1>1, <1>2 DEF CreationOK, TooOld

-----------------------------------------------------------------------------
(* The media the phone sends *)

(* The lines of a message in the queue: none before it is sent, one at most. *)
QueueInv == \A m \in Media : queue[m] <= 1 /\ (m \notin sent => queue[m] = 0)

(* A video is handed over when its body exists, and a body stays.            *)
BodyInv ==
    /\ \A i \in 1..Len(videoIn) : body[videoIn[i]] # "none"
    /\ cur # None => body[cur] # "none"

(* The video worker works on what is not done, and knows what is.            *)
WorkInv ==
    /\ cur # None => videoUp /\ cur \notin doneDisk
    /\ step # "send" => cur # None
    /\ videoUp => doneMem = doneDisk

(* The videos LINE has that the worker will send again: a stop made it       *)
(* forget them.  Every copy, and every video at risk of one, is paid for by  *)
(* a restart.                                                                *)
AtRisk == {j \in Media : accepted[j] > 0 /\ j \notin doneDisk /\ (step = "send" \/ j # cur)}
CopiesPaid ==
    /\ IsFiniteSet(M!V!Copies) /\ IsFiniteSet(AtRisk)
    /\ Cardinality(M!V!Copies) + Cardinality(AtRisk) <= videoRestarts

PhoneInv  == M!TypeOK /\ QueueInv
BridgeInv == M!V!TypeOK /\ WorkInv /\ CopiesPaid
SendsInv  == PhoneInv /\ BridgeInv /\ BodyInv

LEMMA CopyIs ==
    ASSUME NEW f \in [Media -> Nat]
    PROVE  \A x : x \in UNION {{j} \X (2..f[j]) : j \in Media} <=>
              \E j \in Media, n \in Nat : x = <<j, n>> /\ 2 <= n /\ n <= f[j]
<1> SUFFICES ASSUME NEW x
             PROVE  x \in UNION {{j} \X (2..f[j]) : j \in Media} <=>
                       \E j \in Media, n \in Nat : x = <<j, n>> /\ 2 <= n /\ n <= f[j]
  OBVIOUS
<1>1. x \in UNION {{j} \X (2..f[j]) : j \in Media} <=> \E j \in Media : x \in {j} \X (2..f[j])
  OBVIOUS
<1>2. ASSUME NEW j \in Media
      PROVE  x \in {j} \X (2..f[j]) <=> \E n \in Nat : x = <<j, n>> /\ 2 <= n /\ n <= f[j]
  <2>1. f[j] \in Nat
    OBVIOUS
  <2>2. x \in {j} \X (2..f[j]) <=> \E n \in 2..f[j] : x = <<j, n>>
    OBVIOUS
  <2>3. \A n : n \in 2..f[j] <=> n \in Nat /\ 2 <= n /\ n <= f[j]
    BY <2>1
  <2>4. QED
    BY <2>2, <2>3, Zenon
<1>3. QED
  BY <1>1, <1>2, Zenon

LEMMA SendsInit ==
    ASSUME M!MediaAssumption, M!MediaSendAssumption, M!SendInit
    PROVE  SendsInv
<1> USE DEF M!SendInit, M!Init, M!V!Init, M!MediaAssumption, M!MediaSendAssumption
<1>1. M!TypeOK
  BY DEF M!TypeOK
<1>2. M!V!TypeOK
  <2>1. lines \in [Media -> 0..MaxDispatches] /\ accepted \in [Media -> Nat]
        /\ outcome \in [Media -> {"none", "ok", "failed"}]
    OBVIOUS
  <2>2. videoIn \in Seq(Media) /\ at \in 0..Len(videoIn)
    OBVIOUS
  <2>3. QED
    BY <2>1, <2>2 DEF M!V!TypeOK
<1>3. QueueInv /\ BodyInv /\ WorkInv
  BY DEF QueueInv, BodyInv, WorkInv
<1>4. CopiesPaid
  <2>1. M!V!Copies = {}
    <3>1. accepted \in [Media -> Nat] /\ \A j \in Media : accepted[j] = 0
      OBVIOUS
    <3>2. QED
      BY <3>1, CopyIs DEF M!V!Copies
  <2>2. AtRisk = {}
    BY DEF AtRisk
  <2>3. videoRestarts = 0
    OBVIOUS
  <2>4. QED
    BY <2>1, <2>2, <2>3, FS_EmptySet DEF CopiesPaid
<1>5. QED
  BY <1>1, <1>2, <1>3, <1>4 DEF SendsInv, PhoneInv, BridgeInv

(* These instances count as the module FiniteSets does, too.                 *)
LEMMA SendsCount ==
    /\ \A s : M!Cardinality(s) = Cardinality(s)
    /\ \A s : M!V!Cardinality(s) = Cardinality(s)
BY DEF M!Cardinality, M!V!Cardinality, Cardinality

LEMMA OneLineMore ==
    ASSUME NEW E, NEW s \in Seq(E), NEW x \in E
    PROVE  Append(s, x) \in Seq(E) /\ Len(Append(s, x)) = Len(s) + 1 /\ Len(s) \in Nat
OBVIOUS

(* What the upload of a body touches, it leaves well typed, and a body stays. *)
LEMMA UploadKeepsPhone ==
    ASSUME M!MediaAssumption, PhoneInv, NEW m \in Media,
           UNCHANGED <<sent, queue, sentMedia, doneLines, pos, size, contentOps, delivered,
                       errors, restarts>>,
           \/ uploads' = uploads
           \/ uploads' = [uploads EXCEPT ![m] = @ + 1] /\ uploads[m] < MaxUploads,
           \/ cdn' = cdn
           \/ \E to \in {"open", "written"} : cdn' = [cdn EXCEPT ![m] = to],
           \E is \in {"empty", "part", "whole"} : body' = [body EXCEPT ![m] = is],
           unheard' \subseteq Media
    PROVE  PhoneInv' /\ (\A k \in Media : body[k] # "none" => body'[k] # "none")
<1> USE DEF PhoneInv
<1>1. uploads' \in [Media -> 0..MaxUploads]
  <2>1. uploads \in [Media -> 0..MaxUploads] /\ MaxUploads \in Nat
    BY DEF M!TypeOK, M!MediaAssumption
  <2>2. QED
    BY <2>1
<1>2. cdn' \in [Media -> {"idle", "open", "written"}]
  BY DEF M!TypeOK
<1>3. body \in [Media -> {"none", "empty", "part", "whole"}]
  BY DEF M!TypeOK
<1>4. /\ body' \in [Media -> {"none", "empty", "part", "whole"}]
      /\ \A k \in Media : body[k] # "none" => body'[k] # "none"
  BY <1>3
<1>5. M!TypeOK'
  BY <1>1, <1>2, <1>4 DEF M!TypeOK
<1>6. QueueInv'
  BY DEF QueueInv
<1>7. QED
  BY <1>4, <1>5, <1>6

(* The phone's side: sendMessage, the upload, the drain, a restart.          *)
LEMMA PhoneSteps ==
    ASSUME M!MediaAssumption, PhoneInv,
           \/ \E m \in Media : M!SendMessage(m) \/ M!UploadOpen(m) \/ M!UploadWrite(m) \/ M!UploadDone(m)
           \/ M!Drain \/ M!Restart
    PROVE  PhoneInv' /\ (\A m \in Media : body[m] # "none" => body'[m] # "none")
<1> USE DEF M!MediaAssumption, PhoneInv, M!TypeOK, M!proxyVars, M!cdnVars, M!drainVars
<1>1. ASSUME NEW m \in Media, M!SendMessage(m)
      PROVE  PhoneInv' /\ body' = body
  <2>1. queue[m] = 0 /\ sent' = sent \cup {m}
        /\ queue' \in {queue, [queue EXCEPT ![m] = queue[m] + 1]} /\ body' = body
    BY <1>1 DEF M!SendMessage, QueueInv
  <2>2. M!TypeOK'
    <3>1. /\ sentMedia' = sentMedia \cup {m} /\ errors' \in Nat
          /\ UNCHANGED <<cdn, uploads, body, doneLines, pos, size, contentOps, delivered,
                         unheard, restarts>>
      BY <1>1 DEF M!SendMessage
    <3>2. queue' \in [Media -> Nat]
      <4>1. queue \in [Media -> Nat] /\ queue[m] + 1 \in Nat
        OBVIOUS
      <4>2. [queue EXCEPT ![m] = queue[m] + 1] \in [Media -> Nat]
        BY <4>1, Zenon
      <4>3. QED
        BY <2>1, <4>1, <4>2, Zenon
    <3>3. QED
      BY <2>1, <3>1, <3>2
  <2>3. QueueInv'
    BY <2>1 DEF QueueInv
  <2>4. QED
    BY <2>1, <2>2, <2>3
<1>2. ASSUME NEW m \in Media, M!UploadOpen(m)
      PROVE  PhoneInv' /\ (\A k \in Media : body[k] # "none" => body'[k] # "none")
  <2>1. UNCHANGED <<sent, queue, sentMedia, doneLines, pos, size, contentOps, delivered, errors,
                    restarts>>
    BY <1>2 DEF M!UploadOpen
  <2>2. /\ uploads' = [uploads EXCEPT ![m] = @ + 1] /\ uploads[m] < MaxUploads
        /\ cdn' = [cdn EXCEPT ![m] = "open"] /\ body' = [body EXCEPT ![m] = "empty"]
        /\ unheard' \subseteq Media
    BY <1>2 DEF M!UploadOpen
  <2>3. QED
    BY <2>1, <2>2, UploadKeepsPhone
<1>3. ASSUME NEW m \in Media, M!UploadWrite(m)
      PROVE  PhoneInv' /\ (\A k \in Media : body[k] # "none" => body'[k] # "none")
  <2>1. UNCHANGED <<sent, queue, sentMedia, uploads, doneLines, pos, size, contentOps, delivered,
                    unheard, errors, restarts>>
    BY <1>3 DEF M!UploadWrite
  <2>2. \/ body' = [body EXCEPT ![m] = "whole"] /\ cdn' = [cdn EXCEPT ![m] = "written"]
        \/ body' = [body EXCEPT ![m] = "part"] /\ cdn' = cdn
    BY <1>3 DEF M!UploadWrite
  <2>3. QED
    BY <2>1, <2>2, UploadKeepsPhone
<1>4. ASSUME NEW m \in Media, M!UploadDone(m)
      PROVE  PhoneInv' /\ body' = body
  <2>1. UNCHANGED <<sent, queue, sentMedia, uploads, body, pos, size, contentOps, delivered,
                    restarts>>
    BY <1>4 DEF M!UploadDone
  <2>2. /\ cdn' = [cdn EXCEPT ![m] = "idle"] /\ unheard' \subseteq Media
        /\ errors' = errors \/ errors' = errors + 1
    BY <1>4 DEF M!UploadDone, M!Fault
  <2>3. doneLines' \in Seq(Media) /\ Len(doneLines') >= Len(doneLines)
    <3>1. doneLines' = doneLines \/ doneLines' = Append(doneLines, m)
      BY <1>4, Zenon DEF M!UploadDone
    <3>2. doneLines \in Seq(Media)
      OBVIOUS
    <3>3. /\ Append(doneLines, m) \in Seq(Media)
          /\ Len(Append(doneLines, m)) >= Len(doneLines) /\ Len(doneLines) >= Len(doneLines)
      BY <3>2, OneLineMore
    <3>4. QED
      BY <3>1, <3>2, <3>3, Zenon
  <2>4. cdn' \in [Media -> {"idle", "open", "written"}] /\ errors' \in Nat
    BY <2>2
  <2>5. /\ doneLines' \in Seq(Media)
        /\ pos' \in 0..Len(doneLines') /\ size' \in 0..Len(doneLines')
    <3>1. Len(doneLines) \in Nat /\ Len(doneLines') \in Nat
      BY <2>3
    <3>2. QED
      BY <2>1, <2>3, <3>1
  <2>6. M!TypeOK'
    BY <2>1, <2>2, <2>4, <2>5
  <2>7. QueueInv'
    BY <2>1 DEF QueueInv
  <2>8. QED
    BY <2>1, <2>6, <2>7
<1>5. ASSUME M!DrainSize PROVE PhoneInv' /\ body' = body
  BY <1>5 DEF M!DrainSize, QueueInv
<1>6. ASSUME M!DrainLines PROVE PhoneInv' /\ body' = body
  <2>1. \A m \in Media : M!NewLines(m) \in Nat
    <3>1. ASSUME NEW m \in Media
          PROVE  IsFiniteSet({i \in (pos + 1)..Len(doneLines) : doneLines[i] = m})
      <4>1. IsFiniteSet((pos + 1)..Len(doneLines))
        BY FS_Interval
      <4>2. QED
        BY <4>1, FS_Subset
    <3>2. QED
      BY <3>1, FS_CardinalityType, SendsCount, Zenon DEF M!NewLines
  <2>2. PICK found : found = {m \in Media : M!NewLines(m) > 0 /\ M!Known(m)}
    OBVIOUS
  <2>3. PICK failing \in [Media -> 0..MaxUploads] :
            /\ \A m \in Media : failing[m] > 0 => failing[m] <= M!Lookups(m)
            /\ contentOps' = [m \in Media |-> IF m \in found
                                              THEN contentOps[m] + (M!NewLines(m) - failing[m])
                                              ELSE contentOps[m]]
            /\ queue' = [m \in Media |->
                            IF m \in found /\ M!Requeued(m) /\ failing[m] < M!Lookups(m)
                            THEN queue[m] + 1 ELSE queue[m]]
            /\ sentMedia' = sentMedia \ found
            /\ unheard' \subseteq Media
            /\ errors' = errors \/ errors' = errors + 1
    BY <1>6, <2>2 DEF M!DrainLines, M!Fault
  <2>4. /\ pos' = size /\ size' = 0
        /\ UNCHANGED <<sent, cdn, uploads, body, doneLines, delivered, restarts>>
    BY <1>6 DEF M!DrainLines, M!PosAfter
  <2>5. \A m \in Media : /\ queue'[m] \in Nat
                         /\ queue'[m] = queue[m] \/ (queue[m] = 0 /\ queue'[m] = 1 /\ m \in sent)
    BY <2>2, <2>3 DEF M!Known, M!Requeued
  <2>6. \A m \in Media : m \in found => M!NewLines(m) - failing[m] \in Nat
    <3>1. ASSUME NEW m \in Media, m \in found
          PROVE  M!NewLines(m) - failing[m] \in Nat
      <4>1. M!NewLines(m) \in Nat \ {0} /\ failing[m] \in Nat
        BY <2>1, <2>2, <3>1
      <4>2. failing[m] > 0 => failing[m] <= M!NewLines(m)
        BY <2>3, <4>1 DEF M!Lookups
      <4>3. QED
        BY <4>1, <4>2
    <3>2. QED
      BY <3>1
  <2>7. queue' \in [Media -> Nat] /\ contentOps' \in [Media -> Nat]
    BY <2>3, <2>5, <2>6
  <2>8. errors' \in Nat
    BY <2>3
  <2>9. M!TypeOK'
    <3>1. sentMedia' \subseteq sent' /\ sent' \subseteq Media
      BY <2>3, <2>4
    <3>2. /\ cdn' \in [Media -> {"idle", "open", "written"}]
          /\ uploads' \in [Media -> 0..MaxUploads]
          /\ body' \in [Media -> {"none", "empty", "part", "whole"}]
          /\ delivered' \in [Media -> SUBSET {"part", "whole"}]
          /\ restarts' \in Nat
      BY <2>4
    <3>3. /\ doneLines' \in Seq(Media)
          /\ pos' \in 0..Len(doneLines') /\ size' \in 0..Len(doneLines')
      BY <2>4
    <3>4. unheard' \subseteq Media
      BY <2>3
    <3>5. QED
      BY <2>7, <2>8, <3>1, <3>2, <3>3, <3>4
  <2>10. QueueInv'
    BY <2>3, <2>4, <2>5 DEF QueueInv
  <2>11. QED
    BY <2>4, <2>9, <2>10
<1>7. ASSUME M!Restart PROVE PhoneInv' /\ body' = body
  BY <1>7 DEF M!Restart, QueueInv
<1>8. QED
  BY <1>1, <1>2, <1>3, <1>4, <1>5, <1>6, <1>7 DEF M!Drain

(* A step that sends nothing and neither loses nor finishes work.            *)
LEMMA CopiesStay ==
    ASSUME CopiesPaid, UNCHANGED <<accepted, doneDisk, videoRestarts>>,
           (step = "send") <=> (step' = "send"), step # "send" => cur' = cur
    PROVE  CopiesPaid'
<1>1. AtRisk' = AtRisk
  BY DEF AtRisk
<1>2. M!V!Copies' = M!V!Copies
  BY DEF M!V!Copies
<1>3. QED
  BY <1>1, <1>2 DEF CopiesPaid

(* LINE accepts the video the worker sends: a first copy costs nothing, and  *)
(* one more was at risk.                                                     *)
LEMMA SendPaid ==
    ASSUME M!MediaSendAssumption, BridgeInv, M!V!SendVideo
    PROVE  CopiesPaid'
<1>1. /\ cur \in Media /\ step = "send" /\ step' = "record" /\ cur' = cur /\ cur \notin doneDisk
      /\ UNCHANGED <<doneDisk, videoRestarts>> /\ videoRestarts \in Nat
      /\ accepted \in [Media -> Nat]
  BY DEF M!V!SendVideo, BridgeInv, WorkInv, M!V!TypeOK
<1>2. accepted' = accepted \/ accepted' = [accepted EXCEPT ![cur] = accepted[cur] + 1]
  BY <1>1 DEF M!V!SendVideo
<1>3. IsFiniteSet(M!V!Copies) /\ IsFiniteSet(AtRisk)
      /\ Cardinality(M!V!Copies) + Cardinality(AtRisk) <= videoRestarts
      /\ Cardinality(M!V!Copies) \in Nat /\ Cardinality(AtRisk) \in Nat
  BY FS_CardinalityType DEF BridgeInv, CopiesPaid
<1>4. AtRisk' = AtRisk \ {cur}
  BY <1>1, <1>2 DEF AtRisk
<1>5. /\ IsFiniteSet(AtRisk')
      /\ Cardinality(AtRisk') = IF cur \in AtRisk THEN Cardinality(AtRisk) - 1 ELSE Cardinality(AtRisk)
  BY <1>3, <1>4, FS_RemoveElement
<1>6. CASE accepted' = accepted
  <2>1. M!V!Copies' = M!V!Copies
    BY <1>6 DEF M!V!Copies
  <2>2. QED
    BY <1>1, <1>3, <1>5, <2>1 DEF CopiesPaid
<1>7. CASE accepted' = [accepted EXCEPT ![cur] = accepted[cur] + 1]
  <2>1. /\ accepted' \in [Media -> Nat] /\ accepted'[cur] = accepted[cur] + 1
        /\ accepted[cur] \in Nat
        /\ \A j \in Media \ {cur} : accepted'[j] = accepted[j]
    BY <1>1, <1>7
  <2>2. /\ \A x : x \in M!V!Copies <=>
                    \E j \in Media, n \in Nat : x = <<j, n>> /\ 2 <= n /\ n <= accepted[j]
        /\ \A x : x \in M!V!Copies' <=>
                    \E j \in Media, n \in Nat : x = <<j, n>> /\ 2 <= n /\ n <= accepted'[j]
    BY <1>1, <2>1, CopyIs DEF M!V!Copies
  <2>3. CASE accepted[cur] = 0
    <3>1. M!V!Copies' = M!V!Copies
      <4>1. \A x : x \in M!V!Copies' <=> x \in M!V!Copies
        <5>1. ASSUME NEW j \in Media, NEW n \in Nat, 2 <= n
              PROVE  n <= accepted'[j] <=> n <= accepted[j]
          BY <1>1, <2>1, <2>3, <5>1
        <5>2. ASSUME NEW x
              PROVE  (\E j \in Media, n \in Nat : x = <<j, n>> /\ 2 <= n /\ n <= accepted'[j])
                 <=> (\E j \in Media, n \in Nat : x = <<j, n>> /\ 2 <= n /\ n <= accepted[j])
          BY <5>1
        <5>3. QED
          BY <2>2, <5>2
      <4>2. QED
        BY <4>1, Zenon
    <3>2. QED
      BY <1>1, <1>3, <1>5, <3>1 DEF CopiesPaid
  <2>4. CASE accepted[cur] > 0
    <3>1. cur \in AtRisk
      BY <1>1, <2>4 DEF AtRisk
    <3>2. M!V!Copies' = M!V!Copies \cup {<<cur, accepted[cur] + 1>>}
      <4>1. \A x : x \in M!V!Copies' <=> x \in M!V!Copies \/ x = <<cur, accepted[cur] + 1>>
        <5>1. ASSUME NEW j \in Media, NEW n \in Nat, 2 <= n
              PROVE  n <= accepted'[j] <=> n <= accepted[j]
                                           \/ (j = cur /\ n = accepted[cur] + 1)
          BY <1>1, <2>1, <2>4
        <5>2. accepted[cur] + 1 \in Nat /\ 2 <= accepted[cur] + 1
          BY <2>1, <2>4
        <5>3. ASSUME NEW x
              PROVE  x \in M!V!Copies' <=> x \in M!V!Copies \/ x = <<cur, accepted[cur] + 1>>
          <6>1. ASSUME x \in M!V!Copies'
                PROVE  x \in M!V!Copies \/ x = <<cur, accepted[cur] + 1>>
            <7>1. PICK j \in Media, n \in Nat : x = <<j, n>> /\ 2 <= n /\ n <= accepted'[j]
              BY <2>2, <6>1
            <7>2. n <= accepted[j] \/ (j = cur /\ n = accepted[cur] + 1)
              BY <5>1, <7>1, Zenon
            <7>3. QED
              BY <2>2, <7>1, <7>2, Zenon
          <6>2. ASSUME x \in M!V!Copies PROVE x \in M!V!Copies'
            <7>1. PICK j \in Media, n \in Nat : x = <<j, n>> /\ 2 <= n /\ n <= accepted[j]
              BY <2>2, <6>2
            <7>2. n <= accepted'[j]
              BY <5>1, <7>1, Zenon
            <7>3. QED
              BY <2>2, <7>1, <7>2, Zenon
          <6>3. ASSUME x = <<cur, accepted[cur] + 1>> PROVE x \in M!V!Copies'
            <7>1. accepted[cur] + 1 <= accepted'[cur]
              BY <1>1, <5>1, <5>2, Zenon
            <7>2. QED
              BY <1>1, <2>2, <5>2, <6>3, <7>1, Zenon
          <6>4. QED
            BY <6>1, <6>2, <6>3
        <5>4. QED
          BY <5>3, Zenon
      <4>2. QED
        BY <4>1, Zenon
    <3>3. IsFiniteSet(M!V!Copies') /\ Cardinality(M!V!Copies') <= Cardinality(M!V!Copies) + 1
          /\ Cardinality(M!V!Copies') \in Nat
      <4>1. /\ IsFiniteSet(M!V!Copies')
            /\ Cardinality(M!V!Copies') = IF <<cur, accepted[cur] + 1>> \in M!V!Copies
                                          THEN Cardinality(M!V!Copies)
                                          ELSE Cardinality(M!V!Copies) + 1
        BY <1>3, <3>2, FS_AddElement, Zenon
      <4>2. QED
        BY <1>3, <4>1
    <3>4. QED
      BY <1>1, <1>3, <1>5, <3>1, <3>3 DEF CopiesPaid
  <2>5. QED
    BY <2>1, <2>3, <2>4
<1>8. QED
  BY <1>2, <1>6, <1>7

(* A stop puts the one video at risk that the worker had sent.               *)
LEMMA StopPaid ==
    ASSUME BridgeInv, M!V!VideoStop
    PROVE  CopiesPaid'
<1>1. /\ videoRestarts' = videoRestarts + 1 /\ step' = "send" /\ videoRestarts \in Nat
      /\ UNCHANGED <<accepted, doneDisk>>
  BY DEF M!V!VideoStop, BridgeInv, M!V!TypeOK
<1>2. IsFiniteSet(M!V!Copies) /\ IsFiniteSet(AtRisk)
      /\ Cardinality(M!V!Copies) + Cardinality(AtRisk) <= videoRestarts
      /\ Cardinality(M!V!Copies) \in Nat /\ Cardinality(AtRisk) \in Nat
  BY FS_CardinalityType DEF BridgeInv, CopiesPaid
<1>3. AtRisk' \subseteq AtRisk \cup {cur}
  BY <1>1 DEF AtRisk
<1>4. IsFiniteSet(AtRisk \cup {cur}) /\ Cardinality(AtRisk \cup {cur}) \in Nat
      /\ Cardinality(AtRisk \cup {cur}) <= Cardinality(AtRisk) + 1
  BY <1>2, FS_AddElement
<1>5. IsFiniteSet(AtRisk') /\ Cardinality(AtRisk') <= Cardinality(AtRisk \cup {cur})
      /\ Cardinality(AtRisk') \in Nat
  BY <1>3, <1>4, FS_Subset, FS_CardinalityType
<1>6. M!V!Copies' = M!V!Copies
  BY <1>1 DEF M!V!Copies
<1>7. QED
  BY <1>1, <1>2, <1>4, <1>5, <1>6 DEF CopiesPaid

LEMMA BridgeSteps ==
    ASSUME M!MediaSendAssumption, BridgeInv,
           \/ \E m \in Media : M!V!Delegate(m)
           \/ M!V!Answer \/ M!V!GiveUp \/ M!V!BridgeRestart
           \/ M!V!NextLine \/ M!V!SendVideo \/ M!V!RecordVideo \/ M!V!MarkVideo
           \/ M!V!VideoStop \/ M!V!VideoStart
    PROVE  BridgeInv'
<1> USE DEF M!MediaSendAssumption, BridgeInv, M!V!TypeOK, M!V!bridgeVars, M!V!videoVars
<1>1. ASSUME NEW m \in Media, M!V!Delegate(m) PROVE BridgeInv'
  <2>1. M!V!TypeOK'
    <3>1. /\ lines' \in [Media -> 0..MaxDispatches] /\ videoIn' \in Seq(Media)
          /\ Len(videoIn') = Len(videoIn) + 1 /\ Len(videoIn) \in Nat
      BY <1>1 DEF M!V!Delegate
    <3>2. at' \in 0..Len(videoIn')
      BY <1>1, <3>1 DEF M!V!Delegate
    <3>3. QED
      BY <1>1, <3>1, <3>2 DEF M!V!Delegate
  <2>2. WorkInv'
    BY <1>1 DEF M!V!Delegate, WorkInv
  <2>3. CopiesPaid'
    BY <1>1, CopiesStay DEF M!V!Delegate
  <2>4. QED
    BY <2>1, <2>2, <2>3
<1>2. ASSUME M!V!Answer \/ M!V!GiveUp \/ M!V!BridgeRestart PROVE BridgeInv'
  <2>1. /\ lines' = lines /\ waitFor' = None /\ waitFor \in Media
        /\ answered' \subseteq answered \cup {waitFor} /\ bridgeRestarts' \in Nat
        /\ outcome' \in [Media -> {"none", "ok", "failed"}]
        /\ UNCHANGED <<videoIn, videoOut, videoUp, doneMem, doneDisk, at, cur, step, curOk,
                       accepted, videoRestarts>>
    <3>1. CASE M!V!Answer
      BY <3>1 DEF M!V!Answer
    <3>2. CASE M!V!GiveUp
      BY <3>2 DEF M!V!GiveUp
    <3>3. CASE M!V!BridgeRestart
      BY <3>3 DEF M!V!BridgeRestart
    <3>4. QED
      BY <1>2, <3>1, <3>2, <3>3
  <2>2. M!V!TypeOK'
    BY <2>1
  <2>3. WorkInv'
    BY <2>1 DEF WorkInv
  <2>4. CopiesPaid'
    BY <2>1, CopiesStay
  <2>5. QED
    BY <2>2, <2>3, <2>4
<1>3. ASSUME M!V!NextLine PROVE BridgeInv'
  <2>1. videoIn \in Seq(Media) /\ at \in 0..Len(videoIn) /\ Len(videoIn) \in Nat
    OBVIOUS
  <2>2. cur = None /\ step = "send" /\ videoUp
    BY <1>3 DEF M!V!NextLine, WorkInv
  <2>3. CASE at = Len(videoIn)
    <3>1. at' = 0 /\ UNCHANGED <<cur, step, lines, waitFor, answered, outcome, videoIn, videoOut, videoUp,
                                 doneMem, doneDisk, curOk, accepted, videoRestarts, bridgeRestarts>>
      BY <1>3, <2>3 DEF M!V!NextLine, M!V!StartAt
    <3>2. M!V!TypeOK' /\ WorkInv'
      BY <2>1, <3>1 DEF WorkInv
    <3>3. QED
      BY <3>1, <3>2, CopiesStay
  <2>4. CASE at # Len(videoIn)
    <3>1. videoIn[at + 1] \in Media /\ at + 1 \in 0..Len(videoIn)
      BY <2>1, <2>4
    <3>2. /\ at' = at + 1 /\ step' = "send"
          /\ cur' \in {None, videoIn[at + 1]} /\ (cur' # None => cur' \notin doneMem)
          /\ UNCHANGED <<lines, waitFor, answered, outcome, videoIn, videoOut, videoUp,
                         doneMem, doneDisk, curOk, accepted, videoRestarts, bridgeRestarts>>
      BY <1>3, <2>2, <2>4 DEF M!V!NextLine, M!V!Todo
    <3>3. M!V!TypeOK' /\ WorkInv'
      BY <2>1, <2>2, <3>1, <3>2 DEF WorkInv
    <3>4. QED
      BY <2>2, <3>2, <3>3, CopiesStay
  <2>5. QED
    BY <2>3, <2>4
<1>4. ASSUME M!V!SendVideo PROVE BridgeInv'
  <2>1. /\ cur \in Media /\ curOk' \in BOOLEAN /\ step' = "record"
        /\ accepted' = accepted \/ accepted' = [accepted EXCEPT ![cur] = accepted[cur] + 1]
        /\ UNCHANGED <<lines, waitFor, answered, outcome, videoIn, videoOut, videoUp, doneMem,
                       doneDisk, at, cur, videoRestarts, bridgeRestarts>>
    BY <1>4 DEF M!V!SendVideo
  <2>2. M!V!TypeOK'
    <3>1. accepted' \in [Media -> Nat]
      <4>1. accepted \in [Media -> Nat] /\ accepted[cur] + 1 \in Nat
        BY <2>1
      <4>2. [accepted EXCEPT ![cur] = accepted[cur] + 1] \in [Media -> Nat]
        BY <4>1, Zenon
      <4>3. QED
        BY <2>1, <4>1, <4>2, Zenon
    <3>2. QED
      BY <2>1, <3>1
  <2>3. WorkInv'
    BY <2>1 DEF WorkInv
  <2>4. QED
    BY <1>4, <2>2, <2>3, SendPaid
<1>5. ASSUME M!V!RecordVideo PROVE BridgeInv'
  <2>1. M!V!TypeOK' /\ WorkInv'
    BY <1>5 DEF M!V!RecordVideo, M!V!Result, WorkInv
  <2>2. QED
    BY <1>5, <2>1, CopiesStay DEF M!V!RecordVideo
<1>6. ASSUME M!V!MarkVideo PROVE BridgeInv'
  <2>1. M!V!TypeOK' /\ WorkInv'
    BY <1>6 DEF M!V!MarkVideo, WorkInv
  <2>2. AtRisk' = AtRisk /\ M!V!Copies' = M!V!Copies
    BY <1>6 DEF M!V!MarkVideo, AtRisk, M!V!Copies
  <2>3. QED
    BY <1>6, <2>1, <2>2 DEF M!V!MarkVideo, CopiesPaid
<1>7. ASSUME M!V!VideoStop PROVE BridgeInv'
  <2>1. M!V!TypeOK'
    <3>1. 0 \in 0..Len(videoIn)
      OBVIOUS
    <3>2. /\ videoUp' = FALSE /\ doneMem' = {} /\ at' = 0 /\ cur' = None /\ step' = "send"
          /\ curOk' = FALSE /\ videoRestarts' = videoRestarts + 1
          /\ UNCHANGED <<lines, waitFor, answered, outcome, videoIn, videoOut, doneDisk, accepted,
                         bridgeRestarts>>
      BY <1>7 DEF M!V!VideoStop, M!V!bridgeVars
    <3>3. /\ lines' \in [Media -> 0..MaxDispatches] /\ waitFor' \in Media \cup {None}
          /\ answered' \subseteq Media /\ outcome' \in [Media -> {"none", "ok", "failed"}]
          /\ videoIn' \in Seq(Media) /\ videoOut' \subseteq [job : Media, ok : BOOLEAN]
          /\ doneDisk' \subseteq Media /\ accepted' \in [Media -> Nat] /\ bridgeRestarts' \in Nat
      BY <3>2, Zenon
    <3>4. videoUp' \in BOOLEAN /\ curOk' \in BOOLEAN /\ at' \in 0..Len(videoIn')
      BY <3>1, <3>2, Zenon
    <3>5. doneMem' \subseteq doneDisk' /\ cur' \in Media \cup {None}
          /\ step' \in {"send", "record", "mark"} /\ videoRestarts' \in Nat
      BY <3>2
    <3>6. QED
      BY <3>3, <3>4, <3>5, Zenon
  <2>2. WorkInv'
    BY <1>7 DEF M!V!VideoStop, WorkInv
  <2>3. QED
    BY <1>7, <2>1, <2>2, StopPaid
<1>8. ASSUME M!V!VideoStart PROVE BridgeInv'
  <2>1. M!V!TypeOK' /\ WorkInv'
    BY <1>8 DEF M!V!VideoStart, M!V!StartAt, WorkInv
  <2>2. QED
    BY <1>8, <2>1, CopiesStay DEF M!V!VideoStart
<1>9. QED
  BY <1>1, <1>2, <1>3, <1>4, <1>5, <1>6, <1>7, <1>8

(* What the variables of one side do not change keeps its invariant.         *)
LEMMA PhoneKept ==
    ASSUME PhoneInv, UNCHANGED <<sent, queue, sentMedia, cdn, uploads, body, doneLines, pos, size,
                                 contentOps, unheard, errors, restarts>>,
           delivered' \in [Media -> SUBSET {"part", "whole"}]
    PROVE  PhoneInv'
BY DEF PhoneInv, M!TypeOK, QueueInv

LEMMA BridgeKept ==
    ASSUME BridgeInv, UNCHANGED M!bridgeSide
    PROVE  BridgeInv'
<1> USE DEF M!bridgeSide
<1>1. M!V!TypeOK' /\ WorkInv'
  BY DEF BridgeInv, M!V!TypeOK, WorkInv
<1>2. CopiesPaid'
  BY CopiesStay DEF BridgeInv
<1>3. QED
  BY <1>1, <1>2 DEF BridgeInv

LEMMA SendsStep ==
    ASSUME M!MediaAssumption, M!MediaSendAssumption, SendsInv, [M!SendNext]_(M!sendVars)
    PROVE  SendsInv'
<1> USE DEF SendsInv
<1>1. videoIn \in Seq(Media) /\ cur \in Media \cup {None} /\ None \notin Media
  BY DEF BridgeInv, M!V!TypeOK, M!MediaSendAssumption
<1>2. CASE UNCHANGED M!sendVars
  <2>1. UNCHANGED M!bridgeSide /\ UNCHANGED M!phoneSide
    BY <1>2 DEF M!sendVars
  <2>2. PhoneInv'
    BY <2>1 DEF M!phoneSide, M!vars, M!proxyVars, M!cdnVars, M!drainVars, PhoneInv, M!TypeOK, QueueInv
  <2>3. BodyInv'
    BY <2>1 DEF M!phoneSide, M!vars, M!cdnVars, M!bridgeSide, BodyInv
  <2>4. QED
    BY <2>1, <2>2, <2>3, BridgeKept
<1>3. CASE M!PhoneSide
  <2>1. /\ PhoneInv' /\ (\A m \in Media : body[m] # "none" => body'[m] # "none")
        /\ UNCHANGED M!bridgeSide
    BY <1>3, PhoneSteps DEF M!PhoneSide, M!BridgeStays
  <2>2. BodyInv'
    <3>1. videoIn' = videoIn /\ cur' = cur
      BY <2>1 DEF M!bridgeSide
    <3>2. \A i \in 1..Len(videoIn) : videoIn[i] \in Media
      BY <1>1
    <3>3. QED
      BY <1>1, <2>1, <3>1, <3>2 DEF BodyInv
  <2>3. QED
    BY <2>1, <2>2, BridgeKept
<1>4. CASE M!VideoSide
  <2>1. BridgeInv'
    BY <1>4, BridgeSteps DEF M!VideoSide
  <2>2. PhoneInv' /\ body' = body
    BY <1>4 DEF M!VideoSide, M!PhoneStays, M!phoneSide, M!vars, M!proxyVars, M!cdnVars, M!drainVars,
                PhoneInv, M!TypeOK, QueueInv
  <2>3. videoIn' = videoIn /\ (cur' = None \/ cur' = cur \/ (at < Len(videoIn) /\ cur' = videoIn[at + 1]))
    <3>1. at \in 0..Len(videoIn) /\ Len(videoIn) \in Nat
      BY <1>1 DEF BridgeInv, M!V!TypeOK
    <3>2. QED
      BY <1>4, <3>1 DEF M!VideoSide, M!V!Answer, M!V!GiveUp, M!V!BridgeRestart, M!V!NextLine, M!V!RecordVideo,
         M!V!MarkVideo, M!V!VideoStop, M!V!VideoStart, M!V!videoVars
  <2>4. BodyInv'
    <3>1. at \in Nat /\ Len(videoIn) \in Nat
      BY <1>1 DEF BridgeInv, M!V!TypeOK
    <3>2. QED
      BY <1>1, <2>2, <2>3, <3>1 DEF BodyInv
  <2>5. QED
    BY <2>1, <2>2, <2>4
<1>5. CASE M!SendBody
  <2>1. BridgeInv'
    BY <1>5, BridgeSteps DEF M!SendBody
  <2>2. /\ cur \in Media /\ body[cur] # "none"
        /\ UNCHANGED <<videoIn, cur, sent, queue, sentMedia, cdn, uploads, body, doneLines, pos, size,
                       contentOps, unheard, errors, restarts>>
    BY <1>1, <1>5 DEF M!SendBody, M!V!SendVideo, M!proxyVars, M!cdnVars, M!drainVars, M!V!bridgeVars, BodyInv
  <2>3. delivered' \in [Media -> SUBSET {"part", "whole"}]
    <3>1. delivered \in [Media -> SUBSET {"part", "whole"}]
          /\ body[cur] \in {"empty", "part", "whole"}
      BY <2>2 DEF PhoneInv, M!TypeOK
    <3>2. delivered' = delivered
          \/ (body[cur] # "empty" /\ delivered' = [delivered EXCEPT ![cur] = delivered[cur] \cup {body[cur]}])
      BY <1>5, <2>2, <3>1 DEF M!SendBody
    <3>3. QED
      BY <2>2, <3>1, <3>2
  <2>4. BodyInv'
    BY <2>2 DEF BodyInv
  <2>5. QED
    BY <2>1, <2>2, <2>3, <2>4, PhoneKept
<1>6. ASSUME NEW m \in Media, M!SendItself(m) PROVE SendsInv'
  <2>1. /\ body[m] \in {"part", "whole"} /\ delivered' = [delivered EXCEPT ![m] = {body[m]}]
        /\ UNCHANGED <<sent, queue, sentMedia, cdn, uploads, body, doneLines, pos, size,
                       contentOps, unheard, errors, restarts>>
        /\ UNCHANGED M!bridgeSide
    BY <1>6 DEF M!SendItself, M!BridgeSend, M!BridgeStays, M!proxyVars, M!cdnVars, M!drainVars
  <2>2. delivered' \in [Media -> SUBSET {"part", "whole"}]
    BY <2>1 DEF PhoneInv, M!TypeOK
  <2>3. BodyInv'
    BY <2>1 DEF BodyInv, M!bridgeSide
  <2>4. QED
    BY <2>1, <2>2, <2>3, PhoneKept, BridgeKept
<1>7. ASSUME NEW m \in Media, M!HandOver(m) PROVE SendsInv'
  <2>1. BridgeInv'
    BY <1>7, BridgeSteps DEF M!HandOver
  <2>2. PhoneInv' /\ body' = body
    BY <1>7 DEF M!HandOver, M!PhoneStays, M!phoneSide, M!vars, M!proxyVars, M!cdnVars, M!drainVars,
                PhoneInv, M!TypeOK, QueueInv
  <2>3. body[m] # "none" /\ videoIn' = Append(videoIn, m) /\ cur' = cur
    BY <1>7 DEF M!HandOver, M!V!Delegate, M!V!videoVars
  <2>4. BodyInv'
    BY <1>1, <2>2, <2>3 DEF BodyInv
  <2>5. QED
    BY <2>1, <2>2, <2>4
<1>8. QED
  BY <1>2, <1>3, <1>4, <1>5, <1>6, <1>7 DEF M!SendNext

LEMMA SendsTold ==
    ASSUME SendsInv
    PROVE  M!QueuedOnce /\ M!ExtraCopies
<1>1. M!QueuedOnce
  BY DEF SendsInv, PhoneInv, QueueInv, M!QueuedOnce
<1>2. M!ExtraCopies
  <2>1. /\ Cardinality(M!V!Copies) + Cardinality(AtRisk) <= videoRestarts
        /\ Cardinality(M!V!Copies) \in Nat /\ Cardinality(AtRisk) \in Nat /\ videoRestarts \in Nat
    BY FS_CardinalityType DEF SendsInv, BridgeInv, M!V!TypeOK, CopiesPaid
  <2>2. QED
    BY <2>1, SendsCount DEF M!ExtraCopies, M!V!ExtraCopies
<1>3. QED
  BY <1>1, <1>2

-----------------------------------------------------------------------------
(* All of them *)

(* A step is one of the component a behaviour is about.                      *)
LEMMA ContentSceneStep ==
    ASSUME [Next]_vars
    PROVE  /\ scene' = scene
           /\ scene = "posts"  => [P!Next]_(P!vars)
           /\ scene = "videos" => [V!Next]_(V!vars)
           /\ scene = "copies" => [S!Next]_(S!vars)
           /\ scene = "sends"  => [M!SendNext]_(M!sendVars)
<1>1. CASE Next
  BY <1>1 DEF Next
<1>2. CASE UNCHANGED vars
  <2>1. scene' = scene /\ UNCHANGED P!vars /\ UNCHANGED V!vars /\ UNCHANGED S!vars
    BY <1>2 DEF vars, postVars, videoVars, copyVars, P!vars, P!setting, P!noteVars, P!timeVars,
                P!lineVars, P!counters, V!vars, V!sources, V!history, V!counters, S!vars
  <2>2. UNCHANGED M!sendVars
    BY <1>2 DEF vars, sendVars, M!sendVars, M!phoneSide, M!bridgeSide, M!vars, M!proxyVars,
                M!cdnVars, M!drainVars
  <2>3. QED
    BY <2>1, <2>2
<1>3. QED
  BY <1>1, <1>2

(* The invariant of that component.                                          *)
ContentInv ==
    /\ scene = "posts"  => PostInv
    /\ scene = "videos" => VideoInv
    /\ scene = "copies" => SnapshotInv
    /\ scene = "sends"  => SendsInv

LEMMA ContentInit == Init => ContentInv
BY PostInit, VideoInit, SnapshotInit, SendsInit, ContentAssumption DEF Init, ContentInv

LEMMA ContentStep == ContentInv /\ [Next]_vars => ContentInv'
<1> SUFFICES ASSUME ContentInv, [Next]_vars PROVE ContentInv'
  OBVIOUS
<1>1. scene' = scene
  BY ContentSceneStep
<1>2. ASSUME scene = "posts" PROVE PostInv'
  BY <1>2, ContentSceneStep, PostsStep, ContentAssumption DEF ContentInv
<1>3. ASSUME scene = "videos" PROVE VideoInv'
  BY <1>3, ContentSceneStep, VideoStep, ContentAssumption DEF ContentInv
<1>4. ASSUME scene = "copies" PROVE SnapshotInv'
  BY <1>4, ContentSceneStep, SnapshotStep, ContentAssumption DEF ContentInv
<1>5. ASSUME scene = "sends" PROVE SendsInv'
  BY <1>5, ContentSceneStep, SendsStep, ContentAssumption DEF ContentInv
<1>6. QED
  BY <1>1, <1>2, <1>3, <1>4, <1>5 DEF ContentInv

LEMMA ContentAlways == Spec => []ContentInv
<1>1. Init => ContentInv
  BY ContentInit
<1>2. ContentInv /\ [Next]_vars => ContentInv'
  BY ContentStep
<1>3. QED
  BY <1>1, <1>2, PTL DEF Spec

(* What is shown from memory is as new as promised: a list of notes lacks    *)
(* only what was created within its five seconds, or answered while it was   *)
(* on its way, and a copy of a file holds what the file held at the look,     *)
(* outside the races named for that copy.                                    *)
THEOREM MemoryIsFresh == Spec => []LookupIsFresh
<1>1. ContentInv => LookupIsFresh
  BY PostsShown, ContentAssumption DEF ContentInv, SnapshotInv, LookupIsFresh
<1>2. QED
  BY <1>1, ContentAlways, PTL

(* What the phone was told was posted is at LINE with its picture, whole     *)
(* unless the phone sent the picture again meanwhile.                        *)
THEOREM SuccessIsStored == Spec => []ToldIsStored
<1>1. ContentInv => ToldIsStored
  BY PostsShown, ContentAssumption DEF ContentInv, ToldIsStored
<1>2. QED
  BY <1>1, ContentAlways, PTL

(* Threads that fill, serve and trim the cache of videos side by side play    *)
(* whole videos and leave a cache whose files and sidecars belong together.  *)
THEOREM VideosArePlayedWhole == Spec => []VideosSound
<1>1. ContentInv => VideosSound
  BY VideosTold, ContentAssumption DEF ContentInv, VideosSound
<1>2. QED
  BY <1>1, ContentAlways, PTL

(* A media message of the phone has one line in the queue, although the      *)
(* proxy may forget it in a restart and queue it again.                      *)
THEOREM OneLineQueued == Spec => []QueuedOnce
<1>1. ContentInv => QueuedOnce
  BY SendsTold DEF ContentInv, QueuedOnce
<1>2. QED
  BY <1>1, ContentAlways, PTL

(* LINE gets no more second copies of videos than the video worker was       *)
(* restarted, however often uploads repeat and lines are handed over again.  *)
THEOREM CopyCostsRestart == Spec => []ExtraCopies
<1>1. ContentInv => ExtraCopies
  BY SendsTold DEF ContentInv, ExtraCopies
<1>2. QED
  BY <1>1, ContentAlways, PTL

(* A request that begins after its post was answered with success creates it *)
(* again only ten minutes later or in the next bucket of ten minutes.        *)
THEOREM CreatedOnce == Spec => NoSecondCopy
<1>1. ContentInv /\ [Next]_vars => [NoSecondCopyStep]_vars
  BY NoSecondPost, ContentAssumption DEF ContentInv, NoSecondCopyStep
<1>2. QED
  BY <1>1, ContentAlways, PTL DEF Spec, NoSecondCopy
=============================================================================

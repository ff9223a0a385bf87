---------------------------- MODULE SnapshotCache ----------------------------
(***************************************************************************)
(* The copies legy_proxy.py and cdn_proxy.py keep in memory of files that  *)
(* other processes write: profile, contacts, contact states, the identity  *)
(* and the token of the bridge, pictures, pictures of the timeline, and    *)
(* the index of received media.  Every lookup compares the file's time of  *)
(* change with the one the copy was stamped with and loads the file when   *)
(* they differ.  Both programs are threaded and nothing of it is locked,   *)
(* and each copy loads, clears, fills and stamps in an order of its own.   *)
(*                                                                         *)
(* One behaviour is about one of them.  The files are replaced by a        *)
(* rename, the index reads one that grows by whole lines; only the token   *)
(* is emptied and written in place, and only its place can change          *)
(* (token_file of the identity).                                           *)
(***************************************************************************)
EXTENDS Naturals, Sequences, FiniteSets

CONSTANTS
    Threads,    \* the threads that look something up
    None,       \* no stamp
    MaxWrites, MaxLookups, MaxFaults   \* bounds

SnapshotCacheAssumption ==
    /\ None \notin Seq(Nat)
    /\ MaxWrites \in Nat /\ MaxLookups \in Nat /\ MaxFaults \in Nat

\* The steps of a load, in the order of the code.
LoadProfile       == <<"read", "clear", "fill", "stampNow">>
LoadContacts      == <<"read", "fill", "stampNow">>
LoadPictures      == <<"stampFirst", "clear", "read", "fill", "stampNow">>
TimelinePicture   == <<"read", "fill", "stamp">>
RealToken         == <<"read", "fill", "stamp">>
MediaRecord       == <<"read", "clear", "fill", "stamp">>
ContactStateSet   == <<"read", "both">>
BridgeIdentity    == <<"read", "both">>

Steps == [profile |-> LoadProfile, contacts |-> LoadContacts, pictures |-> LoadPictures,
          timeline |-> TimelinePicture, token |-> RealToken, index |-> MediaRecord,
          states |-> ContactStateSet, identity |-> BridgeIdentity]

VARIABLES
    copyOf,   \* which of the copies this is about
    source,   \* the file: how often it was written, its time, its place, is it empty?
    copy,     \* what is remembered: which writing (0: nothing), under which stamp
    look,     \* the lookup of each thread
    crossed,  \* was the file written during a lookup?
    loadsMet, \* was a lookup under way while another one loaded?
    emptied,  \* was the token read, or looked at, while it was empty?
    failed,   \* did a read fail?
    stale,    \* did a lookup show less than the file held when it looked?
    lookups, readFaults   \* counters

vars == <<copyOf, source, copy, look, crossed, loadsMet, emptied, failed, stale,
          lookups, readFaults>>
history == <<crossed, loadsMet, emptied, failed, stale>>

Content(f) == IF f.empty THEN 0 ELSE f.written
StampWithoutPlace(f) == <<f.time>>   \* Mutant: the time alone
Stamp(f) == IF copyOf = "token" THEN <<f.time, f.place>> ELSE <<f.time>>

Rest == [todo |-> <<>>, busy |-> FALSE, loads |-> FALSE, need |-> 0, stamp |-> None,
         place |-> 1, got |-> 0]

Init ==
    /\ copyOf \in DOMAIN Steps
    /\ source = [written |-> 1, time |-> 1, place |-> 1, empty |-> FALSE]
    /\ copy = [value |-> 0, stamp |-> None]
    /\ look = [t \in Threads |-> Rest]
    /\ crossed = FALSE /\ loadsMet = FALSE /\ emptied = FALSE /\ failed = FALSE /\ stale = FALSE
    /\ lookups = 0 /\ readFaults = 0

-----------------------------------------------------------------------------
(* The file *)

Changed(f) ==
    /\ source' = f
    /\ crossed' = (crossed \/ \E t \in Threads : look[t].busy)
    /\ UNCHANGED <<copyOf, copy, look, loadsMet, emptied, failed, stale, lookups, readFaults>>

\* Another file takes its name.
ReplaceFile ==
    /\ copyOf # "token" /\ source.written < MaxWrites
    /\ Changed([source EXCEPT !.written = @ + 1, !.time = @ + 1])

\* pump_token of local_worker.py opens the token for writing and writes it; the clock
\* of the file system may not have moved in between.
EmptyToken ==
    /\ copyOf = "token" /\ ~source.empty /\ source.written < MaxWrites
    /\ Changed([source EXCEPT !.empty = TRUE, !.time = @ + 1])
WriteToken ==
    /\ source.empty
    /\ \E later \in {0, 1} :
          Changed([source EXCEPT !.written = @ + 1, !.empty = FALSE, !.time = @ + later])

\* The identity names another file, which happens to have the same time.
OtherToken ==
    /\ copyOf = "token" /\ ~source.empty /\ source.written < MaxWrites
    /\ Changed([source EXCEPT !.written = @ + 1, !.place = @ + 1])

-----------------------------------------------------------------------------
(* A lookup *)

\* The file is looked at.
Look(t) ==
    LET miss == Stamp(source) # copy.stamp IN
    /\ ~look[t].busy /\ lookups < MaxLookups /\ lookups' = lookups + 1
    /\ look' = [look EXCEPT ![t] =
           [todo |-> IF miss THEN Steps[copyOf] ELSE <<>>, busy |-> TRUE, loads |-> miss,
            need |-> Content(source), stamp |-> Stamp(source), place |-> source.place,
            got |-> copy.value]]
    /\ loadsMet' = (loadsMet \/ \E u \in Threads : look[u].busy /\ (miss \/ look[u].loads))
    /\ emptied' = (emptied \/ source.empty)
    /\ UNCHANGED <<copyOf, source, copy, crossed, failed, stale, readFaults>>

\* The next step of a load.  The token is read from the place that was looked at.
Step(t) ==
    LET me == look[t]
        step == Head(me.todo) IN
    /\ me.todo # <<>>
    /\ look' = [look EXCEPT ![t].todo = Tail(@),
                            ![t].got = IF step # "read" THEN @
                                       ELSE IF me.place = source.place THEN Content(source)
                                       ELSE me.need]
    /\ copy' = CASE step = "clear"                  -> [copy EXCEPT !.value = 0]
                 [] step = "fill"                   -> [copy EXCEPT !.value = me.got]
                 [] step \in {"stampFirst", "stamp"} -> [copy EXCEPT !.stamp = me.stamp]
                 [] step = "stampNow"               -> [copy EXCEPT !.stamp = Stamp(source)]
                 [] step = "both"                   -> [value |-> me.got, stamp |-> me.stamp]
                 [] step = "read"                   -> copy
    /\ emptied' = (emptied \/ (step = "read" /\ source.empty))
    /\ UNCHANGED <<copyOf, source, crossed, loadsMet, failed, stale, lookups, readFaults>>

\* The file cannot be read.  Profile and contacts are shown empty until the next lookup;
\* contact states are remembered as an empty set of this file, pictures are marked as
\* loaded; the others keep what they had.
ReadFails(t) ==
    /\ look[t].todo # <<>> /\ Head(look[t].todo) = "read"
    /\ readFaults < MaxFaults /\ readFaults' = readFaults + 1
    /\ copy' = CASE copyOf \in {"profile", "contacts"} -> [copy EXCEPT !.value = 0]
                 [] copyOf = "states"                  -> [value |-> 0, stamp |-> look[t].stamp]
                 [] copyOf = "pictures"                -> [copy EXCEPT !.stamp = Stamp(source)]
                 [] OTHER                              -> copy
    /\ look' = [look EXCEPT ![t] = Rest]
    /\ failed' = TRUE
    /\ UNCHANGED <<copyOf, source, crossed, loadsMet, emptied, stale, lookups>>

\* The lookup uses the copy: contact_state_set the set it found or made, the others
\* what is remembered by now.
Shown(t) == IF copyOf = "states" THEN look[t].got ELSE copy.value
Use(t) ==
    /\ look[t].busy /\ look[t].todo = <<>>
    /\ stale' = (stale \/ Shown(t) < look[t].need)
    /\ look' = [look EXCEPT ![t] = Rest]
    /\ UNCHANGED <<copyOf, source, copy, crossed, loadsMet, emptied, failed, lookups, readFaults>>

Next ==
    \/ ReplaceFile \/ EmptyToken \/ WriteToken \/ OtherToken
    \/ \E t \in Threads : Look(t) \/ Step(t) \/ ReadFails(t) \/ Use(t)

Spec == Init /\ [][Next]_vars

-----------------------------------------------------------------------------
\* A lookup whose own read does not fail shows at least what the file held when it looked.
\* The exceptions, per copy: contact states and pictures stay empty after a failed read,
\* until the file is replaced; where the stamp is taken after reading, a file replaced
\* during a load is missed until the next time; where it is set first, or the copy is
\* emptied in place, a lookup beside a load sees an unfilled copy, and where a failed
\* load empties it, what another load just stamped stays empty; where value and stamp
\* are two steps, two loads across a replacement can leave the old value under the new
\* stamp; a token read while it was empty can stay empty.
Excused ==
    CASE copyOf = "states"                  -> failed
      [] copyOf = "contacts"                -> crossed \/ (failed /\ loadsMet)
      [] copyOf = "profile"                 -> crossed \/ loadsMet
      [] copyOf = "index"                   -> loadsMet
      [] copyOf = "pictures"                -> crossed \/ loadsMet \/ failed
      [] copyOf = "token"                   -> (crossed /\ loadsMet) \/ emptied
      [] OTHER                              -> crossed /\ loadsMet
LookupIsFresh == stale => Excused
=============================================================================

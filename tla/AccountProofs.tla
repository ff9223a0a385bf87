---------------------------- MODULE AccountProofs ----------------------------
(***************************************************************************)
(* Proofs about Account, one component after the other, and then for all   *)
(* of them together.                                                       *)
(***************************************************************************)
EXTENDS Account, Sequences, FiniteSets, TLAPS, WellFoundedInduction

-----------------------------------------------------------------------------
(* The status line *)

StatusPast    == {"read", "write", "record", "answer"}   \* LINE performed the update
StatusLocked  == {"update"} \cup StatusPast
Profile == [status : Statuses \cup {None}, picture : Nat]
StatusEntry   == [pc : {"idle", "waiting"} \cup StatusLocked, status : Statuses \cup {None},
                  at : Nat, read : Profile \cup {None}]

StatusRequests ==
    /\ request \in [Threads -> StatusEntry]
    /\ \A r \in Threads : /\ request[r].pc # "idle" => request[r].status \in Statuses
                          /\ request[r].pc = "write" => request[r].read \in Profile

StatusTypes ==
    /\ now \in Nat /\ StatusRequests
    /\ completed \subseteq [status : Statuses, at : Nat]
    /\ answered \subseteq [status : Statuses, at : Nat]
    /\ line \in Profile /\ profile \in Profile /\ fetched \in Profile \cup {None}
    /\ history \in Seq(Statuses)
    /\ sent \in [Statuses -> Nat] /\ told \subseteq Statuses
    /\ crossed \in BOOLEAN

(* Only the holder of the lock is past the wait for it.                     *)
StatusLockInv == \A r \in Threads : request[r].pc \in StatusLocked => lock = r

(* A living answer is remembered, and no request it would answer goes on.   *)
StatusRetry ==
    /\ \A a \in answered : S!Alive(a) => a \in completed
    /\ \A r \in Threads : request[r].pc = "update" =>
          \A a \in answered : S!Alive(a) => a.status # request[r].status

(* What is answered, or will be, was performed.                             *)
StatusSent ==
    /\ \A s \in told : sent[s] > 0
    /\ \A c \in completed : sent[c.status] > 0
    /\ \A r \in Threads : request[r].pc \in StatusPast => sent[request[r].status] > 0

(* LINE, the history and the profile agree but for the request under way;   *)
(* so does what a dump fetched, unless a merge crossed it.                  *)
Top(h) == IF h = <<>> THEN None ELSE Head(h)
HistoryInv == (\A r \in Threads : request[r].pc \notin {"read", "write", "record"})
                  => line.status = Top(history)
LineInv == \A r \in Threads : request[r].pc \in StatusPast => line.status = request[r].status
ProfileInv == ~crossed /\ (\A r \in Threads : request[r].pc \notin {"read", "write"})
                  => /\ profile.status = line.status
                     /\ fetched = None \/ fetched.status = line.status
StatusAgree == lost = {} => HistoryInv /\ LineInv /\ ProfileInv

StatusInv == StatusTypes /\ StatusLockInv /\ StatusRetry /\ StatusSent /\ StatusAgree

LEMMA StatusInit ==
    ASSUME S!StatusHomeAssumption, S!Init
    PROVE  StatusInv
<1>1. StatusTypes
  <2>1. StatusRequests
    BY DEF S!Init, StatusRequests, StatusEntry, S!Idle
  <2>2. line \in Profile /\ profile \in Profile
    BY DEF S!Init, Profile
  <2>3. crossed \in BOOLEAN
    BY DEF S!Init
  <2>4. QED
    BY <2>1, <2>2, <2>3 DEF S!Init, StatusTypes
<1>2. StatusLockInv /\ StatusRetry /\ StatusSent
  BY DEF S!Init, StatusLockInv, StatusRetry, StatusSent, S!Idle, StatusLocked, StatusPast
<1>3. StatusAgree
  BY DEF S!Init, StatusAgree, HistoryInv, LineInv, ProfileInv, Top, S!Idle, StatusPast
<1>4. QED
  BY <1>1, <1>2, <1>3 DEF StatusInv

(* One connection moves: what it is at becomes e.                           *)
LEMMA StatusOneMoves ==
    ASSUME StatusInv, NEW r \in Threads, NEW e \in StatusEntry,
           request' = [request EXCEPT ![r] = e],
           e.pc # "idle" => e.status \in Statuses,
           e.pc = "write" => e.read \in Profile,
           e.pc \in StatusLocked => lock' = r,
           \A q \in Threads \ {r} : request[q].pc \in StatusLocked => lock' = q
    PROVE  /\ request'[r] = e /\ \A q \in Threads \ {r} : request'[q] = request[q]
           /\ StatusRequests' /\ StatusLockInv'
<1>1. StatusRequests
  BY DEF StatusInv, StatusTypes
<1>2. request'[r] = e /\ \A q \in Threads \ {r} : request'[q] = request[q]
  BY <1>1 DEF StatusRequests
<1>3. StatusRequests'
  BY <1>1, <1>2 DEF StatusRequests
<1>4. StatusLockInv'
  BY <1>2 DEF StatusLockInv
<1>5. QED
  BY <1>2, <1>3, <1>4

(* The one that holds the lock is the only one past the wait for it.        *)
LEMMA StatusAlone ==
    ASSUME StatusInv, NEW r \in Threads, request[r].pc \in StatusLocked
    PROVE  /\ \A q \in Threads \ {r} : request[q].pc \notin StatusLocked
           /\ lock = r /\ S!Status(r) \in Statuses /\ request[r] \in StatusEntry
<1>1. S!Status(r) \in Statuses /\ request[r] \in StatusEntry
  BY DEF StatusInv, StatusTypes, StatusRequests, S!Status, StatusLocked, StatusPast
<1>2. QED
  BY <1>1 DEF StatusInv, StatusLockInv

(* The holder of the lock goes to its next step, or is done.                *)
LEMMA StatusGoesOn ==
    ASSUME StatusInv, NEW r \in Threads, NEW to \in StatusLocked, to # "write", S!Goes(r, to),
           request[r].pc \in StatusLocked, UNCHANGED lock
    PROVE  /\ request'[r].pc = to /\ request'[r].status = request[r].status
           /\ \A q \in Threads \ {r} : request'[q] = request[q] /\ request[q].pc \notin StatusLocked
           /\ StatusRequests' /\ StatusLockInv'
<1> DEFINE e == [request[r] EXCEPT !.pc = to]
<1>1. /\ lock = r /\ S!Status(r) \in Statuses /\ request[r] \in StatusEntry
      /\ \A q \in Threads \ {r} : request[q].pc \notin StatusLocked
  BY StatusAlone
<1>2. e \in StatusEntry /\ e.pc = to /\ e.status = request[r].status
  BY <1>1 DEF StatusEntry
<1>3. request' = [request EXCEPT ![r] = e]
  BY DEF S!Goes
<1> HIDE DEF e
<1>4. QED
  BY <1>1, <1>2, <1>3, StatusOneMoves DEF S!Status

LEMMA StatusEndsHere ==
    ASSUME StatusInv, NEW r \in Threads, request[r].pc \in StatusLocked,
           request' = [request EXCEPT ![r] = S!Idle]
    PROVE  /\ request'[r] = S!Idle /\ S!Idle.pc = "idle"
           /\ \A q \in Threads \ {r} : request'[q] = request[q] /\ request[q].pc \notin StatusLocked
           /\ StatusRequests' /\ StatusLockInv'
<1>1. S!Idle \in StatusEntry /\ S!Idle.pc = "idle" /\ S!Idle.pc \notin StatusLocked
  BY DEF S!Idle, StatusEntry, StatusLocked, StatusPast
<1>2. QED
  BY <1>1, StatusAlone, StatusOneMoves

(* Time passes, and LINE changes what is no status.                         *)
LEMMA StatusTick ==
    ASSUME S!StatusHomeAssumption, StatusInv, S!Tick \/ S!NewPicture
    PROVE  StatusInv'
<1>1. /\ UNCHANGED <<request, lock, completed, answered, profile, history, fetched, sent, told,
                     lost, crossed>>
      /\ now' \in Nat /\ now' >= now /\ now \in Nat
  BY DEF S!Tick, S!NewPicture, S!memory, S!files, StatusInv, StatusTypes
<1>2. line' \in Profile /\ line'.status = line.status
  BY DEF S!Tick, S!NewPicture, StatusInv, StatusTypes, Profile
<1>3. StatusTypes' /\ StatusLockInv' /\ StatusSent'
  BY <1>1, <1>2 DEF StatusInv, StatusTypes, StatusRequests, StatusLockInv, StatusSent
<1>4. \A a \in answered : S!Alive(a)' => S!Alive(a)
  <2>1. \A a \in answered : a.at \in Nat
    BY DEF StatusInv, StatusTypes
  <2>2. ASSUME NEW a \in answered, now' < a.at + Life PROVE now < a.at + Life
    <3>1. CASE S!Tick
      BY <1>1, <2>1, <2>2, <3>1 DEF S!Tick, S!StatusHomeAssumption
    <3>2. CASE S!NewPicture
      BY <2>2, <3>2 DEF S!NewPicture
    <3>3. QED
      BY <3>1, <3>2
  <2>3. QED
    BY <2>2 DEF S!Alive
<1>5. StatusRetry'
  BY <1>1, <1>4 DEF StatusInv, StatusRetry
<1>6. StatusAgree'
  BY <1>1, <1>2 DEF StatusInv, StatusAgree, HistoryInv, LineInv, ProfileInv
<1>7. QED
  BY <1>3, <1>5, <1>6 DEF StatusInv

(* A dump fetches the profile and replaces profile.json with it.            *)
LEMMA StatusDump ==
    ASSUME StatusInv, S!FetchProfile \/ S!DumpProfile
    PROVE  StatusInv'
<1>1. /\ UNCHANGED <<now, request, lock, completed, answered, line, history, sent, told, lost>>
      /\ crossed \in BOOLEAN /\ crossed' \in BOOLEAN /\ (crossed => crossed')
  <2>1. crossed \in BOOLEAN
    BY DEF StatusInv, StatusTypes
  <2>2. CASE S!FetchProfile
    BY <2>1, <2>2 DEF S!FetchProfile, S!memory, S!files
  <2>3. CASE S!DumpProfile
    BY <2>1, <2>3 DEF S!DumpProfile, S!memory, S!Merging
  <2>4. QED
    BY <2>2, <2>3
<1>2. /\ profile' \in Profile /\ fetched' \in Profile \cup {None}
      /\ \/ profile' = profile /\ fetched' = line
         \/ profile' = fetched /\ fetched' = None /\ fetched # None
  BY DEF S!FetchProfile, S!DumpProfile, S!files, StatusInv, StatusTypes
<1>3. StatusTypes' /\ StatusLockInv' /\ StatusSent'
  BY <1>1, <1>2 DEF StatusInv, StatusTypes, StatusRequests, StatusLockInv, StatusSent
<1>4. StatusRetry'
  BY <1>1 DEF StatusInv, StatusRetry, S!Alive
<1>5. StatusAgree'
  BY <1>1, <1>2 DEF StatusInv, StatusAgree, HistoryInv, LineInv, ProfileInv
<1>6. QED
  BY <1>3, <1>4, <1>5 DEF StatusInv

(* The proxy starts anew: what was cut short after LINE performed it counts *)
(* as lost.                                                                 *)
LEMMA StatusRestart ==
    ASSUME StatusInv, S!Restart
    PROVE  StatusInv'
<1>1. /\ request' = [r \in Threads |-> S!Idle] /\ completed' = {} /\ answered' = {}
      /\ lost' = lost \cup {S!Status(r) : r \in {q \in Threads : lock = q /\ ~S!At(q, "update")}}
      /\ UNCHANGED <<now, line, profile, history, fetched, sent, told, crossed>>
  BY DEF S!Restart, S!files
<1>2. S!Idle \in StatusEntry /\ S!Idle.pc = "idle"
  BY DEF S!Idle, StatusEntry
<1>3. StatusTypes'
  BY <1>1, <1>2 DEF StatusInv, StatusTypes, StatusRequests
<1>4. StatusLockInv' /\ StatusRetry' /\ StatusSent'
  BY <1>1, <1>2 DEF StatusInv, StatusLockInv, StatusRetry, StatusSent, StatusLocked, StatusPast
<1>5. StatusAgree'
  <2> SUFFICES ASSUME lost' = {} PROVE HistoryInv' /\ LineInv' /\ ProfileInv'
    BY DEF StatusAgree
  <2>1. lost = {} /\ \A r \in Threads : request[r].pc \notin StatusPast
    <3>1. ASSUME NEW r \in Threads, request[r].pc \in StatusPast PROVE S!Status(r) \in lost'
      BY <1>1, <3>1 DEF StatusInv, StatusLockInv, StatusLocked, StatusPast, S!At
    <3>2. QED
      BY <1>1, <3>1
  <2>2. /\ line.status = Top(history)
        /\ ~crossed => /\ profile.status = line.status
                       /\ fetched = None \/ fetched.status = line.status
    BY <2>1 DEF StatusInv, StatusAgree, HistoryInv, ProfileInv, StatusPast
  <2>3. QED
    <3>1. HistoryInv' /\ LineInv'
      BY <1>1, <1>2, <2>2 DEF HistoryInv, LineInv, StatusPast
    <3>2. ProfileInv'
      BY <1>1, <2>2 DEF ProfileInv
    <3>3. QED
      BY <3>1, <3>2
<1>6. QED
  BY <1>3, <1>4, <1>5 DEF StatusInv

(* The phone asks, and the request gets its turn.                           *)
LEMMA StatusAskStep ==
    ASSUME StatusInv, NEW r \in Threads, NEW s \in Statuses, S!Ask(r, s)
    PROVE  StatusInv'
<1> DEFINE e == [S!Idle EXCEPT !.pc = "waiting", !.status = s]
<1>1. /\ e \in StatusEntry /\ e.pc = "waiting" /\ e.status = s /\ "waiting" \notin StatusLocked
  BY DEF S!Idle, StatusEntry, StatusLocked, StatusPast
<1>2. /\ request' = [request EXCEPT ![r] = e] /\ request[r].pc = "idle"
      /\ UNCHANGED <<now, lock, completed, answered, line, profile, history, fetched, sent, told,
                     lost, crossed>>
  BY DEF S!Ask, S!At, S!memory, S!files
<1>3. \A q \in Threads \ {r} : request[q].pc \in StatusLocked => lock' = q
  BY <1>2 DEF StatusInv, StatusLockInv
<1> HIDE DEF e
<1>4. /\ request'[r] = e /\ \A q \in Threads \ {r} : request'[q] = request[q]
      /\ StatusRequests' /\ StatusLockInv'
  BY <1>1, <1>2, <1>3, StatusOneMoves
<1>5. StatusTypes'
  BY <1>2, <1>4 DEF StatusInv, StatusTypes
<1>6. StatusRetry' /\ StatusSent'
  BY <1>1, <1>2, <1>4 DEF StatusInv, StatusRetry, StatusSent, S!Alive, StatusPast
<1>7. StatusAgree'
  BY <1>1, <1>2, <1>4 DEF StatusInv, StatusAgree, HistoryInv, LineInv, ProfileInv, StatusPast
<1>8. QED
  BY <1>4, <1>5, <1>6, <1>7 DEF StatusInv

LEMMA StatusEnterStep ==
    ASSUME S!StatusHomeAssumption, StatusInv, NEW r \in Threads, S!Enter(r)
    PROVE  StatusInv'
<1>1. /\ request[r].pc = "waiting" /\ lock = None
      /\ completed' = {c \in completed : S!Alive(c)}
      /\ UNCHANGED <<now, answered, line, profile, history, fetched, sent, lost, crossed>>
  BY DEF S!Enter, S!At, S!files
<1>2. /\ S!Status(r) \in Statuses /\ request[r] \in StatusEntry
      /\ \A q \in Threads : request[q].pc \notin StatusLocked
  BY <1>1 DEF StatusInv, StatusTypes, StatusRequests, StatusLockInv, S!Status,
              S!StatusHomeAssumption
<1>3. PICK e \in StatusEntry : /\ request' = [request EXCEPT ![r] = e]
                               /\ e.pc \in {"idle", "update"}
                               /\ e.pc = "update" => /\ e.status = S!Status(r) /\ lock' = r
                                                     /\ ~S!Remembered(S!Status(r))
                               /\ e.pc = "idle" => S!Remembered(S!Status(r))
                               /\ told' = IF e.pc = "idle" THEN told \cup {S!Status(r)} ELSE told
  <2>1. CASE S!Remembered(S!Status(r))
    <3>1. S!Idle \in StatusEntry /\ S!Idle.pc = "idle"
      BY DEF S!Idle, StatusEntry
    <3>2. request' = [request EXCEPT ![r] = S!Idle] /\ told' = told \cup {S!Status(r)}
      BY <2>1 DEF S!Enter
    <3>3. QED
      BY <2>1, <3>1, <3>2
  <2>2. CASE ~S!Remembered(S!Status(r))
    <3> DEFINE e == [request[r] EXCEPT !.pc = "update", !.at = now]
    <3>1. e \in StatusEntry /\ e.pc = "update" /\ e.status = S!Status(r)
      BY <1>2 DEF StatusEntry, StatusLocked, StatusInv, StatusTypes, S!Status
    <3>2. request' = [request EXCEPT ![r] = e] /\ lock' = r /\ told' = told
      BY <2>2 DEF S!Enter
    <3> HIDE DEF e
    <3>3. QED
      BY <2>2, <3>1, <3>2
  <2>3. QED
    BY <2>1, <2>2
<1>4. /\ request'[r] = e /\ \A q \in Threads \ {r} : request'[q] = request[q]
      /\ StatusRequests' /\ StatusLockInv'
  BY <1>2, <1>3, StatusOneMoves DEF StatusLocked, StatusPast
<1>5. \A a \in answered : S!Alive(a)' <=> S!Alive(a)
  BY <1>1 DEF S!Alive
<1>6. StatusTypes'
  BY <1>1, <1>2, <1>3, <1>4 DEF StatusInv, StatusTypes
<1>7. StatusRetry'
  <2>1. \A a \in answered : S!Alive(a) => a \in completed'
    BY <1>1 DEF StatusInv, StatusRetry
  <2>2. \A q \in Threads : request'[q].pc = "update" =>
           q = r /\ request'[q].status = S!Status(r) /\ ~S!Remembered(S!Status(r))
    BY <1>2, <1>3, <1>4 DEF StatusLocked
  <2>3. ~S!Remembered(S!Status(r)) => \A a \in answered : S!Alive(a) => a.status # S!Status(r)
    BY DEF S!Remembered, StatusInv, StatusRetry
  <2>4. QED
    BY <1>1, <1>5, <2>1, <2>2, <2>3 DEF StatusRetry
<1>8. StatusSent'
  <2>1. S!Remembered(S!Status(r)) => sent[S!Status(r)] > 0
    BY DEF S!Remembered, StatusInv, StatusSent
  <2>2. \A q \in Threads : request'[q].pc \notin StatusPast
    BY <1>2, <1>3, <1>4 DEF StatusLocked, StatusPast
  <2>3. QED
    BY <1>1, <1>3, <2>1, <2>2 DEF StatusInv, StatusSent
<1>9. StatusAgree'
  <2>1. \A q \in Threads : request'[q].pc \notin StatusPast /\ request[q].pc \notin StatusPast
    BY <1>2, <1>3, <1>4 DEF StatusLocked, StatusPast
  <2>2. QED
    BY <1>1, <2>1 DEF StatusInv, StatusAgree, HistoryInv, LineInv, ProfileInv, StatusPast
<1>10. QED
  BY <1>4, <1>6, <1>7, <1>8, <1>9 DEF StatusInv

(* LINE performs the update.                                                *)
LEMMA StatusUpdate ==
    ASSUME StatusInv, NEW r \in Threads, S!Update(r)
    PROVE  StatusInv'
<1>1. /\ request[r].pc = "update" /\ request[r].pc \in StatusLocked /\ S!Goes(r, "read")
      /\ "read" \in StatusLocked /\ UNCHANGED lock /\ S!Performed(S!Status(r))
      /\ UNCHANGED <<now, completed, answered, profile, history, fetched, told, crossed>>
  BY DEF S!Update, S!At, S!memory, S!files, StatusLocked, StatusPast
<1>2. /\ request'[r].pc = "read" /\ request'[r].status = request[r].status
      /\ \A q \in Threads \ {r} : request'[q] = request[q] /\ request[q].pc \notin StatusLocked
      /\ StatusRequests' /\ StatusLockInv'
  BY <1>1, StatusGoesOn
<1>3. S!Status(r) \in Statuses
  BY <1>1, StatusAlone
<1>4. /\ line' \in Profile /\ line'.status = S!Status(r)
      /\ sent' \in [Statuses -> Nat] /\ sent'[S!Status(r)] > 0
      /\ \A s \in Statuses : sent[s] > 0 => sent'[s] > 0
  <2>1. line' \in Profile /\ line'.status = S!Status(r)
    BY <1>1, <1>3 DEF S!Performed, StatusInv, StatusTypes, Profile
  <2>2. sent \in [Statuses -> Nat] /\ sent' = [sent EXCEPT ![S!Status(r)] = @ + 1]
    BY <1>1 DEF S!Performed, StatusInv, StatusTypes
  <2>3. QED
    BY <1>3, <2>1, <2>2
<1>5. StatusTypes'
  BY <1>1, <1>2, <1>4 DEF StatusInv, StatusTypes
<1>6. StatusRetry'
  <2>1. \A q \in Threads : request'[q].pc # "update"
    BY <1>2 DEF StatusLocked
  <2>2. QED
    BY <1>1, <2>1 DEF StatusInv, StatusRetry, S!Alive
<1>7. StatusSent'
  <2>1. \A q \in Threads : request'[q].pc \in StatusPast => q = r
    BY <1>2 DEF StatusLocked
  <2>2. \A s \in told : sent'[s] > 0
    BY <1>4 DEF StatusInv, StatusTypes, StatusSent
  <2>3. \A c \in completed : sent'[c.status] > 0
    BY <1>4 DEF StatusInv, StatusTypes, StatusSent
  <2>4. QED
    BY <1>1, <1>2, <1>4, <2>1, <2>2, <2>3 DEF StatusSent, S!Status
<1>8. StatusAgree'
  <2>1. \A q \in Threads : request'[q].pc \in StatusPast => q = r
    BY <1>2 DEF StatusLocked
  <2>2. LineInv'
    BY <1>2, <1>4, <2>1 DEF LineInv, S!Status
  <2>3. HistoryInv' /\ ProfileInv'
    BY <1>2 DEF HistoryInv, ProfileInv
  <2>4. QED
    BY <2>2, <2>3 DEF StatusAgree
<1>9. QED
  BY <1>2, <1>5, <1>6, <1>7, <1>8 DEF StatusInv

(* Something fails: the request is over, and what LINE did is not undone.   *)
LEMMA StatusFails ==
    ASSUME StatusInv, NEW r \in Threads, S!UpdateFails(r) \/ S!DiskFails(r)
    PROVE  StatusInv'
<1>1. /\ request[r].pc \in StatusLocked /\ request' = [request EXCEPT ![r] = S!Idle]
      /\ UNCHANGED <<now, completed, answered, profile, history, fetched, told, crossed>>
  BY DEF S!UpdateFails, S!DiskFails, S!Fails, S!At, S!files, StatusLocked, StatusPast
<1>2. /\ request'[r] = S!Idle /\ S!Idle.pc = "idle"
      /\ \A q \in Threads \ {r} : request'[q] = request[q] /\ request[q].pc \notin StatusLocked
      /\ StatusRequests' /\ StatusLockInv'
  BY <1>1, StatusEndsHere
<1>3. S!Status(r) \in Statuses
  BY <1>1, StatusAlone
<1>4. /\ line' \in Profile /\ sent' \in [Statuses -> Nat]
      /\ \A s \in Statuses : sent[s] > 0 => sent'[s] > 0
      /\ lost' = {} => request[r].pc = "update" /\ UNCHANGED <<line, lost>>
  <2>1. CASE UNCHANGED <<line, sent>>
    BY <2>1 DEF S!UpdateFails, S!DiskFails, S!At, StatusInv, StatusTypes
  <2>2. CASE S!Performed(S!Status(r)) /\ lost' = lost \cup {S!Status(r)}
    BY <1>3, <2>2 DEF S!Performed, StatusInv, StatusTypes, Profile
  <2>3. QED
    BY <2>1, <2>2 DEF S!UpdateFails, S!DiskFails
<1>5. StatusTypes'
  BY <1>1, <1>2, <1>4 DEF StatusInv, StatusTypes
<1>6. \A q \in Threads : request'[q].pc \notin StatusLocked
  BY <1>2 DEF StatusLocked, StatusPast
<1>7. StatusRetry' /\ StatusSent'
  <2>1. StatusRetry'
    BY <1>1, <1>6 DEF StatusInv, StatusRetry, S!Alive, StatusLocked
  <2>2. \A s \in told : sent'[s] > 0
    BY <1>4 DEF StatusInv, StatusTypes, StatusSent
  <2>3. \A c \in completed : sent'[c.status] > 0
    BY <1>4 DEF StatusInv, StatusTypes, StatusSent
  <2>4. QED
    BY <1>1, <1>6, <2>1, <2>2, <2>3 DEF StatusSent, StatusLocked
<1>8. StatusAgree'
  <2> SUFFICES ASSUME lost' = {} PROVE HistoryInv' /\ LineInv' /\ ProfileInv'
    BY DEF StatusAgree
  <2>1. lost = {} /\ line' = line /\ \A q \in Threads : request[q].pc \notin StatusPast
    BY <1>2, <1>4 DEF StatusLocked, StatusPast
  <2>2. QED
    BY <1>1, <1>6, <2>1 DEF StatusInv, StatusAgree, HistoryInv, LineInv, ProfileInv,
                            StatusLocked, StatusPast
<1>9. QED
  BY <1>2, <1>5, <1>7, <1>8 DEF StatusInv

(* profile.json is read, and replaced with the status merged in.            *)
LEMMA StatusReadStep ==
    ASSUME StatusInv, NEW r \in Threads, S!ReadProfile(r)
    PROVE  StatusInv'
<1> DEFINE e == [request[r] EXCEPT !.pc = "write", !.read = profile]
<1>1. /\ request[r].pc = "read" /\ request[r].pc \in StatusLocked
      /\ request' = [request EXCEPT ![r] = e]
      /\ UNCHANGED <<now, lock, completed, answered, line, profile, history, fetched, sent, told,
                     lost, crossed>>
  BY DEF S!ReadProfile, S!At, S!memory, S!files, StatusLocked, StatusPast
<1>2. /\ lock = r /\ S!Status(r) \in Statuses /\ request[r] \in StatusEntry
      /\ \A q \in Threads \ {r} : request[q].pc \notin StatusLocked
  BY <1>1, StatusAlone
<1>3. profile \in Profile
  BY DEF StatusInv, StatusTypes
<1>4. e \in StatusEntry /\ e.pc = "write" /\ e.read = profile /\ e.status = request[r].status
  BY <1>2, <1>3 DEF StatusEntry, StatusLocked, StatusPast
<1> HIDE DEF e
<1>5. /\ request'[r] = e /\ \A q \in Threads \ {r} : request'[q] = request[q]
      /\ StatusRequests' /\ StatusLockInv'
  BY <1>1, <1>2, <1>3, <1>4, StatusOneMoves DEF S!Status
<1>6. StatusTypes'
  BY <1>1, <1>5 DEF StatusInv, StatusTypes
<1>7. StatusRetry' /\ StatusSent'
  BY <1>1, <1>4, <1>5 DEF StatusInv, StatusRetry, StatusSent, S!Alive, StatusPast
<1>8. StatusAgree'
  BY <1>1, <1>4, <1>5 DEF StatusInv, StatusAgree, HistoryInv, LineInv, ProfileInv, StatusPast
<1>9. QED
  BY <1>5, <1>6, <1>7, <1>8 DEF StatusInv

LEMMA StatusWrite ==
    ASSUME StatusInv, NEW r \in Threads, S!WriteProfile(r)
    PROVE  StatusInv'
<1>1. /\ request[r].pc = "write" /\ request[r].pc \in StatusLocked /\ S!Goes(r, "record")
      /\ "record" \in StatusLocked
      /\ UNCHANGED <<now, lock, completed, answered, line, history, fetched, sent, told, lost>>
  BY DEF S!WriteProfile, S!At, S!memory, StatusLocked, StatusPast
<1>2. /\ request'[r].pc = "record" /\ request'[r].status = request[r].status
      /\ \A q \in Threads \ {r} : request'[q] = request[q] /\ request[q].pc \notin StatusLocked
      /\ StatusRequests' /\ StatusLockInv'
  BY <1>1, StatusGoesOn
<1>3. request[r].read \in Profile /\ S!Status(r) \in Statuses
  BY <1>1, StatusAlone DEF StatusInv, StatusTypes, StatusRequests
<1>4. /\ profile' \in Profile /\ profile'.status = S!Status(r)
      /\ crossed' \in BOOLEAN /\ (fetched # None => crossed')
  <2>1. profile' \in Profile /\ profile'.status = S!Status(r)
    BY <1>3 DEF S!WriteProfile, Profile
  <2>2. crossed' \in BOOLEAN /\ (fetched # None => crossed')
    BY DEF S!WriteProfile, StatusInv, StatusTypes
  <2>3. QED
    BY <2>1, <2>2
<1>5. StatusTypes'
  BY <1>1, <1>2, <1>4 DEF StatusInv, StatusTypes
<1>6. StatusRetry' /\ StatusSent'
  BY <1>1, <1>2 DEF StatusInv, StatusRetry, StatusSent, S!Alive, StatusPast
<1>7. StatusAgree'
  <2> SUFFICES ASSUME lost = {} PROVE HistoryInv' /\ LineInv' /\ ProfileInv'
    BY <1>1 DEF StatusAgree
  <2>1. line.status = request[r].status
    BY <1>1 DEF StatusInv, StatusAgree, LineInv, StatusPast
  <2>2. HistoryInv' /\ LineInv'
    BY <1>1, <1>2, <2>1 DEF HistoryInv, LineInv, StatusPast, StatusLocked
  <2>3. profile'.status = line'.status /\ (~crossed' => fetched' = None)
    BY <1>1, <1>4, <2>1 DEF S!Status
  <2>4. ProfileInv'
    BY <2>3 DEF ProfileInv
  <2>5. QED
    BY <2>2, <2>4
<1>8. QED
  BY <1>2, <1>5, <1>6, <1>7 DEF StatusInv

(* The new entry is the first of the history, however much is cut off.      *)
LEMMA NewestFirst ==
    ASSUME S!StatusHomeAssumption, NEW s \in Statuses, NEW h \in Seq(Statuses)
    PROVE  LET g == SubSeq(<<s>> \o h, 1, S!Min({Len(<<s>> \o h), MaxHistory})) IN
              g \in Seq(Statuses) /\ g # <<>> /\ Head(g) = s
<1> DEFINE l == <<s>> \o h
           n == S!Min({Len(l), MaxHistory})
<1>1. l \in Seq(Statuses) /\ Len(l) \in Nat \ {0} /\ l[1] = s
  OBVIOUS
<1> HIDE DEF l
<1>2. n \in Nat \ {0} /\ n <= Len(l)
  <2>1. \E x \in {Len(l), MaxHistory} : \A y \in {Len(l), MaxHistory} : x <= y
    <3>1. CASE Len(l) <= MaxHistory
      BY <1>1, <3>1
    <3>2. CASE ~(Len(l) <= MaxHistory)
      BY <1>1, <3>2 DEF S!StatusHomeAssumption
    <3>3. QED
      BY <3>1, <3>2
  <2>2. n \in {Len(l), MaxHistory} /\ \A y \in {Len(l), MaxHistory} : n <= y
    BY <2>1 DEF S!Min
  <2>3. QED
    BY <1>1, <2>2 DEF S!StatusHomeAssumption
<1> HIDE DEF n
<1>3. SubSeq(l, 1, n) \in Seq(Statuses) /\ Len(SubSeq(l, 1, n)) = n /\ SubSeq(l, 1, n)[1] = l[1]
  BY <1>1, <1>2
<1>4. SubSeq(l, 1, n) # <<>> /\ Head(SubSeq(l, 1, n)) = s
  BY <1>1, <1>2, <1>3
<1>5. QED
  BY <1>3, <1>4 DEF l, n

LEMMA StatusSave ==
    ASSUME S!StatusHomeAssumption, StatusInv, NEW r \in Threads, S!SaveHistory(r)
    PROVE  StatusInv'
<1>1. /\ request[r].pc = "record" /\ request[r].pc \in StatusLocked /\ S!Goes(r, "answer")
      /\ "answer" \in StatusLocked
      /\ UNCHANGED <<now, lock, completed, answered, line, profile, fetched, sent, told, lost,
                     crossed>>
  BY DEF S!SaveHistory, S!At, S!memory, StatusLocked, StatusPast
<1>2. /\ request'[r].pc = "answer" /\ request'[r].status = request[r].status
      /\ \A q \in Threads \ {r} : request'[q] = request[q] /\ request[q].pc \notin StatusLocked
      /\ StatusRequests' /\ StatusLockInv'
  BY <1>1, StatusGoesOn
<1>3. S!Status(r) \in Statuses /\ history \in Seq(Statuses)
  BY <1>1, StatusAlone DEF StatusInv, StatusTypes
<1>4. history' \in Seq(Statuses) /\ history' # <<>> /\ Head(history') = S!Status(r)
  BY <1>3, NewestFirst DEF S!SaveHistory, S!Longer
<1>5. StatusTypes'
  BY <1>1, <1>2, <1>4 DEF StatusInv, StatusTypes
<1>6. StatusRetry' /\ StatusSent'
  BY <1>1, <1>2 DEF StatusInv, StatusRetry, StatusSent, S!Alive, StatusPast
<1>7. StatusAgree'
  <2> SUFFICES ASSUME lost = {} PROVE HistoryInv' /\ LineInv' /\ ProfileInv'
    BY <1>1 DEF StatusAgree
  <2>1. line.status = request[r].status
    BY <1>1 DEF StatusInv, StatusAgree, LineInv, StatusPast
  <2>2. HistoryInv'
    BY <1>1, <1>4, <2>1 DEF HistoryInv, Top, S!Status
  <2>3. LineInv' /\ ProfileInv'
    BY <1>1, <1>2, <2>1 DEF StatusInv, StatusAgree, LineInv, ProfileInv, StatusPast,
                            StatusLocked
  <2>4. QED
    BY <2>2, <2>3
<1>8. QED
  BY <1>2, <1>5, <1>6, <1>7 DEF StatusInv

(* The answer is remembered, and given.                                     *)
LEMMA StatusAnswer ==
    ASSUME StatusInv, NEW r \in Threads, S!Answer(r)
    PROVE  StatusInv'
<1>1. /\ request[r].pc = "answer" /\ request[r].pc \in StatusLocked
      /\ request' = [request EXCEPT ![r] = S!Idle] /\ told' = told \cup {S!Status(r)}
      /\ UNCHANGED <<now, line, profile, history, fetched, sent, lost, crossed>>
  BY DEF S!Answer, S!At, S!files, StatusLocked, StatusPast
<1>2. PICK gone : /\ completed' = (completed \cup {S!Kept(r)}) \ gone
                  /\ answered' = (answered \cup {S!Kept(r)}) \ gone
  BY DEF S!Answer
<1>3. /\ request'[r] = S!Idle /\ S!Idle.pc = "idle"
      /\ \A q \in Threads \ {r} : request'[q] = request[q] /\ request[q].pc \notin StatusLocked
      /\ StatusRequests' /\ StatusLockInv'
  BY <1>1, StatusEndsHere
<1>4. S!Status(r) \in Statuses /\ S!Kept(r) \in [status : Statuses, at : Nat]
      /\ S!Kept(r).status = S!Status(r)
  BY <1>1, StatusAlone DEF S!Kept, StatusEntry
<1>5. \A q \in Threads : request'[q].pc \notin StatusLocked
  BY <1>3 DEF StatusLocked, StatusPast
<1>6. StatusTypes'
  BY <1>1, <1>2, <1>3, <1>4 DEF StatusInv, StatusTypes
<1>7. StatusRetry'
  BY <1>1, <1>2, <1>5 DEF StatusInv, StatusRetry, S!Alive, StatusLocked
<1>8. StatusSent'
  <2>1. sent[S!Status(r)] > 0
    BY <1>1 DEF StatusInv, StatusSent, StatusPast, S!Status
  <2>2. QED
    BY <1>1, <1>2, <1>4, <1>5, <2>1 DEF StatusInv, StatusSent, StatusLocked
<1>9. StatusAgree'
  <2>1. \A q \in Threads : request[q].pc \notin {"read", "write", "record"}
    BY <1>1, <1>3 DEF StatusLocked, StatusPast
  <2>2. QED
    BY <1>1, <1>5, <2>1 DEF StatusInv, StatusAgree, HistoryInv, LineInv, ProfileInv,
                            StatusLocked
<1>10. QED
  BY <1>3, <1>6, <1>7, <1>8, <1>9 DEF StatusInv

(* Another device sets a status: the account page's files know nothing of   *)
(* it.                                                                      *)
LEMMA StatusElsewhere ==
    ASSUME StatusInv, NEW s \in Statuses, S!SetElsewhere(s)
    PROVE  StatusInv'
<1>1. /\ line' = [line EXCEPT !.status = s] /\ lost' # {}
      /\ UNCHANGED <<now, request, lock, completed, answered, profile, history, fetched, sent,
                     told, crossed>>
  BY DEF S!SetElsewhere, S!memory, S!files
<1>2. line' \in Profile
  BY <1>1 DEF StatusInv, StatusTypes, Profile
<1>3. StatusTypes' /\ StatusLockInv' /\ StatusRetry' /\ StatusSent'
  BY <1>1, <1>2 DEF StatusInv, StatusTypes, StatusRequests, StatusLockInv, StatusRetry,
                    StatusSent, S!Alive
<1>4. QED
  BY <1>1, <1>3 DEF StatusInv, StatusAgree

LEMMA StatusStep ==
    ASSUME S!StatusHomeAssumption, StatusInv, [S!Next]_(S!vars)
    PROVE  StatusInv'
<1>1. CASE \E r \in Threads :
             \/ S!Enter(r) \/ S!Update(r) \/ S!UpdateFails(r) \/ S!DiskFails(r)
             \/ S!ReadProfile(r) \/ S!WriteProfile(r) \/ S!SaveHistory(r) \/ S!Answer(r)
             \/ \E s \in Statuses : S!Ask(r, s)
  BY <1>1, StatusEnterStep, StatusUpdate, StatusFails, StatusReadStep, StatusWrite, StatusSave,
     StatusAnswer, StatusAskStep
<1>2. CASE S!Tick \/ S!NewPicture \/ S!FetchProfile \/ S!DumpProfile \/ S!Restart
  BY <1>2, StatusTick, StatusDump, StatusRestart
<1>3. CASE \E s \in Statuses : S!SetElsewhere(s)
  BY <1>3, StatusElsewhere
<1>4. CASE UNCHANGED S!vars
  <2>1. UNCHANGED <<now, request, lock, completed, answered, line, profile, history, fetched,
                    sent, told, lost, crossed>>
    BY <1>4 DEF S!vars, S!memory, S!files
  <2>2. StatusTypes' /\ StatusLockInv' /\ StatusRetry' /\ StatusSent'
    BY <2>1 DEF StatusInv, StatusTypes, StatusRequests, StatusLockInv, StatusRetry, StatusSent,
                S!Alive
  <2>3. StatusAgree'
    BY <2>1 DEF StatusInv, StatusAgree, HistoryInv, LineInv, ProfileInv
  <2>4. QED
    BY <2>2, <2>3 DEF StatusInv
<1>5. QED
  BY <1>1, <1>2, <1>3, <1>4 DEF S!Next

(* What the phone was told is set was set at LINE; with no request under    *)
(* way the history and profile.json say what LINE has, but for the updates  *)
(* and merges the property names.                                           *)
LEMMA StatusTold ==
    ASSUME S!StatusHomeAssumption, StatusInv
    PROVE  S!AnswerIsTrue
<1>1. \A s \in told : sent[s] > 0
  BY DEF StatusInv, StatusSent
<1>2. ASSUME lock = None, lost = {}
      PROVE  /\ line.status = Top(history)
             /\ profile.status = line.status \/ crossed
  <2>1. \A r \in Threads : request[r].pc \notin StatusLocked
    BY <1>2 DEF StatusInv, StatusLockInv, S!StatusHomeAssumption
  <2>2. QED
    BY <1>2, <2>1 DEF StatusInv, StatusAgree, HistoryInv, ProfileInv, StatusLocked, StatusPast
<1>3. QED
  BY <1>1, <1>2 DEF S!AnswerIsTrue, Top

(* While the answer of success to a status lives in memory, the update is   *)
(* not performed again, whichever connection asks.                          *)
LEMMA StatusOnce ==
    ASSUME StatusInv, S!Next
    PROVE  S!RetryNotRepeatedStep
<1> SUFFICES ASSUME NEW s \in Statuses, sent'[s] # sent[s],
                    NEW a \in answered, a.status = s, S!Alive(a)
             PROVE  FALSE
  BY DEF S!RetryNotRepeatedStep, S!Alive
<1>1. PICK r \in Threads : /\ request[r].pc = "update"
                          /\ sent' = [sent EXCEPT ![S!Status(r)] = @ + 1]
  BY DEF S!Next, S!Tick, S!NewPicture, S!FetchProfile, S!DumpProfile, S!Restart, S!Enter,
         S!Update, S!UpdateFails, S!DiskFails, S!Fails, S!Performed, S!ReadProfile,
         S!WriteProfile, S!SaveHistory, S!Answer, S!Ask, S!At, S!SetElsewhere
<1>2. s = request[r].status
  BY <1>1 DEF StatusInv, StatusTypes, S!Status
<1>3. QED
  BY <1>1, <1>2 DEF StatusInv, StatusRetry

-----------------------------------------------------------------------------
(* Friends *)

FriendWriting  == {"writeMids", "writeContacts"}
FriendLater    == {"readContacts", "writeContacts"}
FriendRemovals == {"readMids"} \cup FriendWriting \cup FriendLater
FriendLocked   == {"verify", "add", "refresh"} \cup FriendRemovals

FriendSyncs == [pc : {"idle", "block", "mids", "contacts"}, gone : SUBSET Newcomers,
                mids : SUBSET Newcomers, contacts : SUBSET Newcomers]
ToWrite == sync.mids \cup sync.contacts

FriendTypes ==
    /\ of \in [Operations -> Newcomers]
    /\ request \in [Threads -> [pc : {"idle", "waiting"} \cup FriendLocked,
                                op : Operations \cup {None}, read : SUBSET Newcomers]]
    /\ \A r \in Threads : ~F!At(r, "idle") => F!Op(r) \in Operations
    /\ added \subseteq Operations /\ forgot \subseteq Operations
    /\ friends \subseteq Newcomers /\ mids \subseteq Newcomers /\ contacts \subseteq Newcomers
    /\ sync \in FriendSyncs
    /\ writes \in [Operations -> Nat]
    /\ consumed \subseteq Newcomers

(* Only the holder of the lock is past the wait for it.                     *)
FriendLockInv == \A r \in Threads : request[r].pc \in FriendLocked => lock = r

(* What was performed is remembered or was forgotten, and what is about to  *)
(* be performed is not remembered.                                          *)
FriendWrites ==
    /\ \A o \in Operations : writes[o] # 0 => o \in added \cup forgot
    /\ \A r \in Threads : F!At(r, "add") => F!Op(r) \notin added

(* Once added, an account is a friend or its friendship was undone.         *)
FriendSettled ==
    /\ \A o \in added : of[o] \in friends \cup crossed
    /\ \A r \in Threads :
          request[r].pc \in {"refresh"} \cup FriendRemovals => F!Mid(r) \in friends \cup crossed

(* Who is off the recommendations is in nothing that will be written to     *)
(* them, and a removal half done is not undone unless a sync crossed it.    *)
FriendRemoval ==
    /\ sync.pc = "idle" => ToWrite = {}
    /\ \A m \in consumed \ crossed :
          /\ m \in friends /\ m \notin mids \cup contacts \cup ToWrite
          /\ \A r \in Threads : request[r].pc \in FriendWriting => m \notin request[r].read
    /\ \A r \in Threads :
          /\ request[r].pc \in FriendWriting => F!Mid(r) \notin request[r].read
          /\ request[r].pc \in FriendLater /\ F!Mid(r) \notin crossed =>
                F!Mid(r) \notin mids \cup sync.mids

FriendInv == FriendTypes /\ FriendLockInv /\ FriendWrites /\ FriendSettled /\ FriendRemoval

LEMMA FriendInit ==
    ASSUME F!FriendAddAssumption, F!Init
    PROVE  FriendInv
<1>1. FriendTypes /\ FriendLockInv
  BY DEF F!Init, FriendTypes, FriendSyncs, FriendLockInv, F!Idle, F!NoSync, F!At, F!Op, FriendLocked,
         FriendRemovals, FriendWriting, FriendLater
<1>2. FriendWrites /\ FriendSettled /\ FriendRemoval
  BY DEF F!Init, FriendWrites, FriendSettled, FriendRemoval, ToWrite, F!Idle, F!NoSync, F!At, F!Op,
         F!Mid, FriendRemovals, FriendWriting, FriendLater
<1>3. QED
  BY <1>1, <1>2 DEF FriendInv

(* One connection moves: what it is at becomes e.                           *)
LEMMA FriendOneMoves ==
    ASSUME FriendInv, NEW r \in Threads,
           NEW e \in [pc : {"idle", "waiting"} \cup FriendLocked, op : Operations \cup {None},
                      read : SUBSET Newcomers],
           request' = [request EXCEPT ![r] = e],
           e.pc # "idle" => e.op \in Operations,
           e.pc \in FriendLocked => lock' = r,
           \A q \in Threads \ {r} : request[q].pc \in FriendLocked => lock' = q
    PROVE  /\ request'[r] = e /\ \A q \in Threads \ {r} : request'[q] = request[q]
           /\ request' \in [Threads -> [pc : {"idle", "waiting"} \cup FriendLocked,
                                        op : Operations \cup {None}, read : SUBSET Newcomers]]
           /\ \A q \in Threads : ~F!At(q, "idle")' => F!Op(q)' \in Operations
           /\ FriendLockInv'
<1>1. /\ request \in [Threads -> [pc : {"idle", "waiting"} \cup FriendLocked,
                                  op : Operations \cup {None}, read : SUBSET Newcomers]]
      /\ \A q \in Threads : request[q].pc # "idle" => request[q].op \in Operations
  BY DEF FriendInv, FriendTypes, F!At, F!Op
<1>2. request'[r] = e /\ \A q \in Threads \ {r} : request'[q] = request[q]
  BY <1>1
<1>3. request' \in [Threads -> [pc : {"idle", "waiting"} \cup FriendLocked,
                                op : Operations \cup {None}, read : SUBSET Newcomers]]
  BY <1>1
<1>4. \A q \in Threads : request'[q].pc # "idle" => request'[q].op \in Operations
  BY <1>1, <1>2
<1>5. FriendLockInv'
  BY <1>2 DEF FriendLockInv
<1>6. QED
  BY <1>2, <1>3, <1>4, <1>5 DEF F!At, F!Op

(* The one that holds the lock is the only one past the wait for it.        *)
LEMMA FriendAlone ==
    ASSUME FriendInv, NEW r \in Threads, request[r].pc \in FriendLocked
    PROVE  /\ \A q \in Threads \ {r} : request[q].pc \notin FriendLocked
           /\ lock = r /\ F!Op(r) \in Operations /\ F!Mid(r) \in Newcomers
<1>1. F!Op(r) \in Operations
  BY DEF FriendInv, FriendTypes, F!At, FriendLocked, FriendRemovals, FriendWriting, FriendLater
<1>2. F!Mid(r) \in Newcomers
  BY <1>1 DEF FriendInv, FriendTypes, F!Mid
<1>3. QED
  BY <1>1, <1>2 DEF FriendInv, FriendLockInv

(* The holder of the lock goes to its next step, or is done.                *)
LEMMA FriendGoesOn ==
    ASSUME FriendInv, NEW r \in Threads, NEW to \in FriendLocked, F!Goes(r, to), ~F!At(r,
    "idle"),
           lock' = r, \A q \in Threads \ {r} : request[q].pc \notin FriendLocked
    PROVE  /\ request'[r].pc = to /\ request'[r].op = request[r].op
           /\ request'[r].read = request[r].read
           /\ \A q \in Threads \ {r} : request'[q] = request[q]
           /\ request' \in [Threads -> [pc : {"idle", "waiting"} \cup FriendLocked,
                                        op : Operations \cup {None}, read : SUBSET Newcomers]]
           /\ \A q \in Threads : ~F!At(q, "idle")' => F!Op(q)' \in Operations
           /\ FriendLockInv'
<1> DEFINE T == [pc : {"idle", "waiting"} \cup FriendLocked, op : Operations \cup {None},
                 read : SUBSET Newcomers]
           e == [request[r] EXCEPT !.pc = to]
<1>1. request \in [Threads -> T] /\ request[r] \in T /\ request[r].op \in Operations
  BY DEF FriendInv, FriendTypes, F!At, F!Op
<1>2. e \in T /\ e.pc = to /\ e.op = request[r].op /\ e.read = request[r].read
  BY <1>1
<1>3. request' = [request EXCEPT ![r] = e]
  BY DEF F!Goes
<1> HIDE DEF e
<1>4. QED
  BY <1>1, <1>2, <1>3, FriendOneMoves

LEMMA FriendEndsHere ==
    ASSUME FriendInv, NEW r \in Threads, F!Ends(r),
           \A q \in Threads \ {r} : request[q].pc \notin FriendLocked
    PROVE  /\ request'[r] = F!Idle
           /\ \A q \in Threads \ {r} : request'[q] = request[q]
           /\ request' \in [Threads -> [pc : {"idle", "waiting"} \cup FriendLocked,
                                        op : Operations \cup {None}, read : SUBSET Newcomers]]
           /\ \A q \in Threads : ~F!At(q, "idle")' => F!Op(q)' \in Operations
           /\ FriendLockInv'
<1>1. /\ F!Idle \in [pc : {"idle", "waiting"} \cup FriendLocked, op : Operations \cup {None},
                    read : SUBSET Newcomers]
      /\ F!Idle.pc = "idle" /\ "idle" \notin FriendLocked
  BY DEF F!Idle, FriendLocked, FriendRemovals, FriendWriting, FriendLater
<1>2. QED
  BY <1>1, FriendOneMoves DEF F!Ends

(* Before the write: nothing of what the proxy keeps changes.               *)
LEMMA FriendAskStep ==
    ASSUME FriendInv, NEW r \in Threads, NEW o \in Operations, F!Ask(r, o)
    PROVE  FriendInv'
<1> DEFINE e == [F!Idle EXCEPT !.pc = "waiting", !.op = o]
<1>1. /\ e \in [pc : {"idle", "waiting"} \cup FriendLocked, op : Operations \cup {None},
                 read : SUBSET Newcomers]
      /\ e.pc = "waiting" /\ e.op = o
  BY DEF F!Idle
<1>2. /\ request' = [request EXCEPT ![r] = e]
      /\ UNCHANGED <<of, lock, added, friends, mids, contacts, sync, writes, forgot,
                     consumed, crossed>>
  BY DEF F!Ask, F!setting, F!memory, F!files, F!history
<1>3. "waiting" \notin FriendLocked
  BY DEF FriendLocked, FriendRemovals, FriendWriting, FriendLater
<1>4. \A q \in Threads \ {r} : request[q].pc \in FriendLocked => lock' = q
  BY <1>2 DEF FriendInv, FriendLockInv
<1> HIDE DEF e
<1>5. /\ request'[r] = e /\ \A q \in Threads \ {r} : request'[q] = request[q]
      /\ request' \in [Threads -> [pc : {"idle", "waiting"} \cup FriendLocked,
                                   op : Operations \cup {None}, read : SUBSET Newcomers]]
      /\ \A q \in Threads : ~F!At(q, "idle")' => F!Op(q)' \in Operations
      /\ FriendLockInv'
  BY <1>1, <1>2, <1>3, <1>4, FriendOneMoves
<1>6. FriendTypes'
  BY <1>2, <1>5 DEF FriendInv, FriendTypes
<1>7. FriendWrites'
  BY <1>1, <1>2, <1>5 DEF FriendInv, FriendWrites, F!At, F!Op
<1>8. FriendSettled'
  BY <1>1, <1>2, <1>5 DEF FriendInv, FriendSettled, F!Mid, F!Op, FriendRemovals, FriendWriting,
                          FriendLater
<1>9. FriendRemoval'
  BY <1>1, <1>2, <1>5 DEF FriendInv, FriendRemoval, ToWrite, F!Mid, F!Op, FriendWriting, FriendLater
<1>10. QED
  BY <1>5, <1>6, <1>7, <1>8, <1>9 DEF FriendInv

(* A step of the holder of the lock that leaves what is kept alone.  It may *)
(* go to the write only if it is not remembered, and past it only settled.  *)
LEMMA FriendPlain ==
    ASSUME FriendInv, NEW r \in Threads, NEW to \in {"verify", "add", "refresh", "readMids"},
           F!Goes(r, to), ~F!At(r, "idle"), lock' = r,
           \A q \in Threads \ {r} : request[q].pc \notin FriendLocked,
           to = "add" => F!Op(r) \notin added,
           to \in {"refresh", "readMids"} => F!Mid(r) \in friends \cup crossed,
           UNCHANGED <<of, added, friends, mids, contacts, sync, writes, forgot, consumed,
           crossed>>
    PROVE  FriendInv'
<1>1. to \in FriendLocked /\ to \notin FriendWriting /\ to \notin FriendLater
  BY DEF FriendLocked, FriendRemovals, FriendWriting, FriendLater
<1>2. /\ request'[r].pc = to /\ request'[r].op = request[r].op
      /\ request'[r].read = request[r].read
      /\ \A q \in Threads \ {r} : request'[q] = request[q]
      /\ request' \in [Threads -> [pc : {"idle", "waiting"} \cup FriendLocked,
                                   op : Operations \cup {None}, read : SUBSET Newcomers]]
      /\ \A q \in Threads : ~F!At(q, "idle")' => F!Op(q)' \in Operations
      /\ FriendLockInv'
  BY <1>1, FriendGoesOn
<1>3. FriendTypes'
  BY <1>2 DEF FriendInv, FriendTypes
<1>4. FriendWrites'
  BY <1>2 DEF FriendInv, FriendWrites, F!At, F!Op
<1>5. FriendSettled'
  BY <1>2 DEF FriendInv, FriendSettled, F!Mid, F!Op, FriendRemovals, FriendWriting, FriendLater
<1>6. FriendRemoval'
  BY <1>1, <1>2 DEF FriendInv, FriendRemoval, ToWrite, F!Mid, F!Op
<1>7. QED
  BY <1>2, <1>3, <1>4, <1>5, <1>6 DEF FriendInv

(* The holder of the lock ends without a write.                             *)
LEMMA FriendEnd ==
    ASSUME FriendInv, NEW r \in Threads, F!Ends(r), request[r].pc \in FriendLocked,
           UNCHANGED <<of, added, friends, mids, contacts, sync, writes, forgot, consumed>>,
           crossed \subseteq crossed'
    PROVE  FriendInv'
<1>1. /\ request'[r] = F!Idle /\ F!Idle.pc = "idle"
      /\ \A q \in Threads \ {r} : request'[q] = request[q]
      /\ request' \in [Threads -> [pc : {"idle", "waiting"} \cup FriendLocked,
                                   op : Operations \cup {None}, read : SUBSET Newcomers]]
      /\ \A q \in Threads : ~F!At(q, "idle")' => F!Op(q)' \in Operations
      /\ FriendLockInv'
  BY FriendAlone, FriendEndsHere DEF F!Idle
<1>2. FriendTypes'
  BY <1>1 DEF FriendInv, FriendTypes
<1>3. FriendWrites'
  BY <1>1 DEF FriendInv, FriendWrites, F!At, F!Op
<1>4. FriendSettled'
  BY <1>1 DEF FriendInv, FriendSettled, F!Mid, F!Op, FriendRemovals, FriendWriting, FriendLater
<1>5. FriendRemoval'
  BY <1>1 DEF FriendInv, FriendRemoval, ToWrite, F!Mid, F!Op, FriendWriting, FriendLater
<1>6. QED
  BY <1>1, <1>2, <1>3, <1>4, <1>5 DEF FriendInv

(* The request enters and is looked up: a friend ends it, a remembered one  *)
(* goes past the write.                                                     *)
LEMMA FriendEnterStep ==
    ASSUME F!FriendAddAssumption, FriendInv, NEW r \in Threads, F!Enter(r)
    PROVE  FriendInv'
<1>1. /\ F!At(r, "waiting") /\ lock = None /\ lock' = r /\ F!Goes(r, "verify")
      /\ UNCHANGED <<of, added, friends, mids, contacts, sync, writes, forgot, consumed, crossed>>
  BY DEF F!Enter, F!setting, F!files, F!history
<1>2. \A q \in Threads \ {r} : request[q].pc \notin FriendLocked
  BY <1>1 DEF F!FriendAddAssumption, FriendInv, FriendLockInv
<1>3. QED
  BY <1>1, <1>2, FriendPlain DEF F!At

LEMMA FriendVerify ==
    ASSUME FriendInv, NEW r \in Threads, F!Verify(r)
    PROVE  FriendInv'
<1>1. /\ request[r].pc = "verify" /\ request[r].pc \in FriendLocked /\ ~F!At(r, "idle")
      /\ UNCHANGED <<of, added, friends, mids, contacts, sync, writes, forgot, consumed, crossed>>
  BY DEF F!Verify, F!setting, F!files, F!history, F!At, FriendLocked
<1>2. \/ F!Ends(r)
      \/ F!Op(r) \in added /\ F!Goes(r, "refresh") /\ UNCHANGED lock
      \/ F!Op(r) \notin added /\ F!Goes(r, "add") /\ UNCHANGED lock
  BY DEF F!Verify, F!KnownToBeAdded
<1>3. CASE F!Ends(r)
  BY <1>1, <1>3, FriendEnd
<1>4. CASE F!Op(r) \in added /\ F!Goes(r, "refresh") /\ UNCHANGED lock
  <2>1. F!Mid(r) \in friends \cup crossed
    BY <1>4 DEF FriendInv, FriendSettled, F!Mid
  <2>2. QED
    BY <1>1, <1>4, <2>1, FriendAlone, FriendPlain
<1>5. CASE F!Op(r) \notin added /\ F!Goes(r, "add") /\ UNCHANGED lock
  BY <1>1, <1>5, FriendAlone, FriendPlain
<1>6. QED
  BY <1>2, <1>3, <1>4, <1>5

(* The write at LINE: the account is a friend, and what was performed is    *)
(* remembered or forgotten.                                                 *)
LEMMA FriendAdds ==
    ASSUME FriendInv, NEW r \in Threads, F!Add(r)
    PROVE  FriendInv'
<1>1. /\ request[r].pc = "add" /\ request[r].pc \in FriendLocked /\ ~F!At(r, "idle")
      /\ F!Goes(r, "refresh") /\ UNCHANGED lock /\ "refresh" \in FriendLocked
      /\ UNCHANGED <<of, mids, contacts, sync, consumed, crossed>>
  BY DEF F!Add, F!setting, F!files, F!At, FriendLocked
<1>2. /\ friends' = friends \cup {F!Mid(r)}
      /\ writes' = [writes EXCEPT ![F!Op(r)] = @ + 1]
  BY DEF F!Add, F!Performed
<1>3. PICK gone \in SUBSET (added \cup {F!Op(r)}) :
         added' = (added \cup {F!Op(r)}) \ gone /\ forgot' = forgot \cup gone
  BY DEF F!Add
<1>4. /\ request'[r].pc = "refresh" /\ request'[r].op = request[r].op
      /\ request'[r].read = request[r].read
      /\ \A q \in Threads \ {r} : request'[q] = request[q]
      /\ request' \in [Threads -> [pc : {"idle", "waiting"} \cup FriendLocked,
                                   op : Operations \cup {None}, read : SUBSET Newcomers]]
      /\ \A q \in Threads : ~F!At(q, "idle")' => F!Op(q)' \in Operations
      /\ FriendLockInv'
  BY <1>1, FriendAlone, FriendGoesOn
<1>5. /\ F!Op(r) \in Operations /\ F!Mid(r) \in Newcomers /\ F!Mid(r) = of[F!Op(r)]
      /\ \A q \in Threads \ {r} : request[q].pc \notin FriendLocked
  BY <1>1, FriendAlone DEF F!Mid
<1>6. writes' \in [Operations -> Nat] /\ \A o \in Operations \ {F!Op(r)} : writes'[o] = writes[o]
  BY <1>2, <1>5 DEF FriendInv, FriendTypes
<1>7. FriendTypes'
  BY <1>1, <1>2, <1>3, <1>4, <1>5, <1>6 DEF FriendInv, FriendTypes
<1>8. FriendWrites'
  <2>1. \A o \in Operations : writes'[o] # 0 => o \in added' \cup forgot'
    BY <1>3, <1>6 DEF FriendInv, FriendWrites
  <2>2. \A q \in Threads : request'[q].pc # "add"
    BY <1>4, <1>5 DEF FriendLocked
  <2>3. QED
    BY <2>1, <2>2 DEF FriendWrites, F!At
<1>9. FriendSettled'
  <2>1. \A o \in added' : of'[o] \in friends' \cup crossed'
    BY <1>1, <1>2, <1>3, <1>5 DEF FriendInv, FriendSettled
  <2>2. \A q \in Threads : request'[q].pc \in {"refresh"} \cup FriendRemovals => q = r
    BY <1>4, <1>5 DEF FriendLocked
  <2>3. F!Mid(r)' = F!Mid(r)
    BY <1>1, <1>4 DEF F!Mid, F!Op
  <2>4. QED
    BY <1>2, <2>1, <2>2, <2>3 DEF FriendSettled
<1>10. FriendRemoval'
  <2>1. \A q \in Threads : request'[q].pc \notin FriendWriting \cup FriendLater
    BY <1>4, <1>5 DEF FriendLocked, FriendRemovals, FriendWriting, FriendLater
  <2>2. QED
    BY <1>1, <1>2, <2>1 DEF FriendInv, FriendRemoval, ToWrite
<1>11. QED
  BY <1>4, <1>7, <1>8, <1>9, <1>10 DEF FriendInv

LEMMA AddFailsStep ==
    ASSUME FriendInv, NEW r \in Threads, F!AddFails(r)
    PROVE  FriendInv'
<1>1. /\ request[r].pc = "add" /\ request[r].pc \in FriendLocked /\ F!Ends(r)
      /\ UNCHANGED <<of, added, mids, contacts, sync, consumed, crossed>>
  BY DEF F!AddFails, F!setting, F!files, F!At, FriendLocked
<1>2. CASE UNCHANGED <<friends, writes, forgot>>
  BY <1>1, <1>2, FriendEnd
<1>3. CASE F!Performed(r) /\ forgot' = forgot \cup {F!Op(r)}
  <2>1. /\ request'[r] = F!Idle /\ F!Idle.pc = "idle"
        /\ \A q \in Threads \ {r} : request'[q] = request[q]
        /\ request' \in [Threads -> [pc : {"idle", "waiting"} \cup FriendLocked,
                                     op : Operations \cup {None}, read : SUBSET Newcomers]]
        /\ \A q \in Threads : ~F!At(q, "idle")' => F!Op(q)' \in Operations
        /\ FriendLockInv'
    BY <1>1, FriendAlone, FriendEndsHere DEF F!Idle
  <2>2. F!Op(r) \in Operations /\ F!Mid(r) \in Newcomers
    BY <1>1, FriendAlone
  <2>3. /\ friends' = friends \cup {F!Mid(r)} /\ writes' \in [Operations -> Nat]
        /\ \A o \in Operations \ {F!Op(r)} : writes'[o] = writes[o]
    BY <1>3, <2>2 DEF F!Performed, FriendInv, FriendTypes
  <2>4. FriendTypes'
    BY <1>1, <1>3, <2>1, <2>2, <2>3 DEF FriendInv, FriendTypes
  <2>5. FriendWrites'
    BY <1>1, <1>3, <2>1, <2>3 DEF FriendInv, FriendWrites, F!At, F!Op
  <2>6. FriendSettled'
    BY <1>1, <2>1, <2>3 DEF FriendInv, FriendSettled, F!Mid, F!Op, FriendRemovals,
                            FriendWriting, FriendLater
  <2>7. FriendRemoval'
    BY <1>1, <2>1, <2>3 DEF FriendInv, FriendRemoval, ToWrite, F!Mid, F!Op, FriendWriting, FriendLater
  <2>8. QED
    BY <2>1, <2>4, <2>5, <2>6, <2>7 DEF FriendInv
<1>4. QED
  BY <1>2, <1>3 DEF F!AddFails

(* The other steps of the lookup, and a file that cannot be replaced.       *)
LEMMA FriendRefresh ==
    ASSUME FriendInv, NEW r \in Threads, F!Refresh(r) \/ F!GetContactFails(r)
    PROVE  FriendInv'
<1>1. UNCHANGED <<of, added, friends, mids, contacts, sync, writes, forgot, consumed, crossed>>
  BY DEF F!Refresh, F!GetContactFails, F!setting, F!memory, F!files, F!history
<1>2. request[r].pc \in FriendLocked /\ ~F!At(r, "idle")
  BY DEF F!Refresh, F!GetContactFails, F!At, FriendLocked
<1>3. CASE F!Refresh(r)
  <2>1. request[r].pc = "refresh" /\ F!Goes(r, "readMids") /\ UNCHANGED lock
    BY <1>3 DEF F!Refresh, F!At, F!memory
  <2>2. F!Mid(r) \in friends \cup crossed
    BY <2>1 DEF FriendInv, FriendSettled
  <2>3. QED
    BY <1>1, <1>2, <2>1, <2>2, FriendAlone, FriendPlain
<1>4. CASE F!GetContactFails(r)
  BY <1>1, <1>2, <1>4, FriendEnd DEF F!GetContactFails
<1>5. QED
  BY <1>3, <1>4

(* A recommendation file is read; what is to be written lacks the account,  *)
(* and whoever was taken off before.                                        *)
LEMMA FriendReadStep ==
    ASSUME FriendInv, NEW r \in Threads, F!ReadMids(r) \/ F!ReadContacts(r)
    PROVE  FriendInv'
<1>1. PICK from \in {mids, contacts}, to \in FriendWriting :
         /\ F!Removes(r, from, to)
         /\ to = "writeContacts" => F!At(r, "readContacts")
  BY DEF F!ReadMids, F!ReadContacts, FriendWriting
<1>2. /\ request[r].pc \in {"readMids", "readContacts"}
      /\ request[r].pc \in FriendLocked /\ to \in FriendLocked
  BY DEF F!ReadMids, F!ReadContacts, F!At, FriendLocked, FriendRemovals, FriendWriting,
         FriendLater
<1>3. UNCHANGED <<of, lock, added, friends, mids, contacts, sync, writes, forgot, consumed,
crossed>>
  BY <1>1 DEF F!Removes, F!setting, F!memory, F!files, F!history
<1> DEFINE e == [request[r] EXCEPT !.pc = to, !.read = from \ {F!Mid(r)}]
<1>4. request' = [request EXCEPT ![r] = e]
  BY <1>1 DEF F!Removes
<1>5. /\ e \in [pc : {"idle", "waiting"} \cup FriendLocked, op : Operations \cup {None},
                 read : SUBSET Newcomers]
      /\ e.pc = to /\ e.op = request[r].op /\ e.read = from \ {F!Mid(r)}
  BY <1>2 DEF FriendInv, FriendTypes
<1>6. /\ lock = r /\ F!Op(r) \in Operations
      /\ \A q \in Threads \ {r} : request[q].pc \notin FriendLocked
  BY <1>2, FriendAlone
<1> HIDE DEF e
<1>7. /\ request'[r] = e /\ \A q \in Threads \ {r} : request'[q] = request[q]
      /\ request' \in [Threads -> [pc : {"idle", "waiting"} \cup FriendLocked,
                                   op : Operations \cup {None}, read : SUBSET Newcomers]]
      /\ \A q \in Threads : ~F!At(q, "idle")' => F!Op(q)' \in Operations
      /\ FriendLockInv'
  BY <1>2, <1>3, <1>4, <1>5, <1>6, FriendOneMoves DEF F!Op
<1>8. F!Mid(r)' = F!Mid(r) /\ F!Op(r)' = F!Op(r)
  BY <1>3, <1>5, <1>7 DEF F!Mid, F!Op
<1>9. \A q \in Threads \ {r} : request'[q].pc \notin FriendLocked
  BY <1>6, <1>7
<1>10. FriendTypes'
  BY <1>3, <1>7 DEF FriendInv, FriendTypes
<1>11. FriendWrites'
  <2>1. \A q \in Threads : request'[q].pc # "add"
    BY <1>5, <1>7, <1>9 DEF FriendLocked, FriendWriting
  <2>2. QED
    BY <1>3, <2>1 DEF FriendInv, FriendWrites, F!At
<1>12. FriendSettled'
  <2>1. F!Mid(r) \in friends \cup crossed
    BY <1>2 DEF FriendInv, FriendSettled, FriendRemovals, FriendLater
  <2>2. \A q \in Threads : request'[q].pc \in {"refresh"} \cup FriendRemovals => q = r
    BY <1>9 DEF FriendLocked
  <2>3. QED
    BY <1>3, <1>8, <2>1, <2>2 DEF FriendInv, FriendSettled
<1>13. FriendRemoval'
  <2>1. \A q \in Threads : request'[q].pc \in FriendWriting \cup FriendLater => q = r
    BY <1>9 DEF FriendLocked, FriendRemovals
  <2>2. \A m \in consumed \ crossed : m \notin request'[r].read
    BY <1>5, <1>7 DEF FriendInv, FriendRemoval, ToWrite
  <2>3. request'[r].pc \in FriendLater /\ F!Mid(r) \notin crossed => F!Mid(r) \notin mids \cup sync.mids
    <3>1. request'[r].pc \in FriendLater => request[r].pc \in FriendLater
      BY <1>1, <1>5, <1>7 DEF FriendLater, FriendWriting, F!At
    <3>2. QED
      BY <3>1 DEF FriendInv, FriendRemoval, ToWrite
  <2>4. F!Mid(r) \notin request'[r].read
    BY <1>5, <1>7
  <2>5. /\ sync.pc = "idle" => ToWrite = {}
        /\ \A m \in consumed \ crossed :
              m \in friends /\ m \notin mids \cup contacts \cup ToWrite
    BY DEF FriendInv, FriendRemoval, ToWrite
  <2>6. QED
    BY <1>3, <1>8, <2>1, <2>2, <2>3, <2>4, <2>5 DEF FriendRemoval, ToWrite
<1>14. QED
  BY <1>7, <1>10, <1>11, <1>12, <1>13 DEF FriendInv

(* recommendation_mids.json is replaced, or cannot be.                      *)
LEMMA MidsStep ==
    ASSUME FriendInv, NEW r \in Threads,
           F!WriteMids(r) \/ (F!WriteFails(r) /\ F!At(r, "writeMids"))
    PROVE  FriendInv'
<1>1. /\ request[r].pc = "writeMids" /\ request[r].pc \in FriendLocked /\ ~F!At(r, "idle")
      /\ "readContacts" \in FriendLocked /\ F!Goes(r, "readContacts")
      /\ UNCHANGED <<of, lock, added, friends, contacts, sync, writes, forgot, consumed>>
      /\ \/ mids' = request[r].read /\ crossed' = crossed \cup F!Crossing(r)
         \/ mids' = mids /\ crossed' = crossed \cup {F!Mid(r)}
  BY DEF F!WriteMids, F!WriteFails, F!setting, F!memory, F!files, F!At, FriendLocked,
         FriendRemovals, FriendWriting, FriendLater
<1>2. /\ request'[r].pc = "readContacts" /\ request'[r].op = request[r].op
      /\ request'[r].read = request[r].read
      /\ \A q \in Threads \ {r} : request'[q] = request[q]
      /\ request' \in [Threads -> [pc : {"idle", "waiting"} \cup FriendLocked,
                                   op : Operations \cup {None}, read : SUBSET Newcomers]]
      /\ \A q \in Threads : ~F!At(q, "idle")' => F!Op(q)' \in Operations
      /\ FriendLockInv'
  BY <1>1, FriendAlone, FriendGoesOn
<1>3. /\ \A q \in Threads \ {r} : request'[q].pc \notin FriendLocked
      /\ request[r].read \subseteq Newcomers
      /\ F!Mid(r)' = F!Mid(r)
  BY <1>1, <1>2, FriendAlone DEF FriendInv, FriendTypes, F!Mid, F!Op
<1>4. FriendTypes'
  BY <1>1, <1>2, <1>3 DEF FriendInv, FriendTypes
<1>5. FriendWrites'
  BY <1>1, <1>2 DEF FriendInv, FriendWrites, F!At, F!Op
<1>6. FriendSettled'
  <2>1. F!Mid(r) \in friends \cup crossed
    BY <1>1 DEF FriendInv, FriendSettled, FriendRemovals, FriendWriting
  <2>2. \A q \in Threads : request'[q].pc \in {"refresh"} \cup FriendRemovals => q = r
    BY <1>3 DEF FriendLocked
  <2>3. \A o \in added' : of'[o] \in friends' \cup crossed'
    BY <1>1 DEF FriendInv, FriendSettled
  <2>4. QED
    BY <1>1, <1>3, <2>1, <2>2, <2>3 DEF FriendSettled
<1>7. FriendRemoval'
  <2>1. \A q \in Threads : /\ request'[q].pc \notin FriendWriting
                           /\ request'[q].pc \in FriendLater => q = r
    BY <1>2, <1>3 DEF FriendLocked, FriendRemovals, FriendWriting
  <2>2. \A m \in consumed \ crossed' : m \notin mids'
    BY <1>1 DEF FriendInv, FriendRemoval, ToWrite, FriendWriting
  <2>3. F!Mid(r) \notin crossed' => F!Mid(r) \notin mids' \cup sync.mids
    BY <1>1 DEF FriendInv, FriendRemoval, ToWrite, FriendWriting, F!Crossing
  <2>4. /\ sync.pc = "idle" => ToWrite = {}
        /\ \A m \in consumed \ crossed' : m \in friends /\ m \notin contacts \cup ToWrite
    BY <1>1 DEF FriendInv, FriendRemoval, ToWrite
  <2>5. QED
    BY <1>1, <1>3, <2>1, <2>2, <2>3, <2>4 DEF FriendRemoval, ToWrite
<1>8. QED
  BY <1>2, <1>4, <1>5, <1>6, <1>7 DEF FriendInv

(* recommendation_contacts.json is replaced, or cannot be, and it is done.  *)
LEMMA ContactsStep ==
    ASSUME FriendInv, NEW r \in Threads,
           F!WriteContacts(r) \/ (F!WriteFails(r) /\ ~F!At(r, "writeMids"))
    PROVE  FriendInv'
<1>1. /\ request[r].pc = "writeContacts" /\ request[r].pc \in FriendLocked /\ F!Ends(r)
      /\ UNCHANGED <<of, added, friends, mids, sync, writes, forgot>>
  BY DEF F!WriteContacts, F!WriteFails, F!setting, F!files, F!At, FriendLocked, FriendRemovals,
         FriendWriting
<1>2. CASE F!WriteFails(r)
  <2>1. UNCHANGED <<contacts, consumed>> /\ crossed \subseteq crossed'
    BY <1>2 DEF F!WriteFails, F!files
  <2>2. QED
    BY <1>1, <2>1, FriendEnd
<1>3. CASE F!WriteContacts(r)
  <2>1. /\ contacts' = request[r].read /\ crossed' = crossed \cup F!Crossing(r)
        /\ consumed' = consumed \cup {F!Mid(r)}
    BY <1>3 DEF F!WriteContacts
  <2>2. /\ request'[r] = F!Idle /\ F!Idle.pc = "idle"
        /\ \A q \in Threads \ {r} : request'[q] = request[q]
        /\ request' \in [Threads -> [pc : {"idle", "waiting"} \cup FriendLocked,
                                     op : Operations \cup {None}, read : SUBSET Newcomers]]
        /\ \A q \in Threads : ~F!At(q, "idle")' => F!Op(q)' \in Operations
        /\ FriendLockInv'
    BY <1>1, FriendAlone, FriendEndsHere DEF F!Idle
  <2>3. /\ \A q \in Threads : request'[q].pc \notin FriendLocked
        /\ request[r].read \subseteq Newcomers /\ F!Mid(r) \in Newcomers
    BY <1>1, <2>2, FriendAlone DEF FriendInv, FriendTypes, FriendLocked, FriendRemovals,
                                   FriendWriting, FriendLater
  <2>4. FriendTypes'
    BY <1>1, <2>1, <2>2, <2>3 DEF FriendInv, FriendTypes
  <2>5. FriendWrites'
    BY <1>1, <2>2 DEF FriendInv, FriendWrites, F!At, F!Op
  <2>6. FriendSettled'
    <3>1. \A q \in Threads : request'[q].pc \notin {"refresh"} \cup FriendRemovals
      BY <2>3 DEF FriendLocked
    <3>2. QED
      BY <1>1, <2>1, <3>1 DEF FriendInv, FriendSettled
  <2>7. FriendRemoval'
    <3>1. \A q \in Threads : request'[q].pc \notin FriendWriting \cup FriendLater
      BY <2>3 DEF FriendLocked, FriendRemovals
    <3>2. F!Mid(r) \notin crossed' =>
               F!Mid(r) \in friends /\ F!Mid(r) \notin mids \cup contacts' \cup ToWrite
      <4>1. F!Mid(r) \notin crossed' => F!Mid(r) \notin crossed /\ ToWrite = {}
        BY <2>1 DEF FriendInv, FriendRemoval, F!Crossing
      <4>2. QED
        BY <1>1, <2>1, <4>1 DEF FriendInv, FriendRemoval, FriendSettled, FriendRemovals,
                                FriendWriting, FriendLater
    <3>3. \A m \in consumed \ crossed' :
             m \in friends /\ m \notin mids \cup contacts' \cup ToWrite
      BY <1>1, <2>1 DEF FriendInv, FriendRemoval, ToWrite, FriendWriting
    <3>4. sync.pc = "idle" => ToWrite = {}
      BY DEF FriendInv, FriendRemoval, ToWrite
    <3>5. QED
      BY <1>1, <2>1, <3>1, <3>2, <3>3, <3>4 DEF FriendRemoval, ToWrite
  <2>8. QED
    BY <2>2, <2>4, <2>5, <2>6, <2>7 DEF FriendInv
<1>4. QED
  BY <1>2, <1>3

(* Where no connection moves, only the files, the friends and the sync may. *)
LEMMA FriendSync ==
    ASSUME FriendInv, F!SyncFetch \/ F!SyncWrite \/ \E m \in Newcomers : F!BlockReads(m)
    PROVE  FriendInv'
<1>1. /\ UNCHANGED <<of, request, lock, added, friends, writes, forgot, consumed>>
      /\ crossed \subseteq crossed'
  BY DEF F!SyncFetch, F!SyncWrite, F!BlockReads, F!setting, F!memory, F!history
<1>2. /\ \A m \in consumed \ crossed' : m \in friends
      /\ \A r \in Threads : request[r].pc \in FriendLater /\ F!Mid(r) \notin crossed' =>
             F!Mid(r) \in friends
  BY <1>1 DEF FriendInv, FriendRemoval, ToWrite, FriendSettled, FriendRemovals
<1>3. FriendTypes' /\ FriendLockInv' /\ FriendWrites' /\ FriendSettled'
  <2>1. sync' \in FriendSyncs
    <3>1. sync \in FriendSyncs /\ mids \subseteq Newcomers /\ contacts \subseteq Newcomers
      BY DEF FriendInv, FriendTypes
    <3>2. F!NoSync \in FriendSyncs
      BY DEF F!NoSync, FriendSyncs
    <3>3. CASE F!SyncFetch
      <4>1. sync' = [F!NoSync EXCEPT !.pc = "mids", !.mids = Newcomers \ friends,
                                     !.contacts = Newcomers \ friends]
        BY <3>3 DEF F!SyncFetch
      <4>2. QED
        BY <3>2, <4>1 DEF FriendSyncs
    <3>4. CASE F!SyncWrite
      <4>1. sync' = [sync EXCEPT !.pc = "contacts"] \/ sync' = F!NoSync
        BY <3>4 DEF F!SyncWrite
      <4>2. QED
        BY <3>1, <3>2, <4>1 DEF FriendSyncs
    <3>5. ASSUME NEW m \in Newcomers, F!BlockReads(m) PROVE sync' \in FriendSyncs
      <4>1. \/ sync' = [F!NoSync EXCEPT !.pc = "block", !.gone = {m}, !.mids = mids \ {m}]
            \/ sync' = [sync EXCEPT !.pc = "mids", !.contacts = contacts \ {m}]
        BY <3>5 DEF F!BlockReads
      <4>2. {m} \in SUBSET Newcomers /\ mids \ {m} \in SUBSET Newcomers
            /\ contacts \ {m} \in SUBSET Newcomers
        BY <3>1
      <4>3. CASE sync' = [F!NoSync EXCEPT !.pc = "block", !.gone = {m}, !.mids = mids \ {m}]
        BY <3>2, <4>2, <4>3 DEF FriendSyncs
      <4>4. CASE sync' = [sync EXCEPT !.pc = "mids", !.contacts = contacts \ {m}]
        BY <3>1, <4>2, <4>4 DEF FriendSyncs
      <4>5. QED
        BY <4>1, <4>3, <4>4
    <3>6. QED
      BY <3>3, <3>4, <3>5
  <2>2. mids' \subseteq Newcomers /\ contacts' \subseteq Newcomers
    BY DEF FriendInv, FriendTypes, FriendSyncs, F!SyncFetch, F!SyncWrite, F!BlockReads, F!files
  <2>3. FriendTypes'
    BY <1>1, <2>1, <2>2 DEF FriendInv, FriendTypes, F!At, F!Op
  <2>4. FriendLockInv' /\ FriendWrites'
    BY <1>1 DEF FriendInv, FriendLockInv, FriendWrites, F!At, F!Op
  <2>5. FriendSettled'
    BY <1>1 DEF FriendInv, FriendSettled, F!Mid, F!Op
  <2>6. QED
    BY <2>3, <2>4, <2>5
<1>4. FriendRemoval'
  <2>1. \A r \in Threads : F!Mid(r)' = F!Mid(r)
    BY <1>1 DEF F!Mid, F!Op
  <2>2. CASE F!SyncFetch
    <3>1. /\ UNCHANGED <<mids, contacts, crossed>> /\ sync'.pc # "idle"
          /\ sync'.mids = Newcomers \ friends /\ sync'.contacts = Newcomers \ friends
      BY <2>2 DEF F!SyncFetch, F!files, F!history, F!NoSync
    <3>2. QED
      BY <1>1, <1>2, <2>1, <3>1 DEF FriendInv, FriendRemoval, ToWrite
  <2>3. CASE F!SyncWrite
    <3>1. /\ crossed' = crossed \cup F!Removing
          /\ mids' = mids \/ mids' = sync.mids
          /\ contacts' = contacts \/ contacts' = sync.contacts
      BY <2>3 DEF F!SyncWrite
    <3>2. (sync'.pc = "idle" => ToWrite' = {}) /\ ToWrite' \subseteq ToWrite
      BY <2>3 DEF F!SyncWrite, F!NoSync, FriendInv, FriendTypes, FriendSyncs, ToWrite
    <3>3. \A r \in Threads : request[r].pc \in FriendLater => F!Mid(r) \in crossed'
      BY <3>1 DEF F!Removing, FriendLater
    <3>4. \A m \in consumed \ crossed' : m \notin mids' \cup contacts' \cup ToWrite'
      BY <3>1, <3>2 DEF FriendInv, FriendRemoval, ToWrite
    <3>5. \A r \in Threads : request[r].pc \in FriendWriting =>
             /\ F!Mid(r) \notin request[r].read
             /\ \A m \in consumed \ crossed' : m \notin request[r].read
      BY <1>1 DEF FriendInv, FriendRemoval, ToWrite
    <3>6. QED
      BY <1>1, <1>2, <2>1, <3>2, <3>3, <3>4, <3>5 DEF FriendRemoval, ToWrite
  <2>4. ASSUME NEW m \in Newcomers, F!BlockReads(m)
        PROVE  FriendRemoval'
    <3>1. /\ UNCHANGED <<mids, contacts, crossed>> /\ sync'.pc # "idle"
          /\ sync'.mids \subseteq mids \cup sync.mids
          /\ sync'.contacts \subseteq contacts
      <4>1. UNCHANGED <<mids, contacts, crossed>> /\ sync \in FriendSyncs
        BY <2>4 DEF F!BlockReads, F!files, F!history, FriendInv, FriendTypes
      <4>2. \/ sync' = [F!NoSync EXCEPT !.pc = "block", !.gone = {m}, !.mids = mids \ {m}]
            \/ sync' = [sync EXCEPT !.pc = "mids", !.contacts = contacts \ {m}]
        BY <2>4 DEF F!BlockReads
      <4>3. QED
        BY <4>1, <4>2 DEF F!NoSync, FriendSyncs
    <3>2. \A r \in Threads : request[r].pc \in FriendLater /\ F!Mid(r) \notin crossed =>
             F!Mid(r) \notin mids \cup sync'.mids
      BY <3>1 DEF FriendInv, FriendRemoval
    <3>3. \A n \in consumed \ crossed : n \notin mids \cup contacts \cup ToWrite'
      BY <3>1 DEF FriendInv, FriendRemoval, ToWrite
    <3>4. QED
      BY <1>1, <1>2, <2>1, <3>1, <3>2, <3>3 DEF FriendInv, FriendRemoval
  <2>5. QED
    BY <2>2, <2>3, <2>4
<1>5. QED
  BY <1>3, <1>4 DEF FriendInv

LEMMA FriendElsewhere ==
    ASSUME FriendInv, NEW m \in Newcomers, F!Elsewhere(m)
    PROVE  FriendInv'
<1>1. /\ UNCHANGED <<of, request, lock, added, mids, contacts, sync, writes, forgot, consumed>>
      /\ crossed \subseteq crossed' /\ friends \subseteq friends' \cup crossed'
      /\ friends' \subseteq Newcomers
      /\ \A n \in friends : n \notin crossed' => n \in friends'
  BY DEF F!Elsewhere, F!setting, F!memory, F!files, FriendInv, FriendTypes
<1>2. FriendTypes'
  BY <1>1 DEF FriendInv, FriendTypes, F!At, F!Op
<1>3. FriendLockInv' /\ FriendWrites'
  BY <1>1 DEF FriendInv, FriendLockInv, FriendWrites, F!At, F!Op
<1>4. FriendSettled'
  BY <1>1 DEF FriendInv, FriendSettled, F!Mid, F!Op
<1>5. FriendRemoval'
  BY <1>1 DEF FriendInv, FriendRemoval, ToWrite, F!Mid, F!Op
<1>6. QED
  BY <1>2, <1>3, <1>4, <1>5 DEF FriendInv

LEMMA FriendRestart ==
    ASSUME FriendInv, F!Restart
    PROVE  FriendInv'
<1>1. /\ request' = [r \in Threads |-> F!Idle] /\ added' = {} /\ forgot' = forgot \cup added
      /\ crossed \subseteq crossed'
      /\ UNCHANGED <<of, friends, mids, contacts, sync, writes, consumed>>
  BY DEF F!Restart, F!setting, F!files
<1>2. F!Idle = [pc |-> "idle", op |-> None, read |-> {}]
  BY DEF F!Idle
<1>3. FriendTypes'
  BY <1>1, <1>2 DEF FriendInv, FriendTypes, F!At, F!Op
<1>4. FriendLockInv' /\ FriendWrites' /\ FriendSettled'
  BY <1>1, <1>2 DEF FriendInv, FriendLockInv, FriendWrites, FriendSettled, F!At, FriendLocked,
                    FriendRemovals, FriendWriting, FriendLater
<1>5. FriendRemoval'
  BY <1>1, <1>2 DEF FriendInv, FriendRemoval, ToWrite, FriendWriting, FriendLater
<1>6. QED
  BY <1>3, <1>4, <1>5 DEF FriendInv

LEMMA FriendElse ==
    ASSUME FriendInv, F!Tick \/ (\E m \in Newcomers : F!SeeTicket(m)) \/ UNCHANGED F!vars
    PROVE  FriendInv'
<1>1. UNCHANGED <<of, request, lock, added, friends, mids, contacts, sync, writes, forgot,
                  consumed, crossed>>
  BY DEF F!Tick, F!SeeTicket, F!vars, F!setting, F!memory, F!files, F!history
<1>2. FriendTypes' /\ FriendLockInv' /\ FriendWrites'
  BY <1>1 DEF FriendInv, FriendTypes, FriendLockInv, FriendWrites, F!At, F!Op
<1>3. FriendSettled' /\ FriendRemoval'
  BY <1>1 DEF FriendInv, FriendSettled, FriendRemoval, ToWrite, F!Mid, F!Op
<1>4. QED
  BY <1>2, <1>3 DEF FriendInv

LEMMA FriendStep ==
    ASSUME F!FriendAddAssumption, FriendInv, [F!Next]_(F!vars)
    PROVE  FriendInv'
<1>1. CASE \E r \in Threads :
             \/ F!Enter(r) \/ F!Verify(r) \/ F!Add(r) \/ F!AddFails(r) \/ F!Refresh(r) \/ F!GetContactFails(r)
             \/ \E o \in Operations : F!Ask(r, o)
  BY <1>1, FriendEnterStep, FriendVerify, FriendAdds, AddFailsStep, FriendRefresh, FriendAskStep
<1>2. CASE \E r \in Threads :
             \/ F!ReadMids(r) \/ F!WriteMids(r) \/ F!ReadContacts(r) \/ F!WriteContacts(r) \/ F!WriteFails(r)
  BY <1>2, FriendReadStep, MidsStep, ContactsStep
<1>3. CASE F!SyncFetch \/ F!SyncWrite \/ F!Restart
           \/ \E m \in Newcomers : F!BlockReads(m) \/ F!Elsewhere(m)
  BY <1>3, FriendSync, FriendRestart, FriendElsewhere
<1>4. CASE F!Tick \/ (\E m \in Newcomers : F!SeeTicket(m)) \/ UNCHANGED F!vars
  BY <1>4, FriendElse
<1>5. QED
  BY <1>1, <1>2, <1>3, <1>4 DEF F!Next

(* Who was added through the proxy and taken off the recommendations is a   *)
(* friend at LINE and in neither file, unless a sync or a block crossed the *)
(* removal, a file could not be replaced or the friendship was undone.      *)
LEMMA FriendTold == FriendInv => F!AnswerIsTrue
BY DEF FriendInv, FriendRemoval, ToWrite, F!AnswerIsTrue

(* LINE performs a request once, although the friendship may be undone in   *)
(* between: a request that may be performed is not remembered, and what was *)
(* performed is remembered unless its answer or the memory of it was lost.  *)
LEMMA FriendOnce ==
    ASSUME FriendInv, F!Next
    PROVE  F!RetryNotRepeatedStep
<1> SUFFICES ASSUME NEW o \in Operations, writes'[o] # writes[o]
             PROVE  writes[o] = 0 \/ o \in forgot
  BY DEF F!RetryNotRepeatedStep
<1>1. PICK r \in Threads : /\ F!At(r, "add")
                          /\ writes' = [writes EXCEPT ![F!Op(r)] = @ + 1]
  BY DEF F!Next, F!Tick, F!SyncFetch, F!SyncWrite, F!BlockReads, F!Restart, F!SeeTicket, F!Elsewhere,
         F!Enter, F!Verify, F!Add, F!AddFails, F!Performed, F!Refresh, F!GetContactFails,
         F!ReadMids, F!WriteMids, F!ReadContacts, F!Removes, F!WriteContacts, F!WriteFails,
         F!Ask, F!history
<1>2. o = F!Op(r)
  BY <1>1 DEF FriendInv, FriendTypes
<1>3. QED
  BY <1>1, <1>2 DEF FriendInv, FriendWrites

-----------------------------------------------------------------------------
(* The calls of the past *)

CallTypes ==
    /\ ours \subseteq Calls /\ now \in Nat \ {0} /\ ended \in [Calls -> Nat]
    /\ callLog \in Seq(ours) /\ recent \in Seq(ours) /\ curLog \in Nat
    /\ recvOut \in Seq([call : Calls, at : Nat]) /\ curRecv \in Nat
    /\ pump.size \in Nat

(* A message tells of a call that is over.                                  *)
MessageOver == \A i \in 1..Len(recvOut) : ended[recvOut[i].call] # 0

(* A call of the log that the phone has is remembered or forgotten, and     *)
(* what is remembered the phone has; a message the phone has was moved      *)
(* before its line of the log, or after that line was forgotten, unless     *)
(* LINE's time is far from the gateway's.                                   *)
CallKept ==
    \A c \in Calls :
        /\ C!Listed("log", c) => c \in C!ToSet(recent) \cup forgotten
        /\ c \in C!ToSet(recent) => C!Listed("log", c)
        /\ C!Listed("message", c) => c \in early \cup forgotten \/ C!FarOff(c)
        /\ c \in dropped => C!Listed("message", c) \/ C!Listed("log", c) \/ C!NearOne(c)

CallInv == CallTypes /\ MessageOver /\ CallKept

LEMMA SeqOf ==
    ASSUME NEW E, NEW s \in Seq(E)
    PROVE  C!ToSet(s) \subseteq E /\ (\A x \in C!ToSet(s) : \E i \in 1..Len(s) : x = s[i])
           /\ \A i \in 1..Len(s) : s[i] \in C!ToSet(s)
BY DEF C!ToSet

LEMMA PartOf ==
    ASSUME NEW E, NEW s \in Seq(E), NEW a \in Nat \ {0}
    PROVE  /\ SubSeq(s, a, Len(s)) \in Seq(E)
           /\ \A x \in C!ToSet(SubSeq(s, a, Len(s))) : \E i \in 1..Len(s) : x = s[i]
<1> DEFINE t == SubSeq(s, a, Len(s))
<1>1. t \in Seq(E) /\ Len(t) = IF a <= Len(s) THEN Len(s) - a + 1 ELSE 0
  OBVIOUS
<1>2. \A i \in 1..Len(t) : t[i] = s[i + a - 1] /\ i + a - 1 \in 1..Len(s)
  BY <1>1
<1> HIDE DEF t
<1>3. \A x \in C!ToSet(t) : \E i \in 1..Len(t) : x = t[i]
  BY <1>1, SeqOf
<1>4. \A x \in C!ToSet(t) : \E i \in 1..Len(s) : x = s[i]
  BY <1>2, <1>3
<1>5. QED
  BY <1>1, <1>4 DEF t

LEMMA BothOf ==
    ASSUME NEW E, NEW s \in Seq(E), NEW t \in Seq(E)
    PROVE  C!ToSet(s \o t) = C!ToSet(s) \cup C!ToSet(t) /\ s \o t \in Seq(E)
<1> DEFINE u == s \o t
<1>1. /\ u \in Seq(E) /\ Len(u) = Len(s) + Len(t)
      /\ \A i \in 1..Len(s) : u[i] = s[i]
      /\ \A i \in 1..Len(t) : u[i + Len(s)] = t[i]
  OBVIOUS
<1>2. \A i \in 1..Len(u) : i \in 1..Len(s) \/ (i - Len(s) \in 1..Len(t) /\ u[i] = t[i - Len(s)])
  BY <1>1
<1>3. \A i \in 1..Len(t) : i + Len(s) \in 1..Len(u)
  BY <1>1
<1>4. \A i \in 1..Len(s) : i \in 1..Len(u)
  BY <1>1
<1> HIDE DEF u
<1>5. C!ToSet(u) \subseteq C!ToSet(s) \cup C!ToSet(t)
  <2> SUFFICES ASSUME NEW x \in C!ToSet(u) PROVE x \in C!ToSet(s) \cup C!ToSet(t)
    OBVIOUS
  <2>1. PICK i \in 1..Len(u) : x = u[i]
    BY <1>1, SeqOf
  <2>2. QED
    BY <1>1, <1>2, <2>1, SeqOf
<1>6. C!ToSet(s) \subseteq C!ToSet(u)
  <2> SUFFICES ASSUME NEW x \in C!ToSet(s) PROVE x \in C!ToSet(u)
    OBVIOUS
  <2>1. PICK i \in 1..Len(s) : x = s[i]
    BY SeqOf
  <2>2. QED
    BY <1>1, <1>4, <2>1, SeqOf
<1>7. C!ToSet(t) \subseteq C!ToSet(u)
  <2> SUFFICES ASSUME NEW x \in C!ToSet(t) PROVE x \in C!ToSet(u)
    OBVIOUS
  <2>1. PICK i \in 1..Len(t) : x = t[i]
    BY SeqOf
  <2>2. QED
    BY <1>1, <1>3, <2>1, SeqOf
<1>8. QED
  BY <1>1, <1>5, <1>6, <1>7 DEF u

LEMMA CallInit ==
    ASSUME C!Init
    PROVE  CallInv
<1>1. CallTypes
  BY DEF C!Init, CallTypes
<1>2. MessageOver
  BY DEF C!Init, MessageOver
<1>3. C!ToSet(recent) = {}
  BY DEF C!Init, C!ToSet
<1>4. CallKept
  BY <1>3 DEF C!Init, CallKept, C!Listed
<1>5. QED
  BY <1>1, <1>2, <1>4 DEF CallInv

(* What is told of the calls depends on the outbox, the memory and which    *)
(* times are far apart.                                                     *)
LEMMA CallKeptStays ==
    ASSUME CallKept, \A c \in Calls : C!FarOff(c) => C!FarOff(c)',
           UNCHANGED <<outbox, recent, forgotten, early, dropped, ours, peer>>
    PROVE  CallKept'
BY DEF CallKept, C!Listed, C!NearOne, C!ToSet

LEMMA FarOffStays ==
    ASSUME UNCHANGED <<recvOut, ended>>
    PROVE  \A c \in Calls : C!FarOff(c)' <=> C!FarOff(c)
BY DEF C!FarOff, C!ToSet

LEMMA MessageTyped ==
    ASSUME CallInv, NEW i \in 1..Len(recvOut)
    PROVE  recvOut[i].call \in Calls /\ recvOut[i].at \in Nat
<1>1. recvOut \in Seq([call : Calls, at : Nat])
  BY DEF CallInv, CallTypes
<1>2. recvOut[i] \in [call : Calls, at : Nat]
  BY <1>1, SeqOf
<1>3. QED
  BY <1>2

(* A round moves the messages.                                              *)
LEMMA CallPumpRecv ==
    ASSUME C!CallHistoryAssumption, CallInv, C!PumpRecv
    PROVE  CallInv'
<1> DEFINE new == C!ToSet(SubSeq(recvOut, curRecv + 1, Len(recvOut)))
<1>1. UNCHANGED <<now, peer, ours, ended, callLog, recvOut, curLog, curRecv, recent, forgotten>>
  BY DEF C!PumpRecv, C!calls, C!files
<1>2. CallTypes' /\ MessageOver'
  BY <1>1 DEF C!PumpRecv, CallInv, CallTypes, MessageOver
<1>3. \A m \in new : \E i \in 1..Len(recvOut) : m = recvOut[i]
  BY PartOf DEF CallInv, CallTypes
<1>4. \A i \in 1..Len(recvOut) : recvOut[i].call \in Calls /\ recvOut[i].at \in Nat
  BY MessageTyped
<1>5. \A m \in new : m.call \in Calls /\ m.at \in Nat /\ m \in C!ToSet(recvOut)
  <2>1. recvOut \in Seq([call : Calls, at : Nat])
    BY DEF CallInv, CallTypes
  <2>2. \A i \in 1..Len(recvOut) : recvOut[i] \in C!ToSet(recvOut)
    BY <2>1, SeqOf
  <2>3. QED
    BY <1>3, <1>4, <2>2
<1>6. /\ outbox' = outbox \cup {[from |-> "message", call |-> m.call] :
                                m \in {n \in new : ~C!Duplicate(n)}}
      /\ dropped' = dropped \cup {m.call : m \in {n \in new : C!Duplicate(n)}}
      /\ early' = early \cup {m.call : m \in {n \in new :
                       [from |-> "log", call |-> n.call] \notin outbox}}
  BY DEF C!PumpRecv
<1> HIDE DEF new
<1>7. ASSUME NEW m \in new, ~C!Duplicate(m), C!Listed("log", m.call)
      PROVE  m.call \in forgotten \/ C!FarOff(m.call)
  <2>1. CASE m.call \in C!ToSet(recent)
    <3>1. ~C!Near(m, m.call)
      BY <1>7, <2>1 DEF C!Duplicate
    <3>2. m.at > ended[m.call] + Window \/ ended[m.call] > m.at + Window
      BY <1>5, <3>1 DEF C!Near, C!CallHistoryAssumption, CallInv, CallTypes
    <3>3. QED
      BY <1>5, <3>2 DEF C!FarOff
  <2>2. CASE m.call \notin C!ToSet(recent)
    BY <1>5, <1>7, <2>2 DEF CallInv, CallKept
  <2>3. QED
    BY <2>1, <2>2
<1>8. ASSUME NEW c \in Calls PROVE C!Listed("log", c)' <=> C!Listed("log", c)
  BY <1>6 DEF C!Listed
<1>9. ASSUME NEW c \in Calls, C!Listed("message", c)' PROVE c \in early' \cup forgotten' \/ C!FarOff(c)'
  <2>0. C!FarOff(c)' <=> C!FarOff(c)
    BY <1>1, FarOffStays
  <2>1. CASE C!Listed("message", c)
    BY <1>1, <1>6, <2>0, <2>1 DEF CallInv, CallKept
  <2>2. CASE ~C!Listed("message", c)
    <3>1. PICK m \in new : ~C!Duplicate(m) /\ m.call = c
      BY <1>6, <1>9, <2>2 DEF C!Listed
    <3>2. QED
      BY <1>1, <1>6, <1>7, <2>0, <3>1 DEF C!Listed
  <2>3. QED
    BY <2>1, <2>2
<1>10. ASSUME NEW c \in Calls, c \in dropped'
       PROVE  C!Listed("message", c)' \/ C!Listed("log", c)' \/ C!NearOne(c)'
  <2>1. CASE c \in dropped
    BY <1>1, <1>6, <2>1 DEF CallInv, CallKept, C!Listed, C!NearOne
  <2>2. CASE c \notin dropped
    <3>1. PICK m \in new : C!Duplicate(m) /\ m.call = c
      BY <1>6, <1>10, <2>2
    <3>2. PICK d \in C!ToSet(recent) : peer[c] = peer[d]
      BY <3>1 DEF C!Duplicate, C!Near
    <3>3. d \in ours /\ d \in Calls
      BY SeqOf DEF CallInv, CallTypes
    <3>4. CASE d = c
      BY <1>8, <3>4 DEF CallInv, CallKept
    <3>5. CASE d # c
      BY <1>1, <3>2, <3>3, <3>5 DEF C!NearOne
    <3>6. QED
      BY <3>4, <3>5
  <2>3. QED
    BY <2>1, <2>2
<1>11. C!ToSet(recent)' = C!ToSet(recent)
  BY <1>1 DEF C!ToSet
<1>12. CallKept'
  <2> SUFFICES ASSUME NEW c \in Calls
               PROVE  /\ C!Listed("log", c)' => c \in C!ToSet(recent)' \cup forgotten'
                      /\ c \in C!ToSet(recent)' => C!Listed("log", c)'
                      /\ C!Listed("message", c)' => c \in early' \cup forgotten'
                                                    \/ C!FarOff(c)'
                      /\ c \in dropped' => C!Listed("message", c)' \/ C!Listed("log", c)'
                                           \/ C!NearOne(c)'
    BY DEF CallKept
  <2>1. QED
    BY <1>1, <1>8, <1>9, <1>10, <1>11 DEF CallInv, CallKept
<1>13. QED
  BY <1>2, <1>12 DEF CallInv

(* A round moves the log.                                                   *)
LEMMA CallPumpLog ==
    ASSUME C!CallHistoryAssumption, CallInv, C!PumpCallLog
    PROVE  CallInv'
<1> DEFINE new == SubSeq(callLog, curLog + 1, Len(callLog))
           all == recent \o new
<1>1. UNCHANGED <<now, peer, ours, ended, callLog, recvOut, curLog, curRecv, dropped, early>>
  BY DEF C!PumpCallLog, C!calls, C!files
<1>2. new \in Seq(ours)
  BY PartOf DEF CallInv, CallTypes
<1>3. /\ recent' = C!Remembered(all)
      /\ forgotten' = forgotten \cup (C!ToSet(all) \ C!ToSet(recent)')
      /\ outbox' = outbox \cup {[from |-> "log", call |-> c] : c \in C!ToSet(new)}
  BY DEF C!PumpCallLog
<1>4. pump'.size \in Nat
  BY DEF C!PumpCallLog, CallInv, CallTypes
<1> HIDE DEF new
<1>5. all \in Seq(ours) /\ C!ToSet(all) = C!ToSet(recent) \cup C!ToSet(new)
  BY <1>2, BothOf DEF CallInv, CallTypes
<1> HIDE DEF all
<1>6. recent' \in Seq(ours) /\ C!ToSet(recent)' \subseteq C!ToSet(all)
  <2> DEFINE a == IF Len(all) > MaxRecent THEN Len(all) - MaxRecent + 1 ELSE 1
  <2>1. a \in Nat \ {0}
    BY <1>5 DEF C!CallHistoryAssumption
  <2>2. recent' = SubSeq(all, a, Len(all))
    BY <1>3 DEF C!Remembered
  <2> HIDE DEF a
  <2>3. recent' \in Seq(ours)
    BY <1>5, <2>1, <2>2, PartOf
  <2>4. C!ToSet(recent)' = C!ToSet(SubSeq(all, a, Len(all)))
    BY <2>2 DEF C!ToSet
  <2>5. \A x \in C!ToSet(SubSeq(all, a, Len(all))) : \E i \in 1..Len(all) : x = all[i]
    BY <1>5, <2>1, PartOf
  <2>6. QED
    BY <1>5, <2>3, <2>4, <2>5, SeqOf
<1>7. CallTypes' /\ MessageOver'
  BY <1>1, <1>4, <1>6 DEF CallInv, CallTypes, MessageOver
<1>8. \A c \in Calls : /\ C!Listed("log", c)' <=> C!Listed("log", c) \/ c \in C!ToSet(new)
                       /\ C!Listed("message", c)' <=> C!Listed("message", c)
  BY <1>3 DEF C!Listed
<1>9. \A c \in Calls : (C!NearOne(c)' <=> C!NearOne(c)) /\ (C!FarOff(c)' <=> C!FarOff(c))
  BY <1>1, FarOffStays DEF C!NearOne
<1>10. CallKept'
  <2> SUFFICES ASSUME NEW c \in Calls
               PROVE  /\ C!Listed("log", c)' => c \in C!ToSet(recent)' \cup forgotten'
                      /\ c \in C!ToSet(recent)' => C!Listed("log", c)'
                      /\ C!Listed("message", c)' => c \in early' \cup forgotten'
                                                    \/ C!FarOff(c)'
                      /\ c \in dropped' => C!Listed("message", c)' \/ C!Listed("log", c)'
                                           \/ C!NearOne(c)'
    BY DEF CallKept
  <2>1. QED
    BY <1>1, <1>3, <1>5, <1>6, <1>8, <1>9 DEF CallInv, CallKept
<1>11. QED
  BY <1>7, <1>10 DEF CallInv

(* A line is added to one of the files, or a cursor moves.                  *)
LEMMA CallFiles ==
    ASSUME C!CallHistoryAssumption, CallInv,
           \/ C!Tick \/ C!RecvCursor \/ C!LogCursor
           \/ \E c \in Calls : C!EndCall(c) \/ C!LogCall(c) \/ C!Message(c)
    PROVE  CallInv'
<1> USE DEF C!calls, C!files
<1>1. CallKept'
  <2>1. UNCHANGED <<outbox, recent, forgotten, early, dropped, ours, peer>>
    BY DEF C!Tick, C!RecvCursor, C!LogCursor, C!EndCall, C!LogCall, C!Message
  <2>2. ASSUME NEW c \in Calls, C!FarOff(c) PROVE C!FarOff(c)'
    <3>1. PICK i \in 1..Len(recvOut) :
              /\ recvOut[i].call = c
              /\ recvOut[i].at > ended[c] + Window \/ ended[c] > recvOut[i].at + Window
      <4>1. recvOut \in Seq([call : Calls, at : Nat])
        BY DEF CallInv, CallTypes
      <4>2. \A x \in C!ToSet(recvOut) : \E i \in 1..Len(recvOut) : x = recvOut[i]
        BY <4>1, SeqOf
      <4>3. QED
        BY <2>2, <4>2 DEF C!FarOff
    <3>2. ended'[c] = ended[c]
      BY <3>1 DEF C!Tick, C!RecvCursor, C!LogCursor, C!EndCall, C!LogCall, C!Message, CallInv,
                  CallTypes, MessageOver
    <3>3. recvOut[i] \in C!ToSet(recvOut)'
      <4>1. recvOut \in Seq([call : Calls, at : Nat])
        BY DEF CallInv, CallTypes
      <4>2. CASE recvOut' = recvOut
        BY <4>1, <4>2, SeqOf DEF C!ToSet
      <4>3. ASSUME NEW m, recvOut' = Append(recvOut, m)
            PROVE  recvOut[i] \in C!ToSet(recvOut)'
        <5>1. i \in 1..Len(recvOut') /\ recvOut'[i] = recvOut[i]
          BY <4>1, <4>3
        <5>2. QED
          BY <5>1 DEF C!ToSet
      <4>4. QED
        BY <4>2, <4>3 DEF C!Tick, C!RecvCursor, C!LogCursor, C!EndCall, C!LogCall, C!Message
    <3>4. QED
      BY <3>1, <3>2, <3>3 DEF C!FarOff
  <2>3. QED
    BY <2>1, <2>2, CallKeptStays DEF CallInv
<1>2. CASE C!Tick \/ C!RecvCursor \/ C!LogCursor
  <2>1. /\ UNCHANGED <<ours, ended, callLog, recent, recvOut>> /\ now' \in Nat \ {0}
        /\ curLog' \in Nat /\ curRecv' \in Nat /\ pump'.size \in Nat
    BY <1>2 DEF C!Tick, C!RecvCursor, C!LogCursor, CallInv, CallTypes
  <2>2. CallTypes' /\ MessageOver'
    BY <2>1 DEF CallInv, CallTypes, MessageOver
  <2>3. QED
    BY <1>1, <2>2 DEF CallInv
<1>3. ASSUME NEW c \in Calls, C!EndCall(c) PROVE CallInv'
  <2>1. CallTypes'
    BY <1>3 DEF C!EndCall, CallInv, CallTypes
  <2>2. \A d \in Calls : ended[d] # 0 => ended'[d] = ended[d]
    BY <1>3 DEF C!EndCall, CallInv, CallTypes
  <2>3. \A i \in 1..Len(recvOut) : recvOut[i].call \in Calls
    BY MessageTyped
  <2>4. MessageOver'
    BY <1>3, <2>2, <2>3 DEF C!EndCall, CallInv, MessageOver
  <2>5. QED
    BY <1>1, <2>1, <2>4 DEF CallInv
<1>4. ASSUME NEW c \in Calls, C!LogCall(c) PROVE CallInv'
  BY <1>1, <1>4 DEF C!LogCall, CallInv, CallTypes, MessageOver
<1>5. ASSUME NEW c \in Calls, C!Message(c) PROVE CallInv'
  <2>1. PICK at \in 0..(ended[c] + Window + 1) :
            recvOut' = Append(recvOut, [call |-> c, at |-> at])
    BY <1>5 DEF C!Message
  <2>2. at \in Nat
    OBVIOUS
  <2>3. CallTypes'
    BY <1>5, <2>1, <2>2 DEF C!Message, CallInv, CallTypes
  <2>4. /\ Len(recvOut') = Len(recvOut) + 1
        /\ recvOut'[Len(recvOut) + 1] = [call |-> c, at |-> at]
        /\ \A i \in 1..Len(recvOut) : recvOut'[i] = recvOut[i]
    BY <2>1 DEF CallInv, CallTypes
  <2>5. UNCHANGED ended /\ ended[c] # 0 /\ Len(recvOut) \in Nat
    BY <1>5 DEF C!Message, CallInv, CallTypes
  <2>6. MessageOver'
    BY <2>4, <2>5 DEF CallInv, MessageOver
  <2>7. QED
    BY <1>1, <2>3, <2>6 DEF CallInv
<1>6. QED
  BY <1>2, <1>3, <1>4, <1>5

LEMMA CallRestart ==
    ASSUME CallInv, C!Restart
    PROVE  CallInv'
<1>1. /\ UNCHANGED <<now, peer, ours, ended, callLog, recvOut, outbox, dropped, early>>
      /\ curLog' \in Nat /\ curRecv' \in Nat /\ recent' = <<>> /\ pump'.size = 0
  BY DEF C!Restart, C!calls, CallInv, CallTypes
<1>2. CallTypes' /\ MessageOver'
  BY <1>1 DEF CallInv, CallTypes, MessageOver
<1>3. C!ToSet(recent)' = {} /\ forgotten' = forgotten \cup C!ToSet(recent)
  BY DEF C!Restart, C!ToSet
<1>4. CallKept'
  BY <1>1, <1>3, FarOffStays DEF CallInv, CallKept, C!Listed, C!NearOne
<1>5. QED
  BY <1>2, <1>4 DEF CallInv

LEMMA CallStep ==
    ASSUME C!CallHistoryAssumption, CallInv, [C!Next]_(C!vars)
    PROVE  CallInv'
<1>1. CASE UNCHANGED C!vars
  <2>1. UNCHANGED <<now, peer, ours, ended, callLog, recvOut, curLog, curRecv, recent, pump,
                    outbox, dropped, early, forgotten>>
    BY <1>1 DEF C!vars, C!calls, C!files
  <2>2. QED
    BY <2>1, CallKeptStays, FarOffStays DEF CallInv, CallTypes, MessageOver
<1>2. CASE C!Next
  BY <1>2, CallPumpRecv, CallPumpLog, CallFiles, CallRestart DEF C!Next
<1>3. QED
  BY <1>1, <1>2

LEMMA CallOnce ==
    ASSUME CallInv
    PROVE  C!CallListedOnce
BY DEF CallInv, CallKept, C!CallListedOnce

-----------------------------------------------------------------------------
(* Who is hidden *)

HiddenTypes ==
    /\ hidden \subseteq Mids /\ dumped \subseteq Mids /\ file \subseteq Mids
    /\ dump \in [phase : {"idle", "asked", "answered"}, seen : SUBSET Mids, round : BOOLEAN]
    /\ dump.phase = "idle" => dump = H!NoDump
    /\ job \in [who : SUBSET Mids, hide : BOOLEAN]
    /\ pending \in BOOLEAN /\ met \in BOOLEAN /\ old \in BOOLEAN /\ failures \in Nat

(* Nothing went wrong: then a dump and a job are never under way at once,   *)
(* and what is written last, be it by the job or by the dump, is so at LINE *)
(* unless an operation is pending, whose dump writes later.                 *)
HiddenCurrent ==
    \/ met \/ old \/ failures > 0
    \/ /\ dump # H!NoDump => job = H!NoJob
       /\ dump = H!NoDump /\ ~pending => H!Updated = hidden
       /\ dump.phase = "answered" /\ ~pending => dump.seen = hidden

HiddenInv == HiddenTypes /\ HiddenCurrent

LEMMA HiddenInit ==
    ASSUME H!Init
    PROVE  HiddenInv
BY DEF H!Init, HiddenInv, HiddenTypes, HiddenCurrent, H!NoDump, H!NoJob, H!Updated

LEMMA HiddenStepTypes ==
    ASSUME HiddenTypes, H!Next
    PROVE  HiddenTypes'
<1> USE DEF HiddenTypes, H!NoDump, H!NoJob, H!counters
<1>1. ASSUME NEW m \in Mids, H!OtherDevice(m) PROVE HiddenTypes'
  BY <1>1 DEF H!OtherDevice, H!Toggled
<1>2. ASSUME NEW m \in Mids, H!HideAtLine(m) PROVE HiddenTypes'
  BY <1>2 DEF H!HideAtLine, H!Toggled
<1>3. CASE H!Round
  BY <1>3 DEF H!Round
<1>4. CASE H!DumpAnswered
  BY <1>4 DEF H!DumpAnswered
<1>5. CASE H!DumpWritten
  BY <1>5 DEF H!DumpWritten
<1>6. CASE H!DumpFails
  BY <1>6 DEF H!DumpFails
<1>7. CASE H!HideReturns
  BY <1>7 DEF H!HideReturns, H!Updated
<1>8. CASE H!Restart
  <2>1. pending' \in BOOLEAN /\ old' \in BOOLEAN
    BY <1>8, Zenon DEF H!Restart
  <2>2. dump' \in [phase : {"idle", "asked", "answered"}, seen : SUBSET Mids, round : BOOLEAN]
        /\ (dump'.phase = "idle" => dump' = H!NoDump)
    <3>1. CASE dump' = H!NoDump
      BY <3>1
    <3>2. CASE dump' = [H!NoDump EXCEPT !.phase = "asked"]
      <4>1. dump' = [phase |-> "asked", seen |-> {}, round |-> FALSE]
        BY <3>2
      <4>2. dump'.phase = "asked"
        BY <4>1
      <4>3. QED
        BY <4>1, <4>2
    <3>3. QED
      BY <1>8, <3>1, <3>2, Zenon DEF H!Restart
  <2>3. QED
    BY <1>8, <2>1, <2>2 DEF H!Restart
<1>9. CASE H!AnswerLost
  BY <1>9 DEF H!AnswerLost
<1>10. QED
  BY <1>1, <1>2, <1>3, <1>4, <1>5, <1>6, <1>7, <1>8, <1>9 DEF H!Next

LEMMA HiddenStepCurrent ==
    ASSUME HiddenInv, H!Next
    PROVE  HiddenCurrent'
<1> USE DEF HiddenInv, HiddenTypes, HiddenCurrent, H!NoDump, H!NoJob, H!Updated, H!counters
<1>1. ASSUME NEW m \in Mids, H!OtherDevice(m) PROVE HiddenCurrent'
  BY <1>1 DEF H!OtherDevice
<1>2. ASSUME NEW m \in Mids, H!HideAtLine(m) PROVE HiddenCurrent'
  <2>1. CASE dump # H!NoDump
    BY <1>2, <2>1 DEF H!HideAtLine
  <2>2. CASE dump = H!NoDump /\ ~(met \/ old \/ failures > 0)
    <3>1. ~pending' => file = hidden
      BY <1>2, <2>2 DEF H!HideAtLine
    <3>2. ~pending' => H!Updated' = hidden'
      BY <1>2, <2>2, <3>1 DEF H!HideAtLine, H!Toggled
    <3>3. dump' = H!NoDump
      BY <1>2, <2>2 DEF H!HideAtLine
    <3>4. QED
      BY <3>2, <3>3
  <2>3. QED
    BY <1>2, <2>1, <2>2 DEF H!HideAtLine
<1>3. CASE H!Round
  BY <1>3 DEF H!Round
<1>4. CASE H!DumpAnswered
  <2>1. dump'.phase = "answered" /\ dump'.seen = hidden /\ dump # H!NoDump
    BY <1>4 DEF H!DumpAnswered
  <2>2. UNCHANGED <<hidden, pending, job, met, old, failures>>
    BY <1>4 DEF H!DumpAnswered
  <2>3. dump' # H!NoDump
    BY <2>1
  <2>4. QED
    BY <2>1, <2>2, <2>3
<1>5. CASE H!DumpWritten
  BY <1>5 DEF H!DumpWritten
<1>6. CASE H!DumpFails
  BY <1>6 DEF H!DumpFails
<1>7. CASE H!HideReturns
  BY <1>7 DEF H!HideReturns
<1>8. CASE H!Restart
  <2>1. job' = H!NoJob /\ UNCHANGED <<hidden, met, failures>>
    BY <1>8 DEF H!Restart
  <2>2. CASE dump' = [H!NoDump EXCEPT !.phase = "asked"] /\ UNCHANGED <<file, old>>
    <3>1. dump' # H!NoDump /\ dump'.phase = "asked"
      BY <2>2
    <3>2. QED
      BY <2>1, <2>2, <3>1
  <2>3. CASE dump' = H!NoDump /\ file' = dumped /\ old' = (old \/ dumped # hidden)
    <3>1. dump'.phase = "idle" /\ H!Updated' = dumped
      BY <2>1, <2>3
    <3>2. QED
      BY <2>1, <2>3, <3>1
  <2>4. QED
    BY <1>8, <2>2, <2>3 DEF H!Restart
<1>9. CASE H!AnswerLost
  BY <1>9 DEF H!AnswerLost
<1>10. QED
  BY <1>1, <1>2, <1>3, <1>4, <1>5, <1>6, <1>7, <1>8, <1>9 DEF H!Next

LEMMA HiddenStep ==
    ASSUME HiddenInv, [H!Next]_(H!vars)
    PROVE  HiddenInv'
<1>1. CASE UNCHANGED H!vars
  BY <1>1 DEF H!vars, H!counters, HiddenInv, HiddenTypes, HiddenCurrent, H!Updated
<1>2. CASE H!Next
  BY <1>2, HiddenStepTypes, HiddenStepCurrent DEF HiddenInv
<1>3. QED
  BY <1>1, <1>2

LEMMA HiddenFile ==
    ASSUME HiddenInv
    PROVE  H!FileIsCurrent
BY DEF HiddenInv, HiddenTypes, HiddenCurrent, H!FileIsCurrent, H!Updated, H!NoJob

-----------------------------------------------------------------------------
(* Who is blocked *)

Refreshes == B!Refresh
BlockOps  == [op : {6, 7}, mid : Mids]

BlockTypes ==
    /\ status \in [Mids -> B!ContactStates] /\ log \in Seq(BlockOps)
    /\ rev \in 0..Len(log) /\ savedRev \in 0..rev
    /\ recv \in Refreshes /\ recv.phase # "called"
    /\ send \in Refreshes /\ send.phase \notin {"forward", "save"}
    /\ starting => recv.phase \in {"asked", "answered"}
    /\ file \subseteq Mids /\ outbox \in Seq(1..Len(log))
    /\ jobs \in Nat /\ failures \in Nat

(* What a refresh that just read the file is, and one LINE answered.        *)
Starts(r, cand, list) ==
    /\ r \in Refreshes /\ r.phase = "asked" /\ r.cand = cand /\ r.prev = list
Answers(r, asked) ==
    /\ r \in Refreshes /\ r.phase = "answered"
    /\ r.cand = asked.cand /\ r.prev = asked.prev /\ r.ops = asked.ops
AnswersWell(r) == \A m \in r.cand \cup r.prev : r.seen[m] = status[m]

LEMMA IdleIs == B!Idle \in Refreshes /\ B!Idle.phase = "idle"
BY DEF B!Idle, Refreshes, B!Refresh

LEMMA StartedIs ==
    ASSUME NEW cand \in SUBSET Mids, NEW on \in SUBSET Mids, NEW off \in SUBSET Mids,
           NEW q \in Seq(Nat), file \subseteq Mids
    PROVE  /\ Starts(B!Started(cand, on, off, q), cand, file)
           /\ B!Started(cand, on, off, q).ops = q
<1> DEFINE r == B!Started(cand, on, off, q)
<1>1. r = [B!Idle EXCEPT !.phase = "asked", !.cand = cand, !.block = on, !.unblock = off,
                         !.prev = file, !.ops = q]
  BY DEF B!Started
<1>2. /\ r.phase = "asked" /\ r.cand = cand /\ r.block = on /\ r.unblock = off
      /\ r.prev = file /\ r.ops = q
  BY <1>1 DEF B!Idle
<1>3. r = [phase |-> "asked", cand |-> cand, block |-> on, unblock |-> off, prev |-> file,
           seen |-> [m \in Mids |-> "unknown"], result |-> {}, ops |-> q]
  BY <1>1 DEF B!Idle
<1>4. r \in Refreshes
  BY <1>3 DEF Refreshes, B!Refresh
<1> HIDE DEF r
<1>5. QED
  BY <1>2, <1>4 DEF r, Starts

LEMMA AnsweredIs ==
    ASSUME BlockTypes, NEW r \in Refreshes, NEW failed \in BOOLEAN
    PROVE  /\ Answers(B!Answered(r, failed), r)
           /\ ~failed => AnswersWell(B!Answered(r, failed))
<1> DEFINE f == [m \in Mids |-> IF m \in B!Targets(r) /\ ~failed THEN status[m] ELSE "unknown"]
           a == [r EXCEPT !.phase = "answered", !.seen = f]
<1>1. f \in [Mids -> B!ContactStates \cup {"unknown"}]
  BY DEF BlockTypes
<1>2. a = B!Answered(r, failed)
  BY DEF B!Answered
<1>3. \A m \in r.cand \cup r.prev : ~failed => f[m] = status[m]
  BY DEF Refreshes, B!Refresh, B!Targets
<1> HIDE DEF f
<1>4. /\ a.phase = "answered" /\ a.cand = r.cand /\ a.prev = r.prev /\ a.ops = r.ops
      /\ a.seen = f /\ a \in Refreshes
  BY <1>1 DEF Refreshes, B!Refresh
<1> HIDE DEF a
<1>5. QED
  BY <1>2, <1>3, <1>4 DEF Answers, AnswersWell

(* The effects of the actions on the refreshes.                             *)
LEMMA SyncRoundIs ==
    ASSUME BlockTypes, B!SyncRound
    PROVE  \E n \in (rev + 1)..Len(log) :
              /\ rev' = n /\ Starts(recv', recv'.cand, file)
              /\ recv'.ops = [i \in 1..(n - rev) |-> rev + i]
              /\ \A k \in (rev + 1)..n : log[k].mid \in recv'.cand
<1>1. PICK n \in (rev + 1)..Len(log) :
          /\ rev' = n
          /\ recv' = LET q == [i \in 1..(n - rev) |-> rev + i]
                     IN  B!Started({log[k].mid : k \in B!ToSet(q)}, B!LastIs(6, q), B!LastIs(7, q), q)
  BY DEF B!SyncRound
<1> DEFINE q == [i \in 1..(n - rev) |-> rev + i]
           cand == {log[k].mid : k \in B!ToSet(q)}
<1>2. rev \in Nat /\ n \in Nat /\ n >= rev + 1 /\ n <= Len(log)
  BY DEF BlockTypes
<1>3. q \in Seq(Nat) /\ DOMAIN q = 1..(n - rev)
  BY <1>2
<1>4. B!ToSet(q) = (rev + 1)..n
  <2>1. \A k \in (rev + 1)..n : k - rev \in 1..(n - rev) /\ q[k - rev] = k
    BY <1>2
  <2>2. \A i \in 1..(n - rev) : q[i] \in (rev + 1)..n
    BY <1>2
  <2> HIDE DEF q
  <2>3. QED
    BY <1>3, <2>1, <2>2 DEF B!ToSet
<1>5. \A k \in 1..Len(log) : log[k].mid \in Mids
  <2>1. \A k \in 1..Len(log) : log[k] \in BlockOps
    BY DEF BlockTypes
  <2>2. QED
    BY <2>1 DEF BlockOps
<1>6. cand \in SUBSET Mids /\ \A k \in (rev + 1)..n : log[k].mid \in cand
  <2>1. \A k \in (rev + 1)..n : k \in 1..Len(log)
    BY <1>2
  <2> HIDE DEF q
  <2>2. QED
    BY <1>4, <1>5, <2>1
<1>7. B!LastIs(6, q) \in SUBSET Mids /\ B!LastIs(7, q) \in SUBSET Mids
  BY DEF B!LastIs
<1>8. recv' = B!Started(cand, B!LastIs(6, q), B!LastIs(7, q), q)
  BY <1>1
<1>9. file \subseteq Mids
  BY DEF BlockTypes
<1> HIDE DEF q, cand
<1>10. Starts(recv', cand, file) /\ recv'.ops = q
  BY <1>3, <1>6, <1>7, <1>8, <1>9, StartedIs
<1>11. recv'.cand = cand
  BY <1>10 DEF Starts
<1>12. QED
  BY <1>1, <1>6, <1>10, <1>11 DEF q

LEMMA CallReturnsIs ==
    ASSUME BlockTypes, B!CallReturns
    PROVE  Starts(send', send.cand, file)
<1>1. /\ send.cand \in SUBSET Mids /\ send.block \in SUBSET Mids
      /\ send.unblock \in SUBSET Mids /\ file \subseteq Mids
  BY DEF BlockTypes, Refreshes, B!Refresh
<1>2. <<>> \in Seq(Nat) /\ send' = B!Started(send.cand, send.block, send.unblock, <<>>)
  BY DEF B!CallReturns
<1>3. QED
  BY <1>1, <1>2, StartedIs

LEMMA RestartIs ==
    ASSUME BlockTypes, B!Restart
    PROVE  Starts(recv', {m \in Mids : status[m] = "blocked"}, file) /\ send' = B!Idle
<1> DEFINE cand == {m \in Mids : status[m] = "blocked"}
<1>1. cand \in SUBSET Mids /\ <<>> \in Seq(Nat) /\ file \subseteq Mids
  BY DEF BlockTypes
<1>2. recv' = B!Started(cand, {}, {}, <<>>) /\ send' = B!Idle
  BY DEF B!Restart
<1> HIDE DEF cand
<1>3. \A none \in SUBSET Mids : none = {} => Starts(B!Started(cand, none, none, <<>>), cand, file)
  BY <1>1, StartedIs
<1>4. Starts(B!Started(cand, {}, {}, <<>>), cand, file)
  BY <1>3
<1>5. QED
  BY <1>2, <1>4 DEF cand

LEMMA CallLineIs ==
    ASSUME BlockTypes, NEW m \in Mids, B!CallLine(m)
    PROVE  \E n \in {6, 7} :
              /\ send' \in Refreshes /\ send'.phase = "called" /\ send'.cand = {m}
              /\ status' = [status EXCEPT ![m] = IF n = 6 THEN "blocked" ELSE "free"]
              /\ log' = log \/ log' = Append(log, B!Operation(n, m))
<1>1. PICK n \in {6, 7}, echo \in BOOLEAN :
         /\ status' = [status EXCEPT ![m] = IF n = 6 THEN "blocked" ELSE "free"]
         /\ log' = IF echo /\ Len(log) < MaxOps THEN Append(log, B!Operation(n, m)) ELSE log
         /\ send' = [B!Idle EXCEPT !.phase = "called", !.cand = {m},
                                   !.block = IF n = 6 THEN {m} ELSE {},
                                   !.unblock = IF n = 7 THEN {m} ELSE {}]
  BY DEF B!CallLine
<1>2. send'.phase = "called" /\ send'.cand = {m}
  BY <1>1 DEF B!Idle
<1>3. send' \in Refreshes
  <2>1. PICK on \in SUBSET Mids, off \in SUBSET Mids :
            send' = [phase |-> "called", cand |-> {m}, block |-> on, unblock |-> off,
                     prev |-> {}, seen |-> [a \in Mids |-> "unknown"], result |-> {},
                     ops |-> <<>>]
    <3> DEFINE on == IF n = 6 THEN {m} ELSE {}
               off == IF n = 7 THEN {m} ELSE {}
    <3>1. on \in SUBSET Mids /\ off \in SUBSET Mids
      OBVIOUS
    <3>2. send' = [phase |-> "called", cand |-> {m}, block |-> on, unblock |-> off,
                   prev |-> {}, seen |-> [a \in Mids |-> "unknown"], result |-> {},
                   ops |-> <<>>]
      BY <1>1 DEF B!Idle
    <3> HIDE DEF on, off
    <3>3. QED
      BY <3>1, <3>2
  <2>2. QED
    BY <2>1 DEF Refreshes, B!Refresh
<1>4. QED
  BY <1>1, <1>2, <1>3

(* LINE answers one of the two.                                             *)
LEMMA GetContactsIs ==
    ASSUME BlockTypes, B!GetContacts
    PROVE  \/ /\ recv.phase = "asked" /\ send' = send /\ Answers(recv', recv)
              /\ failures' = failures => AnswersWell(recv')
           \/ /\ send.phase = "asked" /\ recv' = recv /\ Answers(send', send)
              /\ failures' = failures => AnswersWell(send')
<1>1. PICK failed \in BOOLEAN :
         /\ failures' = IF failed THEN failures + 1 ELSE failures
         /\ \/ recv.phase = "asked" /\ recv' = B!Answered(recv, failed) /\ send' = send
            \/ send.phase = "asked" /\ send' = B!Answered(send, failed) /\ recv' = recv
  BY DEF B!GetContacts
<1>2. failures' = failures => ~failed
  BY <1>1 DEF BlockTypes
<1>3. recv \in Refreshes /\ send \in Refreshes
  BY DEF BlockTypes
<1>4. CASE recv.phase = "asked" /\ recv' = B!Answered(recv, failed) /\ send' = send
  BY <1>2, <1>3, <1>4, AnsweredIs
<1>5. CASE send.phase = "asked" /\ send' = B!Answered(send, failed) /\ recv' = recv
  BY <1>2, <1>3, <1>5, AnsweredIs
<1>6. QED
  BY <1>1, <1>4, <1>5

(* Every nonempty set of numbers has a least one, so one with 0 and every    *)
(* successor holds all numbers.                                              *)
LEMMA CountUp ==
    ASSUME NEW E, 0 \in E, \A n \in Nat : n \in E => n + 1 \in E
    PROVE  \A n \in Nat : n \in E
<1> DEFINE T == {n \in Nat : n \notin E}
<1>1. SUFFICES ASSUME T # {} PROVE FALSE
  OBVIOUS
<1>2. PICK n \in T : \A m \in T : ~(<<m, n>> \in OpToRel(<, Nat))
  BY <1>1, WFMin, NatLessThanWellFounded
<1>3. n - 1 \in Nat /\ n - 1 < n /\ (n - 1) + 1 = n
  OBVIOUS
<1>4. n - 1 \in E
  <2>1. CASE n - 1 \in T
    BY <1>2, <1>3, <2>1 DEF OpToRel
  <2>2. QED
    BY <1>3, <2>1
<1>5. QED
  BY <1>3, <1>4

(* One step of the recursion in Forwarded.                                   *)
Forwarding(r, box, n) ==
    IF n = 0 THEN outbox
    ELSE IF B!Passes(r, r.ops[n]) /\ ~B!Contains(box[n - 1], r.ops[n])
         THEN Append(box[n - 1], r.ops[n])
         ELSE box[n - 1]

(* The recursion has a solution.                                             *)
LEMMA ForwardingExists ==
    ASSUME NEW r, NEW d \in Nat
    PROVE  \E f : f = [n \in 0..d |-> Forwarding(r, f, n)]
<1> DEFINE E == {m \in Nat : m <= d => \E f : f = [n \in 0..m |-> Forwarding(r, f, n)]}
<1>1. 0 \in E
  <2> DEFINE f == [n \in 0..0 |-> outbox]
  <2>1. f = [n \in 0..0 |-> Forwarding(r, f, n)]
    BY DEF Forwarding
  <2>2. QED
    BY <2>1
<1>2. ASSUME NEW m \in Nat, m \in E PROVE m + 1 \in E
  <2>1. SUFFICES ASSUME m + 1 <= d
                 PROVE  \E f : f = [n \in 0..(m + 1) |-> Forwarding(r, f, n)]
    OBVIOUS
  <2>2. PICK f : f = [n \in 0..m |-> Forwarding(r, f, n)]
    BY <1>2, <2>1
  <2> DEFINE g == [n \in 0..(m + 1) |-> IF n = m + 1 THEN Forwarding(r, f, n) ELSE f[n]]
  <2>3. ASSUME NEW n \in 0..(m + 1) PROVE g[n] = Forwarding(r, g, n)
    <3>1. g[n] = Forwarding(r, f, n)
      BY <2>2
    <3>2. CASE n = 0
      BY <3>1, <3>2 DEF Forwarding
    <3>3. CASE n # 0
      <4>1. n - 1 \in 0..m /\ n - 1 # m + 1 /\ n - 1 \in 0..(m + 1)
        BY <3>3
      <4>2. g[n - 1] = f[n - 1]
        BY <4>1
      <4>3. QED
        BY <3>1, <4>2 DEF Forwarding
    <3>4. QED
      BY <3>2, <3>3
  <2>4. g = [n \in 0..(m + 1) |-> Forwarding(r, g, n)]
    BY <2>3
  <2>5. QED
    BY <2>4
<1> HIDE DEF E
<1>3. d \in E
  BY <1>1, <1>2, CountUp
<1>4. QED
  BY <1>3 DEF E

(* What box is after the first n of the operations that follow revision lo:  *)
(* the outbox and, in their order, those that pass and were not in it.       *)
Forwards(lo, n, box) ==
    /\ box \in Seq(1..Len(log)) /\ Len(outbox) <= Len(box)
    /\ \A i \in 1..Len(outbox) : box[i] = outbox[i]
    /\ \A i \in (Len(outbox) + 1)..Len(box) :
          /\ box[i] \in (lo + 1)..(lo + n) /\ B!Passes(recv, box[i])
          /\ \A j \in 1..Len(outbox) : outbox[j] # box[i]
          /\ \A j \in (Len(outbox) + 1)..(i - 1) : box[j] < box[i]
    /\ \A k \in (lo + 1)..(lo + n) :
          B!Passes(recv, k) => \E i \in 1..Len(box) : box[i] = k

(* One operation more.                                                       *)
LEMMA ForwardOne ==
    ASSUME outbox \in Seq(1..Len(log)), log \in Seq(BlockOps), NEW lo \in Nat, NEW n \in Nat,
           lo + n + 1 <= Len(log), NEW box, Forwards(lo, n, box)
    PROVE  Forwards(lo, n + 1, IF B!Passes(recv, lo + n + 1) /\ ~B!Contains(box, lo + n + 1)
                               THEN Append(box, lo + n + 1) ELSE box)
<1> DEFINE u == lo + n + 1
<1>1. /\ u \in 1..Len(log) /\ u \in Nat /\ Len(log) \in Nat
      /\ box \in Seq(1..Len(log)) /\ Len(box) \in Nat /\ Len(outbox) \in Nat
      /\ Len(outbox) <= Len(box)
  BY DEF Forwards
<1>2. \A k \in (lo + 1)..(lo + (n + 1)) : k \in (lo + 1)..(lo + n) \/ k = u
  OBVIOUS
<1>3. \A k \in (lo + 1)..(lo + n) : k \in (lo + 1)..(lo + (n + 1)) /\ k < u
  OBVIOUS
<1>4. \A x : B!Contains(box, x) <=> \E i \in 1..Len(box) : box[i] = x
  BY <1>1 DEF B!Contains
<1>5. CASE ~B!Passes(recv, u) \/ B!Contains(box, u)
  <2>1. \A k \in (lo + 1)..(lo + (n + 1)) :
            B!Passes(recv, k) => \E i \in 1..Len(box) : box[i] = k
    BY <1>2, <1>4, <1>5 DEF Forwards
  <2> HIDE DEF u
  <2>2. Forwards(lo, n + 1, box)
    BY <1>3, <2>1 DEF Forwards
  <2>3. QED
    BY <1>5, <2>2 DEF u
<1>6. CASE B!Passes(recv, u) /\ ~B!Contains(box, u)
  <2> DEFINE t == Append(box, u)
  <2>1. /\ t \in Seq(1..Len(log)) /\ Len(t) = Len(box) + 1 /\ t[Len(box) + 1] = u
        /\ \A i \in 1..Len(box) : t[i] = box[i]
    BY <1>1
  <2> HIDE DEF t, u
  <2>2. Len(outbox) <= Len(t) /\ \A i \in 1..Len(outbox) : t[i] = outbox[i]
    <3>1. \A i \in 1..Len(outbox) : i \in 1..Len(box)
      BY <1>1
    <3>2. QED
      BY <1>1, <2>1, <3>1 DEF Forwards
  <2>3. ASSUME NEW i \in (Len(outbox) + 1)..Len(t)
        PROVE  /\ t[i] \in (lo + 1)..(lo + (n + 1)) /\ B!Passes(recv, t[i])
               /\ \A j \in 1..Len(outbox) : outbox[j] # t[i]
               /\ \A j \in (Len(outbox) + 1)..(i - 1) : t[j] < t[i]
    <3>1. \A j \in (Len(outbox) + 1)..Len(box) : j \in 1..Len(box)
      BY <1>1
    <3>2. CASE i = Len(t)
      <4>1. t[i] = u /\ u \in (lo + 1)..(lo + (n + 1))
        BY <2>1, <3>2, <1>1 DEF u
      <4>2. \A j \in 1..Len(outbox) : outbox[j] # u
        <5>1. \A j \in 1..Len(outbox) : j \in 1..Len(box) /\ box[j] = outbox[j]
          BY <1>1 DEF Forwards
        <5>2. QED
          BY <1>4, <1>6, <5>1
      <4>3. \A j \in (Len(outbox) + 1)..(i - 1) : j \in (Len(outbox) + 1)..Len(box)
        BY <1>1, <2>1, <3>2
      <4>4. \A j \in (Len(outbox) + 1)..Len(box) : box[j] < u
        BY <1>3 DEF Forwards
      <4>5. QED
        BY <1>6, <2>1, <3>1, <4>1, <4>2, <4>3, <4>4
    <3>3. CASE i # Len(t)
      <4>1. i \in (Len(outbox) + 1)..Len(box)
        BY <1>1, <2>1, <3>3
      <4>2. t[i] = box[i]
        BY <2>1, <3>1, <4>1
      <4>3. \A j \in (Len(outbox) + 1)..(i - 1) : t[j] = box[j]
        <5>1. \A j \in (Len(outbox) + 1)..(i - 1) : j \in (Len(outbox) + 1)..Len(box)
          BY <1>1, <4>1
        <5>2. QED
          BY <2>1, <3>1, <5>1
      <4>4. QED
        BY <1>3, <4>1, <4>2, <4>3 DEF Forwards
    <3>4. QED
      BY <3>2, <3>3
  <2>4. ASSUME NEW k \in (lo + 1)..(lo + (n + 1)), B!Passes(recv, k)
        PROVE  \E i \in 1..Len(t) : t[i] = k
    <3>1. CASE k = u
      <4>1. Len(box) + 1 \in 1..Len(t)
        BY <1>1, <2>1
      <4>2. QED
        BY <2>1, <3>1, <4>1
    <3>2. CASE k # u
      <4>1. PICK i \in 1..Len(box) : box[i] = k
        BY <1>2, <2>4, <3>2 DEF Forwards, u
      <4>2. i \in 1..Len(t) /\ t[i] = k
        BY <1>1, <2>1, <4>1
      <4>3. QED
        BY <4>2
    <3>3. QED
      BY <3>1, <3>2
  <2>5. Forwards(lo, n + 1, t)
    BY <2>1, <2>2, <2>3, <2>4 DEF Forwards
  <2>6. QED
    BY <1>6, <2>5 DEF t, u
<1>7. QED
  BY <1>5, <1>6

(* All of them.                                                              *)
LEMMA ForwardAll ==
    ASSUME outbox \in Seq(1..Len(log)), log \in Seq(BlockOps), NEW lo \in Nat, NEW d \in Nat,
           lo + d <= Len(log), recv.ops = [i \in 1..d |-> lo + i]
    PROVE  Forwards(lo, d, B!Forwarded(recv))
<1> DEFINE box == CHOOSE f : f = [n \in 0..d |-> Forwarding(recv, f, n)]
<1>1. box = [n \in 0..d |-> Forwarding(recv, box, n)]
  BY ForwardingExists
<1>2. Len(recv.ops) = d /\ \A n \in 1..d : recv.ops[n] = lo + n
  OBVIOUS
<1>3. B!Forwarded(recv) = box[d]
  BY <1>2 DEF B!Forwarded, Forwarding
<1> DEFINE E == {n \in Nat : n <= d => Forwards(lo, n, box[n])}
<1> HIDE DEF box
<1>4. 0 \in E
  <2>1. box[0] = outbox
    BY <1>1 DEF Forwarding
  <2>2. Forwards(lo, 0, outbox)
    BY DEF Forwards
  <2>3. QED
    BY <2>1, <2>2
<1>5. ASSUME NEW n \in Nat, n \in E PROVE n + 1 \in E
  <2> SUFFICES ASSUME n + 1 <= d PROVE Forwards(lo, n + 1, box[n + 1])
    OBVIOUS
  <2>1. n + 1 \in 0..d /\ n + 1 \in 1..d /\ n + 1 # 0 /\ (n + 1) - 1 = n /\ lo + n + 1 <= Len(log)
    OBVIOUS
  <2>2. recv.ops[n + 1] = lo + n + 1
    BY <1>2, <2>1
  <2>3. box[n + 1] = IF B!Passes(recv, lo + n + 1) /\ ~B!Contains(box[n], lo + n + 1)
                     THEN Append(box[n], lo + n + 1) ELSE box[n]
    <3>1. box[n + 1] = Forwarding(recv, box, n + 1)
      BY <1>1, <2>1
    <3>2. box[(n + 1) - 1] = box[n]
      BY <2>1
    <3> HIDE DEF E
    <3>3. QED
      BY <2>1, <2>2, <3>1, <3>2 DEF Forwarding
  <2>4. Forwards(lo, n, box[n])
    BY <1>5
  <2>5. QED
    BY <2>1, <2>3, <2>4, ForwardOne
<1> HIDE DEF E
<1>6. d \in E
  BY <1>4, <1>5, CountUp
<1>7. QED
  BY <1>3, <1>6 DEF E

(* The revision saved is the one the loop is at but for the round under way, *)
(* whose operations are those between.                                       *)
InRound == recv.phase # "idle" /\ ~starting
BlockRound ==
    /\ ~InRound => savedRev = rev
    /\ InRound => /\ recv.ops = [i \in 1..(rev - savedRev) |-> savedRev + i]
                  /\ \A k \in (savedRev + 1)..rev : log[k].mid \in recv.cand

(* What the outbox becomes when the operations of a round are passed on.     *)
LEMMA ForwardIs ==
    ASSUME BlockTypes, BlockRound, B!Forward
    PROVE  Forwards(savedRev, rev - savedRev, outbox')
<1>1. InRound
  BY DEF B!Forward, InRound, BlockTypes
<1>2. recv.ops = [i \in 1..(rev - savedRev) |-> savedRev + i]
  BY <1>1 DEF BlockRound
<1>3. /\ savedRev \in Nat /\ rev - savedRev \in Nat /\ savedRev + (rev - savedRev) <= Len(log)
      /\ outbox \in Seq(1..Len(log)) /\ log \in Seq(BlockOps)
  BY DEF BlockTypes
<1>4. Forwards(savedRev, rev - savedRev, B!Forwarded(recv))
  BY <1>2, <1>3, ForwardAll
<1>5. QED
  BY <1>4 DEF B!Forward

(* The log gets one operation more at most.                                  *)
LogGrows(n, m) == log' = log \/ log' = Append(log, B!Operation(n, m))

LEMMA LogGrew ==
    ASSUME BlockTypes, NEW n \in {6, 7}, NEW m \in Mids, LogGrows(n, m)
    PROVE  /\ log' \in Seq(BlockOps) /\ Len(log) <= Len(log') /\ Len(log') \in Nat
           /\ Len(log) \in Nat
           /\ \A k \in 1..Len(log) : log'[k] = log[k]
           /\ rev \in 0..Len(log') /\ outbox \in Seq(1..Len(log'))
<1>1. log \in Seq(BlockOps) /\ B!Operation(n, m) \in BlockOps
  BY DEF BlockTypes, BlockOps, B!Operation
<1>2. /\ log' \in Seq(BlockOps) /\ Len(log) <= Len(log') /\ Len(log') \in Nat
      /\ Len(log) \in Nat /\ \A k \in 1..Len(log) : log'[k] = log[k]
  BY <1>1 DEF LogGrows
<1>3. rev \in 0..Len(log') /\ outbox \in Seq(1..Len(log'))
  <2>1. 1..Len(log) \subseteq 1..Len(log')
    BY <1>2
  <2>2. outbox \in Seq(1..Len(log))
    BY DEF BlockTypes
  <2>3. \A D, E : D \subseteq E => \A q \in Seq(D) : q \in Seq(E)
    OBVIOUS
  <2>4. outbox \in Seq(1..Len(log'))
    BY <2>1, <2>2, <2>3
  <2>5. QED
    BY <1>2, <2>4 DEF BlockTypes
<1>4. QED
  BY <1>2, <1>3

LEMMA OtherDeviceIs ==
    ASSUME BlockTypes, NEW m \in Mids, B!OtherDevice(m)
    PROVE  \E n \in {6, 7} :
              /\ log' = Append(log, B!Operation(n, m))
              /\ n = 6 => status[m] = "free"
              /\ n = 7 => status[m] # "free"
              /\ \E s \in B!ContactStates : status' = [status EXCEPT ![m] = s] /\ (n = 7 => s = "free")
BY DEF B!OtherDevice, B!ContactStates

LEMMA BlockStepTypes ==
    ASSUME BlockTypes, BlockRound, B!Next
    PROVE  BlockTypes'
<1> USE DEF B!countVars
<1>1. ASSUME NEW m \in Mids, B!OtherDevice(m) PROVE BlockTypes'
  <2>1. PICK n \in {6, 7} : /\ log' = Append(log, B!Operation(n, m))
                            /\ \E s \in B!ContactStates : status' = [status EXCEPT ![m] = s]
    BY <1>1, OtherDeviceIs
  <2>2. LogGrows(n, m)
    BY <2>1 DEF LogGrows
  <2>3. status' \in [Mids -> B!ContactStates]
    BY <2>1 DEF BlockTypes
  <2>4. QED
    BY <1>1, <2>2, <2>3, LogGrew DEF B!OtherDevice, BlockTypes
<1>2. ASSUME NEW m \in Mids, B!CallLine(m) PROVE BlockTypes'
  <2>1. PICK n \in {6, 7} :
              /\ send' \in Refreshes /\ send'.phase = "called" /\ send'.cand = {m}
              /\ status' = [status EXCEPT ![m] = IF n = 6 THEN "blocked" ELSE "free"]
              /\ LogGrows(n, m)
    BY <1>2, CallLineIs DEF LogGrows
  <2>2. status' \in [Mids -> B!ContactStates]
    BY <2>1 DEF BlockTypes, B!ContactStates
  <2>3. QED
    BY <1>2, <2>1, <2>2, LogGrew DEF B!CallLine, BlockTypes
<1>3. CASE B!SyncRound
  <2>1. PICK n \in (rev + 1)..Len(log) : rev' = n /\ Starts(recv', recv'.cand, file)
    BY <1>3, SyncRoundIs
  <2>2. rev' \in 0..Len(log) /\ savedRev \in 0..rev'
    BY <2>1 DEF BlockTypes
  <2>3. QED
    BY <1>3, <2>1, <2>2 DEF B!SyncRound, BlockTypes, Starts
<1>4. CASE B!CallReturns
  BY <1>4, CallReturnsIs DEF B!CallReturns, BlockTypes, Starts
<1>5. CASE B!GetContacts
  <2>1. failures' \in Nat
    BY <1>5 DEF B!GetContacts, BlockTypes
  <2>2. recv' \in Refreshes /\ recv'.phase # "called"
        /\ send' \in Refreshes /\ send'.phase \notin {"forward", "save"}
        /\ (recv'.phase = recv.phase \/ recv'.phase = "answered")
    BY <1>5, GetContactsIs DEF BlockTypes, Answers
  <2>3. QED
    BY <1>5, <2>1, <2>2 DEF B!GetContacts, BlockTypes
<1>6. CASE B!WriteRecv
  <2>1. B!Outcome(recv) \subseteq Mids
    BY DEF B!Outcome, B!Targets, BlockTypes, Refreshes, B!Refresh
  <2>2. recv' \in Refreshes /\ recv'.phase # "called" /\ starting' = FALSE
    <3>1. CASE starting
      BY <1>6, <3>1, IdleIs DEF B!WriteRecv
    <3>2. CASE ~starting
      <4>1. recv' = [recv EXCEPT !.phase = "forward", !.result = B!Outcome(recv)]
        BY <1>6, <3>2 DEF B!WriteRecv
      <4>2. recv' \in Refreshes
        BY <2>1, <4>1 DEF BlockTypes, Refreshes, B!Refresh
      <4>3. recv'.phase = "forward"
        BY <4>1 DEF BlockTypes, Refreshes, B!Refresh
      <4>4. QED
        BY <1>6, <4>2, <4>3 DEF B!WriteRecv
    <3>3. QED
      BY <3>1, <3>2
  <2>3. QED
    BY <1>6, <2>1, <2>2 DEF B!WriteRecv, BlockTypes
<1>7. CASE B!WriteSend
  <2>1. B!Outcome(send) \subseteq Mids
    BY DEF B!Outcome, B!Targets, BlockTypes, Refreshes, B!Refresh
  <2>2. QED
    BY <1>7, <2>1, IdleIs DEF B!WriteSend, BlockTypes
<1>8. CASE B!Forward
  <2>1. outbox' \in Seq(1..Len(log))
    BY <1>8, ForwardIs DEF Forwards
  <2>2. recv' \in Refreshes /\ recv'.phase = "save"
    BY <1>8 DEF B!Forward, BlockTypes, Refreshes, B!Refresh
  <2>3. ~starting
    BY <1>8 DEF B!Forward, BlockTypes
  <2>4. QED
    BY <1>8, <2>1, <2>2, <2>3 DEF B!Forward, BlockTypes
<1>9. CASE B!SaveRev
  <2>1. ~starting
    BY <1>9 DEF B!SaveRev, BlockTypes
  <2>2. QED
    BY <1>9, <2>1, IdleIs DEF B!SaveRev, BlockTypes
<1>10. CASE B!Restart
  <2>1. savedRev \in 0..savedRev /\ savedRev \in 0..Len(log)
    BY DEF BlockTypes
  <2>2. QED
    BY <1>10, <2>1, RestartIs, IdleIs DEF B!Restart, BlockTypes, Starts
<1>11. CASE B!AnswerLost
  BY <1>11, IdleIs DEF B!AnswerLost, BlockTypes
<1>12. QED
  BY <1>1, <1>2, <1>3, <1>4, <1>5, <1>6, <1>7, <1>8, <1>9, <1>10, <1>11 DEF B!Next

LEMMA BlockStepRound ==
    ASSUME BlockTypes, BlockRound, B!Next
    PROVE  BlockRound'
<1> USE DEF B!countVars
<1>1. ASSUME NEW n \in {6, 7}, NEW m \in Mids, LogGrows(n, m),
             UNCHANGED <<rev, savedRev, recv, starting>>
      PROVE  BlockRound'
  <2>1. \A k \in 1..Len(log) : log'[k] = log[k]
    BY <1>1, LogGrew
  <2>2. \A k \in (savedRev + 1)..rev : k \in 1..Len(log)
    BY DEF BlockTypes
  <2>3. QED
    BY <1>1, <2>1, <2>2 DEF BlockRound, InRound
<1>2. ASSUME NEW m \in Mids, B!OtherDevice(m) PROVE BlockRound'
  BY <1>1, <1>2, OtherDeviceIs DEF B!OtherDevice, LogGrows
<1>3. ASSUME NEW m \in Mids, B!CallLine(m) PROVE BlockRound'
  BY <1>1, <1>3, CallLineIs DEF B!CallLine, LogGrows
<1>4. CASE B!SyncRound
  <2>1. PICK n \in (rev + 1)..Len(log) :
          /\ rev' = n /\ Starts(recv', recv'.cand, file)
          /\ recv'.ops = [i \in 1..(n - rev) |-> rev + i]
          /\ \A k \in (rev + 1)..n : log[k].mid \in recv'.cand
    BY <1>4, SyncRoundIs
  <2>2. savedRev = rev /\ ~starting /\ UNCHANGED <<savedRev, starting, log>>
    BY <1>4 DEF B!SyncRound, BlockRound, InRound
  <2>3. QED
    BY <2>1, <2>2 DEF BlockRound, InRound, Starts
<1>5. CASE B!CallReturns \/ B!AnswerLost
  <2>1. UNCHANGED <<log, rev, savedRev, recv, starting>>
    BY <1>5, Zenon DEF B!CallReturns, B!AnswerLost
  <2>2. QED
    BY <2>1 DEF BlockRound, InRound
<1>6. CASE B!GetContacts
  <2>1. recv' = recv \/ (recv.phase = "asked" /\ Answers(recv', recv))
    BY <1>6, GetContactsIs
  <2>2. UNCHANGED <<log, rev, savedRev, starting>>
    BY <1>6 DEF B!GetContacts
  <2>3. CASE recv' = recv
    BY <2>2, <2>3 DEF BlockRound, InRound
  <2>4. CASE recv.phase = "asked" /\ Answers(recv', recv)
    <3>1. InRound' <=> InRound
      BY <2>2, <2>4 DEF InRound, Answers
    <3>2. recv'.ops = recv.ops /\ recv'.cand = recv.cand
      BY <2>4 DEF Answers
    <3>3. QED
      BY <2>2, <3>1, <3>2 DEF BlockRound
  <2>5. QED
    BY <2>1, <2>3, <2>4
<1>7. CASE B!WriteRecv
  <2>1. UNCHANGED <<log, rev, savedRev>> /\ starting' = FALSE
    BY <1>7 DEF B!WriteRecv
  <2>2. CASE starting
    BY <1>7, <2>1, <2>2, IdleIs DEF B!WriteRecv, BlockRound, InRound
  <2>3. CASE ~starting
    <3>1. recv' = [recv EXCEPT !.phase = "forward", !.result = B!Outcome(recv)]
      BY <1>7, <2>3 DEF B!WriteRecv
    <3>2. recv'.phase = "forward" /\ recv'.ops = recv.ops /\ recv'.cand = recv.cand
      BY <3>1 DEF BlockTypes, Refreshes, B!Refresh
    <3>3. InRound /\ InRound'
      BY <1>7, <2>1, <2>3, <3>2 DEF InRound, B!WriteRecv
    <3>4. QED
      BY <2>1, <3>2, <3>3 DEF BlockRound
  <2>4. QED
    BY <2>2, <2>3
<1>8. CASE B!WriteSend
  BY <1>8 DEF B!WriteSend, BlockRound, InRound
<1>9. CASE B!Forward
  <2>1. recv'.phase = "save" /\ recv'.ops = recv.ops /\ recv'.cand = recv.cand
    BY <1>9 DEF B!Forward, BlockTypes, Refreshes, B!Refresh
  <2>2. UNCHANGED <<log, rev, savedRev, starting>> /\ recv.phase = "forward"
    BY <1>9 DEF B!Forward
  <2>3. InRound' <=> InRound
    BY <2>1, <2>2 DEF InRound
  <2>4. QED
    BY <2>1, <2>2, <2>3 DEF BlockRound
<1>10. CASE B!SaveRev
  BY <1>10, IdleIs DEF B!SaveRev, BlockRound, InRound
<1>11. CASE B!Restart
  BY <1>11 DEF B!Restart, BlockRound, InRound
<1>12. QED
  BY <1>2, <1>3, <1>4, <1>5, <1>6, <1>7, <1>8, <1>9, <1>10, <1>11 DEF B!Next

(* Whom a refresh found blocked, when LINE answered it.                      *)
Found(r) == {m \in r.cand \cup r.prev : r.seen[m] = "blocked"}
Covered(m) == \E k \in (rev + 1)..Len(log) : log[k].mid = m

(* No call to LINE failed: then LINE said how it sees everybody asked for.   *)
BlockSeen ==
    failures = 0 =>
        \A r \in {recv, send} : r.phase = "answered" =>
            \A m \in r.cand \cup r.prev : r.seen[m] # "unknown"

(* About m the file is right, or will be with what a refresh under way       *)
(* writes, or somebody has still to ask: the refresh under way, the one of   *)
(* the call to LINE, the one of an operation not fetched yet.                *)
FileKnows(m) ==
    \/ Covered(m)
    \/ recv.phase = "answered" /\ (m \in Found(recv) <=> status[m] = "blocked")
    \/ send.phase = "answered" /\ (m \in Found(send) <=> status[m] = "blocked")
    \/ /\ recv.phase # "answered" /\ send.phase # "answered"
       /\ m \in file <=> status[m] = "blocked"
    \/ recv.phase = "asked" /\ m \in recv.cand \cup recv.prev
    \/ send.phase = "asked" /\ m \in send.cand \cup send.prev
    \/ send.phase = "called" /\ m \in send.cand
BlockFile ==
    ~met /\ failures = 0 =>
        /\ recv.phase = "idle" \/ send.phase = "idle"
        /\ recv.phase \in {"asked", "answered"} => recv.prev = file
        /\ send.phase \in {"asked", "answered"} => send.prev = file
        /\ \A m \in Mids : FileKnows(m)

LEMMA FoundIs ==
    ASSUME BlockTypes, BlockSeen, failures = 0, NEW r \in {recv, send}, r.phase = "answered"
    PROVE  B!Outcome(r) = Found(r)
BY DEF BlockTypes, BlockSeen, B!Outcome, B!Targets, Found, Refreshes, B!Refresh

(* The steps that leave both refreshes alone, or end or go on with one.      *)
LEMMA NotAnswered ==
    ASSUME BlockTypes, B!Next, ~B!GetContacts
    PROVE  /\ recv' = recv \/ recv'.phase # "answered"
           /\ send' = send \/ send'.phase # "answered"
           /\ failures' = 0 => failures = 0
<1> USE DEF B!countVars
<1>1. ASSUME NEW m \in Mids, B!OtherDevice(m) \/ B!CallLine(m)
      PROVE  /\ recv' = recv /\ failures' = failures
             /\ send' = send \/ send'.phase # "answered"
  BY <1>1, CallLineIs DEF B!OtherDevice, B!CallLine
<1>2. CASE B!SyncRound
  BY <1>2, SyncRoundIs DEF B!SyncRound, Starts
<1>3. CASE B!CallReturns \/ B!AnswerLost
  BY <1>3, CallReturnsIs, IdleIs DEF B!CallReturns, B!AnswerLost, Starts, BlockTypes
<1>4. CASE B!WriteRecv
  <2>1. recv' = B!Idle \/ recv' = [recv EXCEPT !.phase = "forward", !.result = B!Outcome(recv)]
    BY <1>4 DEF B!WriteRecv
  <2>2. recv'.phase # "answered"
    BY <2>1, IdleIs DEF BlockTypes, Refreshes, B!Refresh
  <2>3. QED
    BY <1>4, <2>2 DEF B!WriteRecv
<1>5. CASE B!WriteSend
  BY <1>5, IdleIs DEF B!WriteSend
<1>6. CASE B!Forward
  <2>1. recv'.phase = "save"
    BY <1>6 DEF B!Forward, BlockTypes, Refreshes, B!Refresh
  <2>2. QED
    BY <1>6, <2>1 DEF B!Forward
<1>7. CASE B!SaveRev
  BY <1>7, IdleIs DEF B!SaveRev
<1>8. CASE B!Restart
  BY <1>8, RestartIs, IdleIs DEF B!Restart, Starts
<1>9. QED
  BY <1>1, <1>2, <1>3, <1>4, <1>5, <1>6, <1>7, <1>8 DEF B!Next

LEMMA BlockStepSeen ==
    ASSUME BlockTypes, BlockSeen, B!Next
    PROVE  BlockSeen'
<1> SUFFICES ASSUME failures' = 0
             PROVE  /\ recv'.phase = "answered" =>
                          \A m \in recv'.cand \cup recv'.prev : recv'.seen[m] # "unknown"
                    /\ send'.phase = "answered" =>
                          \A m \in send'.cand \cup send'.prev : send'.seen[m] # "unknown"
  BY DEF BlockSeen
<1>1. CASE B!GetContacts
  <2>1. failures = 0 /\ failures' = failures
    BY <1>1 DEF B!GetContacts, BlockTypes
  <2>2. ASSUME NEW r \in Refreshes, AnswersWell(r), NEW m \in r.cand \cup r.prev
        PROVE  r.seen[m] # "unknown"
    BY <2>2 DEF AnswersWell, BlockTypes, Refreshes, B!Refresh, B!ContactStates
  <2>3. QED
    BY <1>1, <2>1, <2>2, GetContactsIs DEF BlockSeen, Answers
<1>2. CASE ~B!GetContacts
  BY <1>2, NotAnswered DEF BlockSeen
<1>3. QED
  BY <1>1, <1>2

(* A step keeps what is known of the file: each of them, about a contact m.  *)
LEMMA BlockStepFile ==
    ASSUME BlockTypes, BlockRound, BlockSeen, BlockFile, B!Next
    PROVE  BlockFile'
<1> SUFFICES ASSUME ~met', failures' = 0
             PROVE  /\ recv'.phase = "idle" \/ send'.phase = "idle"
                    /\ recv'.phase \in {"asked", "answered"} => recv'.prev = file'
                    /\ send'.phase \in {"asked", "answered"} => send'.prev = file'
                    /\ \A m \in Mids : FileKnows(m)'
  BY DEF BlockFile
<1> USE DEF B!countVars
<1>1. ~met /\ failures = 0
  <2>1. failures = 0
    <3>1. CASE B!GetContacts
      BY <3>1 DEF B!GetContacts, BlockTypes
    <3>2. CASE ~B!GetContacts
      BY <3>2, NotAnswered
    <3>3. QED
      BY <3>1, <3>2
  <2>2. ~met
    <3>1. ASSUME NEW m \in Mids, B!OtherDevice(m) \/ B!CallLine(m) PROVE ~met
      BY <3>1 DEF B!OtherDevice, B!CallLine
    <3>2. CASE B!SyncRound \/ B!CallReturns \/ B!AnswerLost \/ B!GetContacts \/ B!WriteRecv
      BY <3>2 DEF B!SyncRound, B!CallReturns, B!AnswerLost, B!GetContacts, B!WriteRecv
    <3>3. CASE B!WriteSend \/ B!Forward \/ B!SaveRev \/ B!Restart
      BY <3>3 DEF B!WriteSend, B!Forward, B!SaveRev, B!Restart
    <3>4. QED
      BY <3>1, <3>2, <3>3 DEF B!Next
  <2>3. QED
    BY <2>1, <2>2
<1>2. /\ recv.phase = "idle" \/ send.phase = "idle"
      /\ recv.phase \in {"asked", "answered"} => recv.prev = file
      /\ send.phase \in {"asked", "answered"} => send.prev = file
      /\ \A m \in Mids : FileKnows(m)
  BY <1>1 DEF BlockFile
<1>3. ASSUME NEW n \in {6, 7}, NEW a \in Mids, LogGrows(n, a), rev' = rev
      PROVE  \A m \in Mids : Covered(m) => Covered(m)'
  <2> SUFFICES ASSUME NEW m \in Mids, Covered(m) PROVE Covered(m)'
    OBVIOUS
  <2>1. PICK k \in (rev + 1)..Len(log) : log[k].mid = m
    BY DEF Covered
  <2>2. k \in 1..Len(log) /\ k \in (rev + 1)..Len(log')
    BY <1>3, LogGrew DEF BlockTypes
  <2>3. log'[k].mid = m
    BY <1>3, <2>1, <2>2, LogGrew
  <2>4. QED
    BY <1>3, <2>2, <2>3 DEF Covered
<1>4. ASSUME NEW a \in Mids, B!OtherDevice(a)
      PROVE  /\ recv' = recv /\ send' = send /\ file' = file
             /\ \A m \in Mids : FileKnows(m)'
  <2>1. PICK n \in {6, 7} : /\ log' = Append(log, B!Operation(n, a))
                            /\ \E s \in B!ContactStates : status' = [status EXCEPT ![a] = s]
    BY <1>4, OtherDeviceIs
  <2>2. UNCHANGED <<rev, recv, send, file>>
    BY <1>4 DEF B!OtherDevice
  <2>3. Covered(a)'
    <3>1. Len(log') = Len(log) + 1 /\ log'[Len(log) + 1] = B!Operation(n, a)
      BY <2>1 DEF BlockTypes
    <3>2. Len(log) + 1 \in (rev + 1)..Len(log')
      BY <3>1 DEF BlockTypes
    <3>3. QED
      BY <2>2, <3>1, <3>2 DEF Covered, B!Operation
  <2>4. ASSUME NEW m \in Mids, m # a PROVE FileKnows(m)'
    <3>1. status'[m] = status[m]
      BY <2>1, <2>4 DEF BlockTypes
    <3>2. Covered(m) => Covered(m)'
      BY <1>3, <2>1, <2>2 DEF LogGrows
    <3>3. FileKnows(m)
      BY <1>2
    <3>4. QED
      BY <2>2, <3>1, <3>2, <3>3 DEF FileKnows, Found
  <2>5. QED
    BY <2>2, <2>3, <2>4 DEF FileKnows
<1>5. ASSUME NEW a \in Mids, B!CallLine(a)
      PROVE  /\ recv' = recv /\ recv.phase = "idle" /\ send'.phase = "called" /\ file' = file
             /\ \A m \in Mids : FileKnows(m)'
  <2>1. PICK n \in {6, 7} :
              /\ send'.phase = "called" /\ send'.cand = {a}
              /\ status' = [status EXCEPT ![a] = IF n = 6 THEN "blocked" ELSE "free"]
              /\ LogGrows(n, a)
    BY <1>5, CallLineIs DEF LogGrows
  <2>2. UNCHANGED <<rev, recv, file>> /\ recv.phase = "idle" /\ send.phase = "idle"
    BY <1>5 DEF B!CallLine
  <2>3. ASSUME NEW m \in Mids, m # a PROVE FileKnows(m)'
    <3>1. status'[m] = status[m]
      BY <2>1, <2>3 DEF BlockTypes
    <3>2. Covered(m) => Covered(m)'
      BY <1>3, <2>1, <2>2
    <3>3. FileKnows(m)
      BY <1>2
    <3>4. QED
      BY <2>1, <2>2, <3>1, <3>2, <3>3 DEF FileKnows
  <2>4. FileKnows(a)'
    BY <2>1 DEF FileKnows
  <2>5. QED
    BY <2>1, <2>2, <2>3, <2>4
<1>6. CASE B!SyncRound
  <2>1. PICK n \in (rev + 1)..Len(log) :
          /\ rev' = n /\ Starts(recv', recv'.cand, file)
          /\ \A k \in (rev + 1)..n : log[k].mid \in recv'.cand
    BY <1>6, SyncRoundIs
  <2>2. UNCHANGED <<status, log, send, file>> /\ send.phase = "idle" /\ recv.phase = "idle"
    BY <1>6 DEF B!SyncRound
  <2>3. ASSUME NEW m \in Mids PROVE FileKnows(m)'
    <3>1. CASE Covered(m)
      <4>1. PICK k \in (rev + 1)..Len(log) : log[k].mid = m
        BY <3>1 DEF Covered
      <4>2. CASE k <= n
        <5>1. k \in (rev + 1)..n
          BY <4>2
        <5>2. QED
          BY <2>1, <4>1, <5>1 DEF FileKnows, Starts
      <4>3. CASE k > n
        <5>1. k \in (rev' + 1)..Len(log')
          BY <2>1, <2>2, <4>3
        <5>2. QED
          BY <2>2, <4>1, <5>1 DEF FileKnows, Covered
      <4>4. QED
        BY <4>2, <4>3 DEF BlockTypes
    <3>2. CASE ~Covered(m)
      <4>1. m \in file <=> status[m] = "blocked"
        BY <1>2, <2>2, <3>2 DEF FileKnows
      <4>2. QED
        BY <2>1, <2>2, <4>1 DEF FileKnows, Starts
    <3>3. QED
      BY <3>1, <3>2
  <2>4. QED
    BY <2>1, <2>2, <2>3 DEF Starts
<1>7. CASE B!CallReturns
  <2>1. Starts(send', send.cand, file) /\ send.phase = "called"
        /\ UNCHANGED <<status, log, rev, recv, file>>
    BY <1>7, CallReturnsIs DEF B!CallReturns
  <2>2. recv.phase = "idle"
    BY <1>2, <2>1
  <2>3. ASSUME NEW m \in Mids PROVE FileKnows(m)'
    <3>1. FileKnows(m)
      BY <1>2
    <3>2. QED
      BY <2>1, <2>2, <3>1 DEF FileKnows, Covered, Starts
  <2>4. QED
    BY <2>1, <2>2, <2>3 DEF Starts
<1>8. CASE B!GetContacts
  <2>1. /\ UNCHANGED <<status, log, rev, file>> /\ failures' = failures
    BY <1>1, <1>8 DEF B!GetContacts
  <2>2. ASSUME NEW r, AnswersWell(r), r.prev = file, NEW m \in Mids,
               (m \in r.cand \cup r.prev) \/ Covered(m) \/ (m \in file <=> status[m] = "blocked")
        PROVE  Covered(m) \/ (m \in Found(r) <=> status[m] = "blocked")
    BY <2>2 DEF AnswersWell, Found
  <2>3. CASE recv.phase = "asked" /\ send' = send /\ Answers(recv', recv) /\ AnswersWell(recv')
    <3>1. send.phase = "idle" /\ recv'.prev = file /\ recv'.phase = "answered"
      BY <1>2, <2>3 DEF Answers
    <3>2. ASSUME NEW m \in Mids PROVE FileKnows(m)'
      <4>1. (m \in recv'.cand \cup recv'.prev) \/ Covered(m) \/ (m \in file <=> status[m] = "blocked")
        BY <1>2, <2>3, <3>1 DEF FileKnows, Answers
      <4>2. Covered(m) \/ (m \in Found(recv') <=> status[m] = "blocked")
        BY <2>2, <2>3, <3>1, <4>1
      <4>3. QED
        BY <2>1, <3>1, <4>2 DEF FileKnows, Covered, Found
    <3>3. QED
      BY <2>1, <2>3, <3>1, <3>2
  <2>4. CASE send.phase = "asked" /\ recv' = recv /\ Answers(send', send) /\ AnswersWell(send')
    <3>1. recv.phase = "idle" /\ send'.prev = file /\ send'.phase = "answered"
      BY <1>2, <2>4 DEF Answers
    <3>2. ASSUME NEW m \in Mids PROVE FileKnows(m)'
      <4>1. (m \in send'.cand \cup send'.prev) \/ Covered(m) \/ (m \in file <=> status[m] = "blocked")
        BY <1>2, <2>4, <3>1 DEF FileKnows, Answers
      <4>2. Covered(m) \/ (m \in Found(send') <=> status[m] = "blocked")
        BY <2>2, <2>4, <3>1, <4>1
      <4>3. QED
        BY <2>1, <3>1, <4>2 DEF FileKnows, Covered, Found
    <3>3. QED
      BY <2>1, <2>4, <3>1, <3>2
  <2>5. QED
    BY <1>8, <2>1, <2>3, <2>4, GetContactsIs
<1>9. CASE B!WriteRecv
  <2>1. file' = Found(recv) /\ UNCHANGED <<status, log, rev, send>> /\ recv.phase = "answered"
    BY <1>1, <1>9, FoundIs DEF B!WriteRecv
  <2>2. recv' = B!Idle \/ recv' = [recv EXCEPT !.phase = "forward", !.result = B!Outcome(recv)]
    BY <1>9 DEF B!WriteRecv
  <2>3. recv'.phase \in {"idle", "forward"}
    BY <2>2, IdleIs DEF BlockTypes, Refreshes, B!Refresh
  <2>4. send.phase = "idle"
    BY <1>2, <2>1
  <2>5. ASSUME NEW m \in Mids PROVE FileKnows(m)'
    <3>1. FileKnows(m)
      BY <1>2
    <3>2. Covered(m) \/ (m \in file' <=> status[m] = "blocked")
      BY <2>1, <2>4, <3>1 DEF FileKnows
    <3>3. QED
      BY <2>1, <2>3, <2>4, <3>2 DEF FileKnows, Covered
  <2>6. QED
    BY <2>1, <2>3, <2>4, <2>5
<1>10. CASE B!WriteSend
  <2>1. file' = Found(send) /\ UNCHANGED <<status, log, rev, recv>> /\ send.phase = "answered"
        /\ send'.phase = "idle"
    BY <1>1, <1>10, FoundIs, IdleIs DEF B!WriteSend
  <2>2. recv.phase = "idle"
    BY <1>2, <2>1
  <2>3. ASSUME NEW m \in Mids PROVE FileKnows(m)'
    <3>1. FileKnows(m)
      BY <1>2
    <3>2. Covered(m) \/ (m \in file' <=> status[m] = "blocked")
      BY <2>1, <2>2, <3>1 DEF FileKnows
    <3>3. QED
      BY <2>1, <2>2, <3>2 DEF FileKnows, Covered
  <2>4. QED
    BY <2>1, <2>2, <2>3
<1>11. CASE B!Forward \/ B!SaveRev
  <2>1. /\ recv.phase \in {"forward", "save"} /\ recv'.phase \in {"idle", "save"}
        /\ UNCHANGED <<status, log, rev, send, file>>
    BY <1>11, IdleIs DEF B!Forward, B!SaveRev, BlockTypes, Refreshes, B!Refresh
  <2>2. ASSUME NEW m \in Mids PROVE FileKnows(m)'
    <3>1. FileKnows(m)
      BY <1>2
    <3>2. QED
      BY <2>1, <3>1 DEF FileKnows, Covered, Found
  <2>3. QED
    BY <1>2, <2>1, <2>2
<1>12. CASE B!Restart
  <2>1. /\ Starts(recv', {m \in Mids : status[m] = "blocked"}, file) /\ send'.phase = "idle"
        /\ UNCHANGED <<status, file>>
    BY <1>12, RestartIs, IdleIs DEF B!Restart
  <2>2. ASSUME NEW m \in Mids PROVE FileKnows(m)'
    <3>1. CASE m \in file \/ status[m] = "blocked"
      BY <2>1, <3>1 DEF FileKnows, Starts
    <3>2. CASE ~(m \in file \/ status[m] = "blocked")
      BY <2>1, <3>2 DEF FileKnows, Starts
    <3>3. QED
      BY <3>1, <3>2
  <2>3. QED
    BY <2>1, <2>2 DEF Starts
<1>13. QED
  <2> ~B!AnswerLost
    BY DEF B!AnswerLost, BlockTypes
  <2> QED
    BY <1>2, <1>4, <1>5, <1>6, <1>7, <1>8, <1>9, <1>10, <1>11, <1>12 DEF B!Next

(* The last of some places in a sequence.                                    *)
LEMMA LastPlace ==
    ASSUME NEW n \in Nat, NEW T \in SUBSET (1..n), T # {}
    PROVE  \E q \in T : \A p \in T : p <= q
<1> DEFINE E == {k \in Nat : \E q \in T : q = n - k}
<1>1. PICK t \in T : TRUE
  OBVIOUS
<1>2. n - t \in E /\ E \subseteq Nat
  BY <1>1
<1>3. PICK k \in E : \A j \in E : ~(<<j, k>> \in OpToRel(<, Nat))
  <2> HIDE DEF E
  <2>1. QED
    BY <1>2, WFMin, NatLessThanWellFounded
<1>4. \A j \in E : ~(j < k)
  BY <1>3 DEF OpToRel
<1>5. PICK q \in T : q = n - k
  OBVIOUS
<1>6. ASSUME NEW p \in T PROVE p <= q
  <2>1. n - p \in E
    OBVIOUS
  <2>2. k \in Nat /\ p \in Nat /\ q \in Nat
    OBVIOUS
  <2>3. ~(n - p < k)
    BY <1>4, <2>1
  <2>4. QED
    BY <1>5, <2>2, <2>3
<1>7. QED
  BY <1>6

InBox(k) == \E i \in 1..Len(outbox) : outbox[i] = k

(* An unblocking of m that was not passed on, and any operation on m.        *)
Unsaid(m, k) == k \in 1..Len(log) /\ log[k] = B!Operation(7, m) /\ ~InBox(k)
Tells(m, k)  == k \in 1..Len(log) /\ log[k].mid = m

(* An unblocking is passed on after all that is older, and a block after the *)
(* unblockings that are older, those the phone had before the round aside.   *)
BlockOrder ==
    /\ \A i, j \in 1..Len(outbox) :
          i < j /\ log[outbox[j]].op = 7 => outbox[i] < outbox[j]
    /\ \A i \in 1..Len(outbox) : \A k \in (savedRev + 1)..(outbox[i] - 1) :
          log[k].op = 7 => InBox(k)

(* If nobody is blocked through the bridge: the last operation on a blocked  *)
(* contact is a block; where the phone is wrong an operation is still to be  *)
(* passed on; where the result of a round is wrong one is still to be        *)
(* fetched.                                                                  *)
UpTo == IF recv.phase = "save" THEN rev ELSE savedRev
LastBlocks(m) ==
    \E k \in 1..Len(log) : /\ log[k] = B!Operation(6, m)
                           /\ \A j \in (k + 1)..Len(log) : log[j].mid # m
PhoneHas(m) ==
    \E i \in 1..Len(outbox) : /\ log[outbox[i]] = B!Operation(6, m)
                              /\ \A j \in (i + 1)..Len(outbox) : log[outbox[j]].mid # m
PhoneTells(m) ==
    /\ status[m] = "blocked" => LastBlocks(m)
    /\ PhoneHas(m) /\ status[m] # "blocked" => \E k \in Nat : k > UpTo /\ Unsaid(m, k)
    /\ ~PhoneHas(m) /\ status[m] = "blocked" => \E k \in Nat : k > UpTo /\ Tells(m, k)
ResultOf == IF recv.phase = "answered" THEN Found(recv) ELSE recv.result
RoundTells(m) ==
    InRound /\ recv.phase \in {"answered", "forward"} =>
        /\ m \in ResultOf /\ status[m] # "blocked" => \E k \in Nat : k > rev /\ Unsaid(m, k)
        /\ m \in (recv.cand \cup recv.prev) \ ResultOf /\ status[m] = "blocked" =>
              \E k \in Nat : k > rev /\ Tells(m, k)
BlockPhone ==
    jobs = 0 /\ failures = 0 =>
        /\ send.phase = "idle"
        /\ \A m \in Mids : PhoneTells(m) /\ RoundTells(m)

LEMMA BoxTyped ==
    ASSUME BlockTypes
    PROVE  /\ Len(log) \in Nat /\ Len(outbox) \in Nat /\ rev \in Nat /\ savedRev \in Nat
           /\ savedRev <= rev /\ rev <= Len(log)
           /\ \A i \in 1..Len(outbox) : outbox[i] \in 1..Len(log)
           /\ \A k \in 1..Len(log) : log[k] \in BlockOps /\ log[k].op \in {6, 7}
<1>1. \A k \in 1..Len(log) : log[k] \in BlockOps
  BY DEF BlockTypes
<1>2. \A k \in 1..Len(log) : log[k].op \in {6, 7}
  BY <1>1 DEF BlockOps
<1>3. outbox \in Seq(1..Len(log))
  BY DEF BlockTypes
<1>4. \A D : \A q \in Seq(D) : \A i \in 1..Len(q) : q[i] \in D
  OBVIOUS
<1>5. \A i \in 1..Len(outbox) : outbox[i] \in 1..Len(log)
  BY <1>3, <1>4
<1>6. QED
  BY <1>1, <1>2, <1>5 DEF BlockTypes

(* The log grows, or stays, and the outbox stays.                            *)
LEMMA OutboxStays ==
    ASSUME BlockTypes, outbox' = outbox, Len(log) <= Len(log'), Len(log') \in Nat,
           \A k \in 1..Len(log) : log'[k] = log[k]
    PROVE  /\ \A k : InBox(k)' <=> InBox(k)
           /\ \A m \in Mids : PhoneHas(m)' <=> PhoneHas(m)
           /\ \A m \in Mids, k \in Nat : /\ Unsaid(m, k) => Unsaid(m, k)'
                                         /\ Tells(m, k) => Tells(m, k)'
<1>1. \A k : InBox(k)' <=> InBox(k)
  BY DEF InBox
<1>2. \A i \in 1..Len(outbox) : log'[outbox[i]] = log[outbox[i]]
  BY BoxTyped
<1>3. ASSUME NEW m \in Mids PROVE PhoneHas(m)' <=> PhoneHas(m)
  <2>1. \A i \in 1..Len(outbox) : \A j \in (i + 1)..Len(outbox) : j \in 1..Len(outbox)
    BY BoxTyped
  <2>2. \A i \in 1..Len(outbox) : \A j \in (i + 1)..Len(outbox) :
            log'[outbox'[j]].mid = log[outbox[j]].mid
    BY <1>2, <2>1
  <2>3. \A i \in 1..Len(outbox) : log'[outbox'[i]] = log[outbox[i]]
    BY <1>2
  <2>4. ASSUME PhoneHas(m) PROVE PhoneHas(m)'
    <3>1. PICK i \in 1..Len(outbox) : /\ log[outbox[i]] = B!Operation(6, m)
                                      /\ \A j \in (i + 1)..Len(outbox) : log[outbox[j]].mid # m
      BY <2>4 DEF PhoneHas
    <3>2. i \in 1..Len(outbox') /\ log'[outbox'[i]] = B!Operation(6, m)
      BY <2>3, <3>1
    <3>3. \A j \in (i + 1)..Len(outbox') : log'[outbox'[j]].mid # m
      BY <2>2, <3>1
    <3>4. QED
      BY <3>2, <3>3 DEF PhoneHas, B!Operation
  <2>5. ASSUME PhoneHas(m)' PROVE PhoneHas(m)
    <3>1. PICK i \in 1..Len(outbox') :
              /\ log'[outbox'[i]] = B!Operation(6, m)
              /\ \A j \in (i + 1)..Len(outbox') : log'[outbox'[j]].mid # m
      BY <2>5 DEF PhoneHas, B!Operation
    <3>2. i \in 1..Len(outbox) /\ log[outbox[i]] = B!Operation(6, m)
      BY <2>3, <3>1
    <3>3. \A j \in (i + 1)..Len(outbox) : log[outbox[j]].mid # m
      BY <2>2, <3>1
    <3>4. QED
      BY <3>2, <3>3 DEF PhoneHas
  <2>6. QED
    BY <2>4, <2>5
<1>4. ASSUME NEW m \in Mids, NEW k \in Nat
      PROVE  (Unsaid(m, k) => Unsaid(m, k)') /\ (Tells(m, k) => Tells(m, k)')
  <2>1. k \in 1..Len(log) => k \in 1..Len(log')
    BY BoxTyped
  <2>2. QED
    BY <1>1, <2>1 DEF Unsaid, Tells
<1>5. QED
  BY <1>1, <1>3, <1>4

LEMMA OrderStays ==
    ASSUME BlockTypes, BlockOrder, outbox' = outbox, Len(log) <= Len(log'), Len(log') \in Nat,
           \A k \in 1..Len(log) : log'[k] = log[k],
           savedRev' \in Nat, savedRev' >= savedRev
    PROVE  BlockOrder'
<1>1. \A i \in 1..Len(outbox) : log'[outbox[i]] = log[outbox[i]]
  BY BoxTyped
<1>2. ASSUME NEW i \in 1..Len(outbox), NEW k \in (savedRev' + 1)..(outbox[i] - 1), log'[k].op = 7
      PROVE  InBox(k)'
  <2>1. outbox[i] \in 1..Len(log) /\ savedRev \in Nat /\ Len(log) \in Nat
    BY BoxTyped
  <2>2. k \in (savedRev + 1)..(outbox[i] - 1) /\ k \in 1..Len(log)
    BY <2>1
  <2>3. QED
    BY <1>2, <2>2 DEF BlockOrder, InBox
<1>3. QED
  BY <1>1, <1>2 DEF BlockOrder

(* A round passes its operations on.                                         *)
LEMMA OrderForward ==
    ASSUME BlockTypes, BlockRound, BlockOrder, B!Forward
    PROVE  BlockOrder'
<1> DEFINE N == Len(outbox)
<1>1. UNCHANGED <<log, rev, savedRev>>
  BY DEF B!Forward
<1>2. Forwards(savedRev, rev - savedRev, outbox')
  BY ForwardIs
<1>3. /\ N \in Nat /\ Len(outbox') \in Nat /\ N <= Len(outbox') /\ rev \in Nat
      /\ savedRev \in Nat /\ savedRev <= rev /\ rev <= Len(log) /\ Len(log) \in Nat
  BY <1>2, BoxTyped DEF Forwards
<1>4. \A i \in 1..N : outbox'[i] = outbox[i] /\ outbox[i] \in 1..Len(log)
  BY <1>2, BoxTyped DEF Forwards
<1>5. \A i \in (N + 1)..Len(outbox') :
          /\ outbox'[i] \in (savedRev + 1)..rev /\ \A j \in 1..N : outbox[j] # outbox'[i]
          /\ \A j \in (N + 1)..(i - 1) : outbox'[j] < outbox'[i]
  BY <1>2, <1>3 DEF Forwards
<1>6. ASSUME NEW i \in 1..Len(outbox'), NEW j \in 1..Len(outbox'), i < j,
             log[outbox'[j]].op = 7
      PROVE  outbox'[i] < outbox'[j]
  <2>1. CASE j <= N
    <3>1. i \in 1..N /\ j \in 1..N
      BY <1>3, <1>6, <2>1
    <3>2. QED
      BY <1>4, <1>6, <3>1 DEF BlockOrder
  <2>2. CASE j > N /\ i > N
    <3>1. j \in (N + 1)..Len(outbox') /\ i \in (N + 1)..(j - 1)
      BY <1>3, <1>6, <2>2
    <3>2. QED
      BY <1>5, <3>1
  <2>3. CASE j > N /\ i <= N
    <3>1. i \in 1..N /\ j \in (N + 1)..Len(outbox')
      BY <1>3, <1>6, <2>3
    <3>2. outbox'[j] \in (savedRev + 1)..rev /\ outbox[i] # outbox'[j] /\ outbox[i] \in 1..Len(log)
      BY <1>4, <1>5, <3>1
    <3>3. ASSUME outbox[i] > outbox'[j] PROVE FALSE
      <4>1. outbox'[j] \in (savedRev + 1)..(outbox[i] - 1)
        BY <1>3, <3>2, <3>3
      <4>2. InBox(outbox'[j])
        BY <1>6, <3>1, <4>1 DEF BlockOrder
      <4>3. QED
        BY <1>5, <3>1, <4>2 DEF InBox
    <3>4. QED
      BY <1>3, <1>4, <3>1, <3>2, <3>3
  <2>4. QED
    BY <1>3, <2>1, <2>2, <2>3
<1>7. ASSUME NEW i \in 1..Len(outbox'), NEW k \in (savedRev + 1)..(outbox'[i] - 1),
             log[k].op = 7
      PROVE  InBox(k)'
  <2>1. CASE i <= N
    <3>1. i \in 1..N
      BY <1>3, <2>1
    <3>2. InBox(k)
      BY <1>4, <1>7, <3>1 DEF BlockOrder
    <3>3. PICK j \in 1..N : outbox[j] = k
      BY <3>2 DEF InBox
    <3>4. j \in 1..Len(outbox')
      BY <1>3
    <3>5. QED
      BY <1>4, <3>3, <3>4 DEF InBox
  <2>2. CASE i > N
    <3>1. i \in (N + 1)..Len(outbox')
      BY <1>3, <2>2
    <3>2. outbox'[i] \in (savedRev + 1)..rev
      BY <1>5, <3>1
    <3>3. k \in (savedRev + 1)..(savedRev + (rev - savedRev))
      BY <1>3, <3>2
    <3>4. B!Passes(recv, k)
      BY <1>7 DEF B!Passes
    <3>5. QED
      BY <1>2, <3>3, <3>4 DEF Forwards, InBox
  <2>3. QED
    BY <1>3, <2>1, <2>2
<1>8. QED
  BY <1>1, <1>6, <1>7 DEF BlockOrder

LEMMA BlockStepOrder ==
    ASSUME BlockTypes, BlockRound, BlockOrder, B!Next
    PROVE  BlockOrder'
<1> USE DEF B!countVars
<1>1. ASSUME NEW n \in {6, 7}, NEW m \in Mids, LogGrows(n, m), UNCHANGED <<outbox, savedRev>>
      PROVE  BlockOrder'
  BY <1>1, LogGrew, OrderStays, BoxTyped
<1>2. ASSUME NEW m \in Mids, B!OtherDevice(m) PROVE BlockOrder'
  BY <1>1, <1>2, OtherDeviceIs DEF B!OtherDevice, LogGrows
<1>3. ASSUME NEW m \in Mids, B!CallLine(m) PROVE BlockOrder'
  BY <1>1, <1>3, CallLineIs DEF B!CallLine, LogGrows
<1>4. ASSUME UNCHANGED <<outbox, log>>, savedRev' = savedRev \/ savedRev' = rev
      PROVE  BlockOrder'
  BY <1>4, OrderStays, BoxTyped
<1>5. CASE \/ B!SyncRound \/ B!CallReturns \/ B!AnswerLost \/ B!GetContacts
           \/ B!WriteRecv \/ B!WriteSend
  BY <1>4, <1>5 DEF B!SyncRound, B!CallReturns, B!AnswerLost, B!GetContacts, B!WriteRecv,
                    B!WriteSend
<1>6. CASE B!SaveRev \/ B!Restart
  BY <1>4, <1>6 DEF B!SaveRev, B!Restart
<1>7. CASE B!Forward
  BY <1>7, OrderForward
<1>8. QED
  BY <1>2, <1>3, <1>5, <1>6, <1>7 DEF B!Next

(* After a round was passed on, the phone is right about m or an operation   *)
(* on m follows the round.                                                   *)
LEMMA ForwardTells ==
    ASSUME BlockTypes, BlockRound, BlockOrder, B!Forward, NEW m \in Mids,
           PhoneTells(m), RoundTells(m)
    PROVE  PhoneTells(m)'
<1> DEFINE N == Len(outbox)
           out == outbox'
<1>1. /\ UNCHANGED <<status, log, rev, savedRev>> /\ recv.phase = "forward"
      /\ recv'.phase = "save" /\ InRound
  BY DEF B!Forward, BlockTypes, Refreshes, B!Refresh, InRound
<1>2. Forwards(savedRev, rev - savedRev, outbox') /\ BlockOrder' /\ BlockTypes'
  BY ForwardIs, OrderForward, BlockStepTypes DEF B!Next
<1>3. /\ N \in Nat /\ Len(out) \in Nat /\ N <= Len(out) /\ rev \in Nat
      /\ savedRev \in Nat /\ savedRev <= rev /\ rev <= Len(log) /\ Len(log) \in Nat
      /\ \A k \in 1..Len(log) : log[k].op \in {6, 7}
      /\ \A i \in 1..N : outbox[i] \in 1..Len(log)
  BY <1>2, BoxTyped DEF Forwards
<1>4. \A i \in 1..Len(out) : out[i] \in 1..Len(log)
  BY <1>2 DEF Forwards
<1>5. \A i \in 1..N : out[i] = outbox[i]
  BY <1>2 DEF Forwards
<1>6. \A i \in (N + 1)..Len(out) : out[i] \in (savedRev + 1)..rev /\ B!Passes(recv, out[i])
  <2>1. savedRev + (rev - savedRev) = rev
    BY <1>3
  <2>2. QED
    BY <1>2, <2>1 DEF Forwards
<1>7. \A k \in (savedRev + 1)..rev : B!Passes(recv, k) => \E i \in 1..Len(out) : out[i] = k
  <2>1. savedRev + (rev - savedRev) = rev
    BY <1>3
  <2>2. QED
    BY <1>2, <2>1 DEF Forwards
<1> HIDE DEF out, N
<1>8. UpTo = savedRev /\ UpTo' = rev /\ ResultOf = recv.result
  BY <1>1 DEF UpTo, ResultOf
<1>9. \A k \in Nat : k > rev /\ Unsaid(m, k) => Unsaid(m, k)'
  <2>1. \A k \in Nat : k > rev /\ ~InBox(k) => ~InBox(k)'
    BY <1>3, <1>5, <1>6 DEF InBox, N, out
  <2>2. QED
    BY <1>1, <2>1 DEF Unsaid
<1>10. \A k \in Nat : Tells(m, k) => Tells(m, k)'
  BY <1>1 DEF Tells
<1>11. ASSUME PhoneHas(m)', status[m] # "blocked"
       PROVE  \E k \in Nat : k > rev /\ Unsaid(m, k)
  <2>1. PICK i \in 1..Len(out) : /\ log[out[i]] = B!Operation(6, m)
                                 /\ \A j \in (i + 1)..Len(out) : log[out[j]].mid # m
    BY <1>1, <1>11 DEF PhoneHas, out, B!Operation
  <2>2. CASE m \in recv.result
    BY <1>1, <1>8, <1>11, <2>2 DEF RoundTells
  <2>3. CASE m \notin recv.result
    <3>1. log[out[i]].op = 6 /\ log[out[i]].mid = m
      BY <2>1 DEF B!Operation
    <3>2. i \in 1..N
      BY <1>3, <1>6, <2>3, <3>1 DEF B!Passes
    <3>3. \A j \in (i + 1)..N : j \in (i + 1)..Len(out) /\ out[j] = outbox[j]
      BY <1>3, <1>5, <3>2
    <3>4. PhoneHas(m)
      <4>1. log[outbox[i]] = B!Operation(6, m)
        BY <1>5, <2>1, <3>2
      <4>2. \A j \in (i + 1)..N : log[outbox[j]].mid # m
        BY <2>1, <3>3
      <4>3. QED
        BY <3>2, <4>1, <4>2 DEF PhoneHas, N
    <3>5. PICK k \in Nat : k > savedRev /\ Unsaid(m, k)
      BY <1>8, <1>11, <3>4 DEF PhoneTells
    <3>6. CASE k > rev
      BY <3>5, <3>6
    <3>7. CASE k <= rev
      <4>1. log[k].op = 7 /\ log[k].mid = m /\ k \in (savedRev + 1)..rev
        BY <1>3, <3>5, <3>7 DEF Unsaid, B!Operation
      <4>2. PICK j \in 1..Len(out) : out[j] = k
        BY <1>7, <4>1 DEF B!Passes
      <4>3. j \notin 1..N
        BY <1>5, <3>5, <4>2 DEF Unsaid, InBox, N
      <4>4. j \in (i + 1)..Len(out)
        BY <1>3, <3>2, <4>3
      <4>5. QED
        BY <2>1, <4>1, <4>2, <4>4
    <3>8. QED
      BY <1>3, <3>6, <3>7
  <2>4. QED
    BY <2>2, <2>3
<1>12. ASSUME ~PhoneHas(m)', status[m] = "blocked"
       PROVE  \E k \in Nat : k > rev /\ Tells(m, k)
  <2> SUFFICES ASSUME \A k \in Nat : k > rev => ~Tells(m, k) PROVE FALSE
    OBVIOUS
  <2>1. PICK i \in 1..Len(log) : /\ log[i] = B!Operation(6, m)
                                 /\ \A j \in (i + 1)..Len(log) : log[j].mid # m
    BY <1>12 DEF PhoneTells, LastBlocks
  <2>2. log[i].op = 6 /\ log[i].mid = m /\ i \in Nat
    BY <2>1 DEF B!Operation
  <2>3. i <= rev
    BY <1>3, <2>2 DEF Tells
  <2>4. CASE i <= savedRev
    <3>1. \A k \in Nat : k > savedRev => ~Tells(m, k)
      BY <1>3, <2>1, <2>4 DEF Tells
    <3>2. PhoneHas(m)
      BY <1>8, <1>12, <3>1 DEF PhoneTells
    <3>3. PICK p \in 1..N : /\ log[outbox[p]] = B!Operation(6, m)
                            /\ \A j \in (p + 1)..N : log[outbox[j]].mid # m
      BY <3>2 DEF PhoneHas, N
    <3>4. p \in 1..Len(out) /\ log[out[p]] = B!Operation(6, m)
      BY <1>3, <1>5, <3>3
    <3>5. ASSUME NEW j \in (p + 1)..Len(out) PROVE log[out[j]].mid # m
      <4>1. CASE j <= N
        <5>1. j \in (p + 1)..N /\ j \in 1..N
          BY <1>3, <4>1
        <5>2. QED
          BY <1>5, <3>3, <5>1
      <4>2. CASE j > N
        <5>1. j \in (N + 1)..Len(out)
          BY <1>3, <4>2
        <5>2. out[j] \in (savedRev + 1)..rev
          BY <1>6, <5>1
        <5>3. out[j] \in Nat /\ out[j] > savedRev /\ out[j] \in 1..Len(log)
          BY <1>3, <5>2
        <5>4. QED
          BY <3>1, <5>3 DEF Tells
      <4>3. QED
        BY <1>3, <4>1, <4>2
    <3>6. PhoneHas(m)'
      BY <1>1, <3>4, <3>5 DEF PhoneHas, out, B!Operation
    <3>7. QED
      BY <1>12, <3>6
  <2>5. CASE i > savedRev
    <3>1. i \in (savedRev + 1)..rev
      BY <1>3, <2>2, <2>3, <2>5
    <3>2. m \in recv.cand
      BY <1>1, <2>2, <3>1 DEF BlockRound
    <3>3. m \in recv.result
      BY <1>1, <1>8, <1>12, <3>2 DEF RoundTells
    <3>4. PICK p \in 1..Len(out) : out[p] = i
      BY <1>7, <2>2, <3>1, <3>3 DEF B!Passes
    <3> DEFINE T == {q \in 1..Len(out) : log[out[q]].mid = m}
    <3>5. p \in T
      BY <2>2, <3>4
    <3>6. PICK q \in T : \A r \in T : r <= q
      <4> HIDE DEF T
      <4>1. T # {}
        BY <3>5
      <4>2. T \in SUBSET (1..Len(out))
        BY DEF T
      <4>3. QED
        BY <1>3, <4>1, <4>2, LastPlace
    <3>7. p <= q
      BY <3>5, <3>6
    <3>8. ASSUME NEW j \in (q + 1)..Len(out) PROVE log[out[j]].mid # m
      <4>1. j \in 1..Len(out) /\ ~(j <= q)
        BY <1>3
      <4>2. j \notin T
        BY <3>6, <4>1
      <4>3. QED
        BY <4>1, <4>2
    <3>9. CASE log[out[q]].op = 6
      <4>1. log[out[q]] \in BlockOps
        BY <1>4, BoxTyped
      <4>2. log[out[q]] = B!Operation(6, m)
        BY <3>9, <4>1 DEF BlockOps, B!Operation
      <4>3. PhoneHas(m)'
        BY <1>1, <3>8, <4>2 DEF PhoneHas, out, B!Operation
      <4>4. QED
        BY <1>12, <4>3
    <3>10. CASE log[out[q]].op = 7
      <4>1. p < q
        <5>1. p # q
          BY <2>2, <3>4, <3>10
        <5>2. QED
          BY <3>7, <5>1
      <4>2. out[p] < out[q]
        BY <1>1, <1>2, <3>10, <4>1 DEF BlockOrder, out
      <4>3. out[q] \in (i + 1)..Len(log)
        BY <1>3, <1>4, <2>2, <3>4, <4>2
      <4>4. QED
        BY <2>1, <4>3
    <3>11. QED
      BY <1>3, <1>4, <3>9, <3>10
  <2>6. QED
    BY <1>3, <2>2, <2>4, <2>5
<1>13. status[m] = "blocked" => LastBlocks(m)'
  BY <1>1 DEF PhoneTells, LastBlocks, B!Operation
<1>14. QED
  BY <1>1, <1>8, <1>9, <1>10, <1>11, <1>12, <1>13 DEF PhoneTells

(* Another device acts on contact a.                                         *)
LEMMA DeviceTells ==
    ASSUME BlockTypes, NEW a \in Mids, B!OtherDevice(a), NEW m \in Mids,
           PhoneTells(m), RoundTells(m)
    PROVE  PhoneTells(m)' /\ RoundTells(m)'
<1>1. PICK n \in {6, 7} :
          /\ log' = Append(log, B!Operation(n, a))
          /\ n = 6 => status[a] = "free"
          /\ n = 7 => status[a] # "free"
          /\ \E s \in B!ContactStates : status' = [status EXCEPT ![a] = s] /\ (n = 7 => s = "free")
  BY OtherDeviceIs
<1>2. UNCHANGED <<rev, savedRev, recv, starting, outbox>>
  BY DEF B!OtherDevice
<1>3. /\ log' \in Seq(BlockOps) /\ Len(log) <= Len(log') /\ Len(log') \in Nat
      /\ \A k \in 1..Len(log) : log'[k] = log[k]
  BY <1>1, LogGrew DEF LogGrows
<1>4. /\ \A k : InBox(k)' <=> InBox(k)
      /\ PhoneHas(m)' <=> PhoneHas(m)
      /\ \A k \in Nat : (Unsaid(m, k) => Unsaid(m, k)') /\ (Tells(m, k) => Tells(m, k)')
  BY <1>2, <1>3, OutboxStays
<1>5. UpTo' = UpTo /\ ResultOf' = ResultOf /\ InRound' = InRound
      /\ UpTo \in Nat /\ UpTo <= Len(log) /\ Len(log) \in Nat /\ rev <= Len(log) /\ rev \in Nat
  BY <1>2, BoxTyped DEF UpTo, ResultOf, InRound, Found
<1>6. PICK u \in Nat : u = Len(log) + 1
  BY <1>5
<1>7. Len(log') = u /\ log'[u] = B!Operation(n, a) /\ u \in Nat /\ u > UpTo /\ u > rev
  BY <1>1, <1>5, <1>6 DEF BlockTypes
<1>8. ~InBox(u)
  BY <1>6, BoxTyped DEF InBox
<1>9. Tells(a, u)' /\ (n = 7 => Unsaid(a, u)')
  <2>1. u \in 1..Len(log') /\ log'[u].mid = a
    BY <1>5, <1>7 DEF B!Operation
  <2>2. ~InBox(u)'
    BY <1>4, <1>8
  <2>3. Tells(a, u)'
    BY <2>1 DEF Tells
  <2>4. n = 7 => Unsaid(a, u)'
    BY <1>7, <2>1, <2>2 DEF Unsaid, B!Operation
  <2>5. QED
    BY <2>3, <2>4
<1>10. CASE m # a
  <2>1. status'[m] = status[m]
    BY <1>1, <1>10 DEF BlockTypes
  <2>2. LastBlocks(m) => LastBlocks(m)'
    <3> SUFFICES ASSUME LastBlocks(m) PROVE LastBlocks(m)'
      OBVIOUS
    <3>1. PICK k \in 1..Len(log) : /\ log[k] = B!Operation(6, m)
                                   /\ \A j \in (k + 1)..Len(log) : log[j].mid # m
      BY DEF LastBlocks
    <3>2. k \in 1..Len(log') /\ log'[k] = B!Operation(6, m)
      BY <1>3, <1>5, <3>1
    <3>3. \A j \in (k + 1)..Len(log') : j \in (k + 1)..Len(log) \/ j = u
      BY <1>5, <1>7, <1>6
    <3>4. \A j \in (k + 1)..Len(log) : j \in 1..Len(log)
      BY <1>5
    <3>5. \A j \in (k + 1)..Len(log') : log'[j].mid # m
      BY <1>3, <1>7, <1>10, <3>1, <3>3, <3>4 DEF B!Operation
    <3>6. QED
      BY <3>2, <3>5 DEF LastBlocks, B!Operation
  <2>3. QED
    BY <1>2, <1>4, <1>5, <2>1, <2>2 DEF PhoneTells, RoundTells
<1>11. CASE m = a /\ n = 6
  <2>1. status[m] = "free" /\ u \in 1..Len(log') /\ Tells(m, u)'
    BY <1>1, <1>5, <1>7, <1>9, <1>11, <1>6
  <2>2. LastBlocks(m)'
    <3>1. \A j \in (u + 1)..Len(log') : log'[j].mid # m
      BY <1>7
    <3>2. QED
      BY <1>7, <1>11, <2>1, <3>1 DEF LastBlocks, B!Operation
  <2>3. status[m] # "blocked"
    BY <2>1
  <2>4. (\E k \in Nat : k > UpTo' /\ Tells(m, k)') /\ (\E k \in Nat : k > rev' /\ Tells(m, k)')
    BY <1>2, <1>5, <1>7, <2>1
  <2>5. PhoneTells(m)'
    BY <1>4, <1>5, <2>2, <2>3, <2>4 DEF PhoneTells
  <2>6. RoundTells(m)'
    BY <1>2, <1>4, <1>5, <2>3, <2>4 DEF RoundTells
  <2>7. QED
    BY <2>5, <2>6
<1>12. CASE m = a /\ n = 7
  <2>1. status'[m] = "free" /\ Unsaid(m, u)'
    BY <1>1, <1>9, <1>12 DEF BlockTypes
  <2>2. status'[m] # "blocked"
    BY <2>1
  <2>3. (\E k \in Nat : k > UpTo' /\ Unsaid(m, k)') /\ (\E k \in Nat : k > rev' /\ Unsaid(m, k)')
    BY <1>2, <1>5, <1>7, <2>1
  <2>4. PhoneTells(m)' /\ RoundTells(m)'
    BY <2>2, <2>3 DEF PhoneTells, RoundTells
  <2>5. QED
    BY <2>4
<1>13. QED
  BY <1>10, <1>11, <1>12

(* No operation comes and none is passed on.                                 *)
LEMMA QuietTells ==
    ASSUME BlockTypes, UNCHANGED <<status, log, outbox>>, UpTo' \in Nat, UpTo' <= UpTo,
           NEW m \in Mids, PhoneTells(m)
    PROVE  PhoneTells(m)'
<1>1. /\ PhoneHas(m)' <=> PhoneHas(m)
      /\ \A k \in Nat : (Unsaid(m, k) => Unsaid(m, k)') /\ (Tells(m, k) => Tells(m, k)')
  BY OutboxStays, BoxTyped
<1>2. LastBlocks(m)' <=> LastBlocks(m)
  BY DEF LastBlocks, B!Operation
<1>3. UpTo \in Nat
  BY BoxTyped DEF UpTo
<1>4. QED
  BY <1>1, <1>2, <1>3 DEF PhoneTells

LEMMA BlockStepPhone ==
    ASSUME BlockTypes, BlockRound, BlockSeen, BlockOrder, BlockPhone, B!Next
    PROVE  BlockPhone'
<1> SUFFICES ASSUME jobs' = 0, failures' = 0
             PROVE  send'.phase = "idle" /\ \A m \in Mids : PhoneTells(m)' /\ RoundTells(m)'
  BY DEF BlockPhone
<1> USE DEF B!countVars
<1>1. failures = 0
  <2>1. CASE B!GetContacts
    BY <2>1 DEF B!GetContacts, BlockTypes
  <2>2. CASE ~B!GetContacts
    BY <2>2, NotAnswered
  <2>3. QED
    BY <2>1, <2>2
<1>2. jobs = 0 /\ \A m \in Mids : ~B!CallLine(m)
  <2>1. \A m \in Mids : ~B!CallLine(m)
    BY DEF B!CallLine, BlockTypes
  <2>2. jobs' = jobs
    <3>1. ASSUME NEW m \in Mids, B!OtherDevice(m) PROVE jobs' = jobs
      BY <3>1 DEF B!OtherDevice
    <3>2. CASE B!SyncRound \/ B!CallReturns \/ B!AnswerLost \/ B!GetContacts \/ B!WriteRecv
      BY <3>2 DEF B!SyncRound, B!CallReturns, B!AnswerLost, B!GetContacts, B!WriteRecv
    <3>3. CASE B!WriteSend \/ B!Forward \/ B!SaveRev \/ B!Restart
      BY <3>3 DEF B!WriteSend, B!Forward, B!SaveRev, B!Restart
    <3>4. QED
      BY <2>1, <3>1, <3>2, <3>3 DEF B!Next
  <2>3. QED
    BY <2>1, <2>2
<1>3. send.phase = "idle" /\ \A m \in Mids : PhoneTells(m) /\ RoundTells(m)
  BY <1>1, <1>2 DEF BlockPhone
<1>4. UpTo \in Nat /\ savedRev \in Nat /\ rev \in Nat /\ savedRev <= rev /\ savedRev <= UpTo
  BY BoxTyped DEF UpTo
<1>5. ASSUME NEW a \in Mids, B!OtherDevice(a)
      PROVE  send'.phase = "idle" /\ \A m \in Mids : PhoneTells(m)' /\ RoundTells(m)'
  BY <1>3, <1>5, DeviceTells DEF B!OtherDevice
<1>6. CASE B!SyncRound
  <2>1. recv'.phase = "asked" /\ UNCHANGED <<status, log, outbox, send, savedRev>>
        /\ recv.phase = "idle"
    BY <1>6, SyncRoundIs DEF B!SyncRound, Starts
  <2>2. UpTo' = UpTo
    BY <2>1 DEF UpTo
  <2>3. \A m \in Mids : RoundTells(m)'
    BY <2>1 DEF RoundTells
  <2>4. QED
    BY <1>3, <1>4, <2>1, <2>2, <2>3, QuietTells
<1>7. CASE B!CallReturns \/ B!WriteSend
  BY <1>3, <1>7 DEF B!CallReturns, B!WriteSend
<1>8. CASE B!GetContacts
  <2>1. Answers(recv', recv) /\ AnswersWell(recv') /\ send' = send /\ recv.phase = "asked"
    BY <1>1, <1>3, <1>8, GetContactsIs
  <2>2. UNCHANGED <<status, log, rev, savedRev, outbox, starting>>
    BY <1>8 DEF B!GetContacts
  <2>3. UpTo' = UpTo
    BY <2>1, <2>2 DEF UpTo, Answers
  <2>4. ASSUME NEW m \in Mids PROVE RoundTells(m)'
    BY <2>1, <2>2 DEF RoundTells, ResultOf, Found, Answers, AnswersWell
  <2>5. QED
    BY <1>3, <1>4, <2>1, <2>2, <2>3, <2>4, QuietTells
<1>9. CASE B!WriteRecv
  <2>1. UNCHANGED <<status, log, rev, savedRev, outbox, send>> /\ recv.phase = "answered"
        /\ starting' = FALSE
    BY <1>9 DEF B!WriteRecv
  <2>2. B!Outcome(recv) = Found(recv)
    BY <1>1, <2>1, FoundIs
  <2>3. CASE starting
    <3>1. recv'.phase = "idle"
      BY <1>9, <2>3, IdleIs DEF B!WriteRecv
    <3>2. UpTo' = UpTo
      BY <2>1, <3>1 DEF UpTo
    <3>3. \A m \in Mids : RoundTells(m)'
      BY <3>1 DEF RoundTells
    <3>4. QED
      BY <1>3, <1>4, <2>1, <3>2, <3>3, QuietTells
  <2>4. CASE ~starting
    <3>1. recv' = [recv EXCEPT !.phase = "forward", !.result = Found(recv)]
      BY <1>9, <2>2, <2>4 DEF B!WriteRecv
    <3>2. /\ recv'.phase = "forward" /\ recv'.cand = recv.cand /\ recv'.prev = recv.prev
          /\ recv'.result = Found(recv)
      BY <3>1 DEF BlockTypes, Refreshes, B!Refresh
    <3>3. UpTo' = UpTo /\ ResultOf' = ResultOf /\ InRound
      BY <2>1, <2>4, <3>2 DEF UpTo, ResultOf, InRound
    <3>4. ASSUME NEW m \in Mids PROVE RoundTells(m)'
      <4>1. \A k \in Nat : (Unsaid(m, k) => Unsaid(m, k)') /\ (Tells(m, k) => Tells(m, k)')
        BY <2>1, OutboxStays, BoxTyped
      <4>2. RoundTells(m)
        BY <1>3
      <4>3. QED
        BY <2>1, <3>2, <3>3, <4>1, <4>2 DEF RoundTells
    <3>5. QED
      BY <1>3, <1>4, <2>1, <3>3, <3>4, QuietTells
  <2>5. QED
    BY <2>3, <2>4
<1>10. CASE B!Forward
  <2>1. \A m \in Mids : PhoneTells(m)'
    BY <1>3, <1>10, ForwardTells
  <2>2. recv'.phase = "save" /\ send' = send
    BY <1>10 DEF B!Forward, BlockTypes, Refreshes, B!Refresh
  <2>3. \A m \in Mids : RoundTells(m)'
    BY <2>2 DEF RoundTells
  <2>4. QED
    BY <1>3, <2>1, <2>2, <2>3
<1>11. CASE B!SaveRev
  <2>1. /\ UNCHANGED <<status, log, rev, outbox, send>> /\ recv.phase = "save"
        /\ recv'.phase = "idle" /\ savedRev' = rev
    BY <1>11, IdleIs DEF B!SaveRev
  <2>2. UpTo' = UpTo
    BY <2>1 DEF UpTo
  <2>3. \A m \in Mids : RoundTells(m)'
    BY <2>1 DEF RoundTells
  <2>4. QED
    BY <1>3, <1>4, <2>1, <2>2, <2>3, QuietTells
<1>12. CASE B!Restart
  <2>1. /\ recv'.phase = "asked" /\ send'.phase = "idle"
        /\ UNCHANGED <<status, log, outbox, savedRev>>
    BY <1>12, RestartIs, IdleIs DEF B!Restart, Starts
  <2>2. UpTo' = savedRev
    BY <2>1 DEF UpTo
  <2>3. \A m \in Mids : RoundTells(m)'
    BY <1>12 DEF RoundTells, InRound, B!Restart
  <2>4. QED
    BY <1>3, <1>4, <2>1, <2>2, <2>3, QuietTells
<1>13. ~B!AnswerLost
  BY DEF B!AnswerLost, BlockTypes
<1>14. QED
  BY <1>2, <1>5, <1>6, <1>7, <1>8, <1>9, <1>10, <1>11, <1>12, <1>13 DEF B!Next

BlockInv ==
    /\ BlockTypes /\ BlockRound /\ BlockSeen
    /\ BlockFile /\ BlockOrder /\ BlockPhone

LEMMA BlockInit ==
    ASSUME B!Init
    PROVE  BlockInv
<1> USE DEF B!Init
<1>1. recv.phase = "idle" /\ send.phase = "idle" /\ Len(log) = 0 /\ Len(outbox) = 0
      /\ rev = 0 /\ savedRev = 0 /\ ~starting
  BY IdleIs
<1>2. \A m \in Mids : status[m] = "free" /\ m \notin file
  OBVIOUS
<1>3. BlockTypes
  BY <1>1, IdleIs DEF BlockTypes, B!ContactStates
<1>4. BlockRound /\ BlockSeen
  BY <1>1 DEF BlockRound, BlockSeen, InRound
<1>5. BlockFile
  BY <1>1, <1>2 DEF BlockFile, FileKnows
<1>6. BlockOrder
  BY <1>1 DEF BlockOrder
<1>7. BlockPhone
  BY <1>1, <1>2 DEF BlockPhone, PhoneTells, RoundTells, PhoneHas, InRound
<1>8. QED
  BY <1>3, <1>4, <1>5, <1>6, <1>7 DEF BlockInv

LEMMA BlockStep ==
    ASSUME BlockInv, [B!Next]_(B!vars)
    PROVE  BlockInv'
<1>1. CASE UNCHANGED B!vars
  <2> USE <1>1 DEF B!vars, B!countVars
  <2>1. BlockTypes' /\ BlockRound' /\ BlockSeen'
    BY DEF BlockInv, BlockTypes, BlockRound, BlockSeen, InRound
  <2>2. BlockFile'
    BY DEF BlockInv, BlockFile, FileKnows, Covered, Found
  <2>3. BlockOrder'
    BY DEF BlockInv, BlockOrder, InBox
  <2>4. BlockPhone'
    <3>1. UpTo' = UpTo /\ ResultOf' = ResultOf /\ InRound' = InRound /\ UpTo \in Nat
      BY BoxTyped DEF BlockInv, UpTo, ResultOf, Found, InRound
    <3>2. ASSUME NEW m \in Mids, PhoneTells(m) PROVE PhoneTells(m)'
      BY <3>1, <3>2, QuietTells DEF BlockInv
    <3>3. ASSUME NEW m \in Mids, RoundTells(m) PROVE RoundTells(m)'
      <4>1. \A k \in Nat : (Unsaid(m, k) => Unsaid(m, k)') /\ (Tells(m, k) => Tells(m, k)')
        BY OutboxStays, BoxTyped DEF BlockInv
      <4>2. QED
        BY <3>1, <3>3, <4>1 DEF RoundTells
    <3>4. QED
      BY <3>2, <3>3 DEF BlockInv, BlockPhone
  <2>5. QED
    BY <2>1, <2>2, <2>3, <2>4 DEF BlockInv
<1>2. CASE B!Next
  BY <1>2, BlockStepTypes, BlockStepRound, BlockStepSeen, BlockStepFile, BlockStepOrder,
     BlockStepPhone DEF BlockInv
<1>3. QED
  BY <1>1, <1>2

LEMMA BlockFileIs ==
    ASSUME BlockInv
    PROVE  B!FileIsCurrent
<1> SUFFICES ASSUME B!Settled, ~met, failures = 0, NEW m \in Mids
             PROVE  m \in file <=> status[m] = "blocked"
  BY DEF B!FileIsCurrent, B!Blocked, BlockInv, BlockTypes
<1>1. FileKnows(m)
  BY DEF BlockInv, BlockFile
<1>2. ~Covered(m)
  BY BoxTyped DEF BlockInv, B!Settled, Covered
<1>3. QED
  BY <1>1, <1>2 DEF FileKnows, B!Settled

LEMMA BlockPhoneIs ==
    ASSUME BlockInv
    PROVE  B!PhoneAgrees
<1> SUFFICES ASSUME B!Settled, jobs = 0, failures = 0, NEW m \in Mids
             PROVE  m \in B!PhoneBlocked <=> status[m] = "blocked"
  BY DEF B!PhoneAgrees, B!Blocked, B!PhoneBlocked
<1>1. PhoneTells(m)
  BY DEF BlockInv, BlockPhone
<1>2. UpTo = Len(log) /\ Len(log) \in Nat
  <2>1. ~InRound
    BY DEF B!Settled, InRound
  <2>2. QED
    BY <2>1, BoxTyped DEF BlockInv, BlockRound, B!Settled, UpTo
<1>3. \A k \in Nat : k > UpTo => ~Tells(m, k) /\ ~Unsaid(m, k)
  BY <1>2 DEF Tells, Unsaid
<1>4. m \in B!PhoneBlocked <=> PhoneHas(m)
  BY DEF B!PhoneBlocked, PhoneHas
<1>5. QED
  BY <1>1, <1>3, <1>4 DEF PhoneTells

-----------------------------------------------------------------------------
(* The call gateway *)

(* A ring that is or was the active call has its upstream call ready, so    *)
(* that nothing reopens its transport.                                      *)
RingSettled(r) == pc[r] \in {"media", "up", "failing", "ended"} /\ upstream[r] = "ready"
RingOwned ==
    \A r \in Rings : /\ active = r \/ r \in cancelled => RingSettled(r)
                     /\ pc[r] = "answering" => upstream[r] = "ready"

(* Whose handler is at work, or whose bridge runs, is the active call, was  *)
(* closed, or was pushed out by an answered ring.                           *)
AtWork(c) == pc[c] \in G!OutSteps \/ c \in ticking
OwnerInv == \A c \in G!AllCalls : AtWork(c) => active = c \/ c \in cancelled \cup displaced

(* A call closed in time holds nothing and is at no await behind which the  *)
(* code takes something without looking at cancelled.                       *)
Holds(c) == port = c \/ c \in ticking \/ planet[c] = "open"
ClosedInv == \A c \in cancelled \ late : pc[c] \notin {"route", "media"} /\ ~Holds(c)

GateInv == G!TypeOK /\ RingOwned /\ OwnerInv /\ ClosedInv

LEMMA GateInit ==
    ASSUME G!CallAssumption, G!Init
    PROVE  GateInv
<1> USE DEF G!Init, G!AllCalls, G!CallAssumption
<1>1. G!TypeOK
  BY DEF G!TypeOK, G!OutSteps, G!RingSteps, G!InProgress
<1>2. RingOwned /\ OwnerInv /\ ClosedInv
  BY DEF RingOwned, OwnerInv, ClosedInv, AtWork, G!OutSteps
<1>3. QED
  BY <1>1, <1>2 DEF GateInv

(* What closeActive leaves of the variables of the calls.                   *)
LEMMA Closes ==
    ASSUME G!CallAssumption, G!TypeOK, G!CloseActive
    PROVE  /\ active' = None
           /\ active = None => UNCHANGED <<cancelled, planet, port, ticking, logged, late>>
           /\ active # None =>
                 /\ active \in G!AllCalls /\ cancelled' = cancelled \cup {active}
                 /\ port' # active /\ ticking' = ticking \ {active}
                 /\ port' \in {port, None}
                 /\ planet'[active] # "open"
                 /\ \A c \in G!AllCalls \ {active} : planet'[c] = planet[c]
                 /\ late' = IF pc[active] \in {"route", "media"} THEN late \cup {active} ELSE late
           /\ cancelled' \subseteq G!AllCalls /\ late' \subseteq G!AllCalls
           /\ planet' \in [G!AllCalls -> {"none", "open", "gone", "closed"}]
           /\ port' \in G!AllCalls \cup {None} /\ ticking' \subseteq G!AllCalls
           /\ logged' \in [OutCalls -> Nat]
<1> USE DEF G!CallAssumption, G!TypeOK, G!CloseActive, G!AllCalls
<1>1. CASE active = None
  BY <1>1
<1>2. CASE active # None
  <2>1. active \in G!AllCalls /\ active' = None /\ cancelled' = cancelled \cup {active}
        /\ ticking' = ticking \ {active} /\ port' \in {port, None} /\ port' # active
        /\ late' = IF pc[active] \in {"route", "media"} THEN late \cup {active} ELSE late
    BY <1>2 DEF G!FreedPort, G!Unguarded
  <2>2. planet' = [planet EXCEPT ![active] = IF @ = "none" THEN @ ELSE "closed"]
    BY <1>2
  <2>3. logged' \in [OutCalls -> Nat]
    BY <1>2
  <2>4. QED
    BY <1>2, <2>1, <2>2, <2>3
<1>3. QED
  BY <1>1, <1>2

(* A step that closes the active call and sends nobody on.                  *)
LEMMA ClosesSafely ==
    ASSUME G!CallAssumption, GateInv, G!CloseActive, UNCHANGED <<upstream, displaced>>,
           G!TypeOK',
           \A c \in G!AllCalls : pc'[c] = pc[c] \/ (c \in OutCalls /\ pc'[c] = "ended")
    PROVE  GateInv'
<1>1. /\ active' = None
      /\ active = None => UNCHANGED <<cancelled, planet, port, ticking, logged, late>>
      /\ active # None =>
            /\ active \in G!AllCalls /\ cancelled' = cancelled \cup {active}
            /\ port' # active /\ ticking' = ticking \ {active}
            /\ port' \in {port, None}
            /\ planet'[active] # "open"
            /\ \A c \in G!AllCalls \ {active} : planet'[c] = planet[c]
            /\ late' = IF pc[active] \in {"route", "media"} THEN late \cup {active} ELSE late
  BY Closes DEF GateInv
<1>2. None \notin G!AllCalls /\ Rings \subseteq G!AllCalls /\ OutCalls \cap Rings = {}
      /\ cancelled \subseteq G!AllCalls /\ ticking \subseteq G!AllCalls
  BY DEF G!CallAssumption, G!AllCalls, GateInv, G!TypeOK
<1>3. RingOwned'
  BY <1>1, <1>2 DEF GateInv, RingOwned, RingSettled
<1>4. OwnerInv'
  BY <1>1, <1>2 DEF GateInv, OwnerInv, AtWork, G!OutSteps
<1>5. ClosedInv'
  BY <1>1, <1>2 DEF GateInv, ClosedInv, Holds
<1>6. QED
  BY <1>3, <1>4, <1>5 DEF GateInv

(* A step that takes one handler on to a place behind which nothing is      *)
(* taken, and leaves alone what the calls hold.                             *)
LEMMA GoesOn ==
    ASSUME G!CallAssumption, GateInv, G!TypeOK', NEW c \in G!AllCalls, NEW s,
           G!KeepCalls, UNCHANGED <<upstream, displaced>>,
           pc' = [pc EXCEPT ![c] = s],
           s \notin {"answering"},
           c \in Rings => s \in {"media", "up", "failing", "ended"} \/ (active # c /\ c \notin cancelled),
           s \in G!OutSteps => pc[c] \in G!OutSteps,
           s \in {"route", "media"} => c \notin cancelled
    PROVE  GateInv'
<1>1. /\ pc'[c] = s /\ \A d \in G!AllCalls \ {c} : pc'[d] = pc[d]
      /\ UNCHANGED <<active, cancelled, planet, port, ticking, logged, late>>
      /\ Rings \subseteq G!AllCalls /\ cancelled \subseteq G!AllCalls /\ ticking \subseteq G!AllCalls
  BY DEF GateInv, G!TypeOK, G!KeepCalls, G!callVars, G!AllCalls
<1>2. RingOwned'
  BY <1>1 DEF GateInv, RingOwned, RingSettled
<1>3. OwnerInv'
  BY <1>1 DEF GateInv, OwnerInv, AtWork
<1>4. ClosedInv'
  BY <1>1 DEF GateInv, ClosedInv, Holds
<1>5. QED
  BY <1>2, <1>3, <1>4 DEF GateInv

(* A step that concerns neither the handlers nor what the calls hold.       *)
LEMMA StandsBy ==
    ASSUME GateInv, G!TypeOK', G!KeepCalls, UNCHANGED <<pc, upstream, displaced>>
    PROVE  GateInv'
BY DEF GateInv, G!KeepCalls, G!callVars, RingOwned, RingSettled, OwnerInv, AtWork, ClosedInv, Holds

LEMMA GateTypes ==
    ASSUME G!CallAssumption, G!TypeOK, G!Next
    PROVE  G!TypeOK'
<1> USE DEF G!TypeOK, G!AllCalls, G!KeepCalls, G!callVars, G!ringVars, G!phoneVars, G!GoTo, G!Over,
            G!Bye, G!InProgress, G!OutSteps, G!RingSteps
<1>1. ASSUME NEW o \in OutCalls, G!Invite(o) PROVE G!TypeOK'
  BY <1>1 DEF G!Invite
<1>2. ASSUME NEW o \in OutCalls, G!OutStep(o) PROVE G!TypeOK'
  <2>1. CASE G!Abandon(o)
    BY <2>1 DEF G!Abandon
  <2>2. CASE G!Proceed(o)
    <3>1. PICK t \in {<<"client", "route">>, <<"connect", "invite">>, <<"invite", "answer">>} :
             pc' = [pc EXCEPT ![o] = t[2]]
      BY <2>2, Zenon DEF G!Proceed, G!GoTo
    <3>2. t[2] \in G!OutSteps
      OBVIOUS
    <3>3. QED
      BY <2>2, <3>1, <3>2 DEF G!Proceed
  <2>3. CASE G!OpenTransport(o)
    BY <2>3 DEF G!OpenTransport
  <2>4. CASE G!PeerAnswers(o)
    BY <2>4 DEF G!PeerAnswers
  <2>5. CASE G!OutBridge(o)
    BY <2>5 DEF G!OutBridge, G!BridgeStarts
  <2>6. CASE G!OutFails(o)
    <3>1. CASE o \in cancelled
      BY <2>6, <3>1 DEF G!OutFails
    <3>2. CASE o \notin cancelled
      <4>1. G!CloseActive /\ UNCHANGED <<ringing, armed, upstream, timer, owed, displaced>>
            /\ pc' = [pc EXCEPT ![o] = "ended"] /\ dialog' = [dialog EXCEPT ![o] = "over"]
        BY <2>6, <3>2 DEF G!OutFails, G!FinalResponse
      <4>2. QED
        BY <4>1, Closes
    <3>3. QED
      BY <3>1, <3>2
  <2>7. QED
    BY <1>2, <2>1, <2>2, <2>3, <2>4, <2>5, <2>6 DEF G!OutStep
<1>3. ASSUME NEW c \in G!AllCalls, G!HangUp(c) PROVE G!TypeOK'
  BY <1>3, Closes DEF G!HangUp
<1>4. ASSUME NEW c \in G!AllCalls, G!PlanetRelease(c) PROVE G!TypeOK'
  <2>1. CASE G!Owned(c)
    <3>1. G!CloseActive
          /\ UNCHANGED <<ringing, armed, upstream, timer, pc, displaced>>
          /\ dialog' = [dialog EXCEPT ![c] = "over"] /\ owed' = owed \cup {"ok"}
      BY <1>4, <2>1 DEF G!PlanetRelease
    <3>2. QED
      BY <3>1, Closes
  <2>2. CASE ~G!Owned(c)
    BY <1>4, <2>2 DEF G!PlanetRelease
  <2>3. QED
    BY <2>1, <2>2
<1>5. CASE G!Arm
  BY <1>5 DEF G!Arm
<1>6. CASE G!LateOk
  <2>1. CASE ringing # None /\ pc[ringing] = "invited"
    <3>1. ringing \in Rings /\ dialog' \in {dialog, [dialog EXCEPT ![ringing] = "over"]}
      BY <1>6, <2>1 DEF G!LateOk, G!Accepted
    <3>2. /\ pc' = [pc EXCEPT ![ringing] = "failing"] /\ timer' \subseteq Rings
          /\ owed' \subseteq {"ok", "refusal"}
          /\ UNCHANGED <<active, ringing, armed, upstream, cancelled, planet, port, ticking,
                         logged, displaced, late>>
      BY <1>6, <2>1 DEF G!LateOk, G!Accepted
    <3>3. QED
      BY <3>1, <3>2
  <2>2. CASE ~(ringing # None /\ pc[ringing] = "invited")
    BY <1>6, <2>2 DEF G!LateOk, G!Accepted
  <2>3. QED
    BY <2>1, <2>2
<1>7. CASE G!LateRefusal
  BY <1>7 DEF G!LateRefusal, G!Refused
<1>8. ASSUME NEW r \in Rings, G!Register(r) PROVE G!TypeOK'
  BY <1>8 DEF G!Register
<1>9. ASSUME NEW r \in Rings, G!RingStep(r) PROVE G!TypeOK'
  <2>1. CASE G!Ring(r)
    BY <2>1 DEF G!Ring
  <2>2. CASE G!RingFails(r)
    BY <2>2 DEF G!RingFails
  <2>3. CASE G!UpstreamEnds(r)
    <3>1. PICK u \in {<<"ready", "open">>, <<"failed", "open">>, <<"failed", "none">>} :
             upstream' = [upstream EXCEPT ![r] = u[1]] /\ planet' = [planet EXCEPT ![r] = u[2]]
      BY <2>3, Zenon DEF G!UpstreamEnds
    <3>2. u[1] \in {"ready", "failed"} /\ u[2] \in {"open", "none"}
      OBVIOUS
    <3>3. QED
      BY <2>3, <3>1, <3>2 DEF G!UpstreamEnds
  <2>4. CASE G!Join(r)
    BY <2>4 DEF G!Join
  <2>5. CASE G!Connect(r)
    BY <2>5 DEF G!Connect
  <2>6. CASE G!RingBridge(r)
    BY <2>6 DEF G!RingBridge, G!BridgeStarts
  <2>7. CASE G!FinishFails(r)
    BY <2>7 DEF G!FinishFails
  <2>8. CASE G!FinishGivesUp(r)
    BY <2>8 DEF G!FinishGivesUp
  <2>9. QED
    BY <1>9, <2>1, <2>2, <2>3, <2>4, <2>5, <2>6, <2>7, <2>8 DEF G!RingStep
<1>10. ASSUME NEW r \in Rings, G!RingTimeout(r) PROVE G!TypeOK'
  BY <1>10 DEF G!RingTimeout
<1>11. ASSUME NEW r \in Rings, G!Answer(r) PROVE G!TypeOK'
  BY <1>11 DEF G!Answer, G!Accepted
<1>12. ASSUME NEW r \in Rings, G!Decline(r) PROVE G!TypeOK'
  BY <1>12 DEF G!Decline, G!Refused
<1>13. QED
  BY <1>1, <1>2, <1>3, <1>4, <1>5, <1>6, <1>7, <1>8, <1>9, <1>10, <1>11, <1>12 DEF G!Next

(* A media bridge starts for a call that is the active one, or was closed   *)
(* late, or was pushed out.                                                 *)
LEMMA BridgeUp ==
    ASSUME GateInv, G!TypeOK', NEW c \in G!AllCalls, G!BridgeStarts(c),
           UNCHANGED <<upstream, displaced>>
    PROVE  GateInv'
<1>1. /\ pc[c] = "media" /\ pc'[c] = "up" /\ \A d \in G!AllCalls \ {c} : pc'[d] = pc[d]
      /\ port = None /\ port' = c /\ ticking' = ticking \cup {c}
      /\ UNCHANGED <<active, cancelled, planet, late>>
      /\ Rings \subseteq G!AllCalls /\ cancelled \subseteq G!AllCalls /\ ticking \subseteq G!AllCalls
  BY DEF G!BridgeStarts, G!GoTo, GateInv, G!TypeOK, G!AllCalls
<1>2. RingOwned'
  BY <1>1 DEF GateInv, RingOwned, RingSettled
<1>3. OwnerInv'
  BY <1>1 DEF GateInv, OwnerInv, AtWork, G!OutSteps
<1>4. ClosedInv'
  BY <1>1 DEF GateInv, ClosedInv, Holds
<1>5. QED
  BY <1>2, <1>3, <1>4 DEF GateInv

(* The phone dials while no call is active, or is refused.                  *)
LEMMA DialStep ==
    ASSUME G!CallAssumption, GateInv, G!TypeOK', NEW o \in OutCalls, G!Invite(o)
    PROVE  GateInv'
<1>1. CASE active # None
  BY <1>1, StandsBy DEF G!Invite, G!Free, G!KeepCalls, G!callVars, G!ringVars
<1>2. CASE active = None
  <2>1. /\ active' = o /\ pc'[o] = "client" /\ \A d \in G!AllCalls \ {o} : pc'[d] = pc[d]
        /\ o \in G!AllCalls /\ o \notin Rings /\ None \notin G!AllCalls
        /\ Rings \subseteq G!AllCalls /\ cancelled \subseteq G!AllCalls /\ ticking \subseteq G!AllCalls
        /\ UNCHANGED <<cancelled, planet, port, ticking, late, upstream, displaced>>
    BY <1>2 DEF G!Invite, G!Free, G!GoTo, G!ringVars, GateInv, G!TypeOK, G!AllCalls, G!CallAssumption
  <2>2. RingOwned'
    BY <2>1 DEF GateInv, RingOwned, RingSettled
  <2>3. OwnerInv'
    BY <1>2, <2>1 DEF GateInv, OwnerInv, AtWork
  <2>4. ClosedInv'
    BY <2>1 DEF GateInv, ClosedInv, Holds
  <2>5. QED
    BY <2>2, <2>3, <2>4 DEF GateInv
<1>3. QED
  BY <1>1, <1>2

LEMMA ReleaseStep ==
    ASSUME G!CallAssumption, GateInv, G!TypeOK', NEW c \in G!AllCalls, G!PlanetRelease(c)
    PROVE  GateInv'
<1>1. CASE G!Owned(c)
  BY <1>1, ClosesSafely DEF G!PlanetRelease, G!ringVars
<1>2. CASE ~G!Owned(c)
  <2>1. /\ planet'[c] = "gone" /\ \A d \in G!AllCalls \ {c} : planet'[d] = planet[d]
        /\ UNCHANGED <<active, cancelled, port, ticking, late, pc, upstream, displaced>>
        /\ cancelled \subseteq G!AllCalls
    BY <1>2 DEF G!PlanetRelease, G!ringVars, GateInv, G!TypeOK
  <2>2. RingOwned' /\ OwnerInv'
    BY <2>1 DEF GateInv, RingOwned, RingSettled, OwnerInv, AtWork
  <2>3. ClosedInv'
    BY <2>1 DEF GateInv, ClosedInv, Holds
  <2>4. QED
    BY <2>2, <2>3 DEF GateInv
<1>3. QED
  BY <1>1, <1>2

LEMMA RegisterStep ==
    ASSUME G!CallAssumption, GateInv, G!TypeOK', NEW r \in Rings, G!Register(r)
    PROVE  GateInv'
<1>1. pc[r] = "none" /\ r \in G!AllCalls /\ G!KeepCalls /\ UNCHANGED <<upstream, displaced>>
  BY DEF G!Register, G!AllCalls
<1>2. active # r /\ r \notin cancelled
  BY <1>1 DEF GateInv, RingOwned, RingSettled
<1>3. PICK s \in {"offer", "ended"} : pc' = [pc EXCEPT ![r] = s]
  BY DEF G!Register, G!GoTo
<1>4. QED
  BY <1>1, <1>2, <1>3, GoesOn DEF G!OutSteps

LEMMA GateOutStep ==
    ASSUME G!CallAssumption, GateInv, G!TypeOK', NEW o \in OutCalls, G!OutStep(o)
    PROVE  GateInv'
<1> USE DEF G!GoTo, G!ringVars, G!phoneVars, G!OutSteps
<1>1. o \in G!AllCalls /\ o \notin Rings
      /\ pc \in [G!AllCalls -> G!OutSteps \cup G!RingSteps \cup {"none", "up", "ended"}]
      /\ Rings \subseteq G!AllCalls /\ cancelled \subseteq G!AllCalls /\ ticking \subseteq G!AllCalls
      /\ planet \in [G!AllCalls -> {"none", "open", "gone", "closed"}]
  BY DEF G!CallAssumption, G!AllCalls, GateInv, G!TypeOK
<1>2. CASE G!Abandon(o)
  BY <1>1, <1>2, GoesOn DEF G!Abandon
<1>3. CASE G!Proceed(o)
  <2>1. PICK t \in {<<"client", "route">>, <<"connect", "invite">>, <<"invite", "answer">>} :
           pc[o] = t[1] /\ pc' = [pc EXCEPT ![o] = t[2]]
    BY <1>3, Zenon DEF G!Proceed, G!GoTo
  <2>2. PICK s : s = t[2]
    OBVIOUS
  <2>3. s \in {"route", "invite", "answer"} /\ pc[o] \in G!OutSteps
    BY <2>1, <2>2
  <2>4. QED
    BY <1>1, <1>3, <2>1, <2>2, <2>3, GoesOn DEF G!Proceed
<1>4. CASE G!OpenTransport(o)
  <2>1. /\ pc[o] = "route" /\ pc'[o] = "connect" /\ \A d \in G!AllCalls \ {o} : pc'[d] = pc[d]
        /\ \A d \in G!AllCalls \ {o} : planet'[d] = planet[d]
        /\ UNCHANGED <<active, cancelled, port, ticking, late, upstream, displaced>>
    BY <1>1, <1>4 DEF G!OpenTransport
  <2>2. RingOwned'
    BY <1>1, <2>1 DEF GateInv, RingOwned, RingSettled
  <2>3. OwnerInv'
    BY <1>1, <2>1 DEF GateInv, OwnerInv, AtWork
  <2>4. ClosedInv'
    BY <1>1, <2>1 DEF GateInv, ClosedInv, Holds
  <2>5. QED
    BY <2>2, <2>3, <2>4 DEF GateInv
<1>5. CASE G!PeerAnswers(o)
  BY <1>1, <1>5, GoesOn DEF G!PeerAnswers
<1>6. CASE G!OutBridge(o)
  <2>1. /\ G!BridgeStarts(o) /\ UNCHANGED <<upstream, displaced>>
    BY <1>6 DEF G!OutBridge, G!BridgeStarts
  <2>2. QED
    BY <1>1, <2>1, BridgeUp
<1>7. CASE G!OutFails(o)
  <2>1. CASE o \in cancelled
    BY <1>1, <1>7, <2>1, GoesOn DEF G!OutFails
  <2>2. CASE o \notin cancelled
    BY <1>1, <1>7, <2>2, ClosesSafely DEF G!OutFails
  <2>3. QED
    BY <2>1, <2>2
<1>8. QED
  BY <1>2, <1>3, <1>4, <1>5, <1>6, <1>7 DEF G!OutStep

LEMMA GateRingStep ==
    ASSUME G!CallAssumption, GateInv, G!TypeOK', NEW r \in Rings, G!RingStep(r)
    PROVE  GateInv'
<1> USE DEF G!GoTo, G!phoneVars, G!OutSteps
<1>1. r \in G!AllCalls /\ pc \in [G!AllCalls -> G!OutSteps \cup G!RingSteps \cup {"none", "up", "ended"}]
      /\ Rings \subseteq G!AllCalls /\ cancelled \subseteq G!AllCalls /\ ticking \subseteq G!AllCalls
      /\ planet \in [G!AllCalls -> {"none", "open", "gone", "closed"}]
      /\ upstream \in [Rings -> {"none", "pending", "ready", "failed"}]
      /\ None \notin G!AllCalls /\ active \in G!AllCalls \cup {None}
  BY DEF G!CallAssumption, G!AllCalls, GateInv, G!TypeOK
<1>2. /\ pc[r] \notin {"media", "up", "failing", "ended"} => active # r /\ r \notin cancelled
      /\ upstream[r] # "ready" => active # r /\ r \notin cancelled /\ pc[r] # "answering"
  BY DEF GateInv, RingOwned, RingSettled
<1>3. CASE G!Ring(r)
  <2>1. /\ pc[r] = "offer" /\ pc'[r] = "invited" /\ \A d \in G!AllCalls \ {r} : pc'[d] = pc[d]
        /\ \A q \in Rings \ {r} : upstream'[q] = upstream[q]
        /\ UNCHANGED <<active, cancelled, planet, port, ticking, late, displaced>>
    BY <1>1, <1>3 DEF G!Ring, G!KeepCalls, G!callVars
  <2>2. RingOwned'
    BY <1>1, <1>2, <2>1 DEF GateInv, RingOwned, RingSettled
  <2>3. OwnerInv'
    BY <1>1, <2>1 DEF GateInv, OwnerInv, AtWork
  <2>4. ClosedInv'
    BY <1>1, <2>1 DEF GateInv, ClosedInv, Holds
  <2>5. QED
    BY <2>2, <2>3, <2>4 DEF GateInv
<1>4. CASE G!RingFails(r)
  <2>1. pc[r] = "offer" /\ pc' = [pc EXCEPT ![r] = "ended"] /\ G!KeepCalls
        /\ UNCHANGED <<upstream, displaced>>
    BY <1>4 DEF G!RingFails, G!ringVars
  <2>2. PICK s \in {"offer", "ended"} : pc' = [pc EXCEPT ![r] = s]
    BY <2>1
  <2>3. active # r /\ r \notin cancelled
    BY <1>2, <2>1
  <2>4. QED
    BY <1>1, <2>1, <2>2, <2>3, GoesOn
<1>5. CASE G!UpstreamEnds(r)
  <2>1. /\ upstream[r] = "pending" /\ pc' = pc
        /\ \A q \in Rings \ {r} : upstream'[q] = upstream[q]
        /\ \A d \in G!AllCalls \ {r} : planet'[d] = planet[d]
        /\ UNCHANGED <<active, cancelled, port, ticking, late, displaced>>
    BY <1>1, <1>5 DEF G!UpstreamEnds
  <2>2. RingOwned'
    BY <1>1, <1>2, <2>1 DEF GateInv, RingOwned, RingSettled
  <2>3. OwnerInv'
    BY <1>1, <2>1 DEF GateInv, OwnerInv, AtWork
  <2>4. ClosedInv'
    BY <1>1, <1>2, <2>1 DEF GateInv, ClosedInv, Holds
  <2>5. QED
    BY <2>2, <2>3, <2>4 DEF GateInv
<1>6. CASE G!Join(r)
  <2>1. /\ pc[r] = "joining" /\ upstream[r] = "ready"
        /\ pc'[r] = "answering" /\ \A d \in G!AllCalls \ {r} : pc'[d] = pc[d]
        /\ UNCHANGED <<active, cancelled, planet, port, ticking, late, displaced, upstream>>
    BY <1>1, <1>6 DEF G!Join, G!KeepCalls, G!callVars, G!ringVars
  <2>2. RingOwned'
    BY <1>1, <1>2, <2>1 DEF GateInv, RingOwned, RingSettled
  <2>3. OwnerInv'
    BY <1>1, <2>1 DEF GateInv, OwnerInv, AtWork
  <2>4. ClosedInv'
    BY <1>1, <2>1 DEF GateInv, ClosedInv, Holds
  <2>5. QED
    BY <2>2, <2>3, <2>4 DEF GateInv
<1>7. CASE G!Connect(r)
  <2>1. /\ pc[r] = "answering" /\ upstream[r] = "ready" /\ active' = r
        /\ pc'[r] = "media" /\ \A d \in G!AllCalls \ {r} : pc'[d] = pc[d]
        /\ displaced' = displaced \cup ({active} \ {None})
        /\ UNCHANGED <<cancelled, planet, port, ticking, late, upstream>>
    BY <1>1, <1>2, <1>7 DEF G!Connect, G!ringVars
  <2>2. RingOwned'
    BY <1>1, <1>2, <2>1 DEF GateInv, RingOwned, RingSettled
  <2>3. OwnerInv'
    BY <1>1, <2>1 DEF GateInv, OwnerInv, AtWork
  <2>4. ClosedInv'
    BY <1>1, <1>2, <2>1 DEF GateInv, ClosedInv, Holds
  <2>5. QED
    BY <2>2, <2>3, <2>4 DEF GateInv
<1>8. CASE G!RingBridge(r)
  <2>1. G!BridgeStarts(r) /\ UNCHANGED <<upstream, displaced>>
    BY <1>8 DEF G!RingBridge, G!BridgeStarts
  <2>2. QED
    BY <1>1, <2>1, BridgeUp
<1>9. CASE G!FinishFails(r)
  <2>1. pc' = [pc EXCEPT ![r] = "failing"] /\ G!KeepCalls /\ UNCHANGED <<upstream, displaced>>
    BY <1>9 DEF G!FinishFails, G!ringVars
  <2>2. QED
    BY <1>1, <2>1, GoesOn
<1>10. CASE G!FinishGivesUp(r)
  <2>1. /\ pc[r] = "failing" /\ pc'[r] = "ended" /\ \A d \in G!AllCalls \ {r} : pc'[d] = pc[d]
        /\ \A d \in G!AllCalls : planet'[d] \in {planet[d], "closed"}
        /\ UNCHANGED <<active, cancelled, port, ticking, late, upstream, displaced>>
    BY <1>1, <1>10 DEF G!FinishGivesUp
  <2>2. RingOwned'
    BY <1>1, <2>1 DEF GateInv, RingOwned, RingSettled
  <2>3. OwnerInv'
    BY <1>1, <2>1 DEF GateInv, OwnerInv, AtWork
  <2>4. ClosedInv'
    BY <1>1, <2>1 DEF GateInv, ClosedInv, Holds
  <2>5. QED
    BY <2>2, <2>3, <2>4 DEF GateInv
<1>11. QED
  BY <1>3, <1>4, <1>5, <1>6, <1>7, <1>8, <1>9, <1>10 DEF G!RingStep

(* A response taken for the answer to the ring in the global sends that     *)
(* ring on, which was never the active call.                                *)
LEMMA TakenAsAnswer ==
    ASSUME G!CallAssumption, GateInv, G!TypeOK', NEW s \in {"joining", "failing"}, G!Accepted(s),
           G!KeepCalls, UNCHANGED displaced
    PROVE  GateInv'
<1>1. CASE ringing # None /\ pc[ringing] = "invited"
  <2>1. /\ ringing \in Rings /\ ringing \in G!AllCalls /\ pc' = [pc EXCEPT ![ringing] = s]
        /\ UNCHANGED upstream
    BY <1>1 DEF G!Accepted, G!GoTo, GateInv, G!TypeOK, G!AllCalls
  <2>2. active # ringing /\ ringing \notin cancelled
    BY <1>1, <2>1 DEF GateInv, RingOwned, RingSettled
  <2>3. QED
    BY <2>1, <2>2, GoesOn DEF G!OutSteps
<1>2. CASE ~(ringing # None /\ pc[ringing] = "invited")
  BY <1>2, StandsBy DEF G!Accepted
<1>3. QED
  BY <1>1, <1>2

LEMMA GateStep ==
    ASSUME G!CallAssumption, GateInv, [G!Next]_(G!vars)
    PROVE  GateInv'
<1>1. CASE UNCHANGED G!vars
  BY <1>1 DEF G!vars, G!callVars, G!ringVars, G!phoneVars, GateInv, G!TypeOK, G!AllCalls, RingOwned,
              RingSettled, OwnerInv, AtWork, ClosedInv, Holds
<1>2. CASE G!Next
  <2>1. G!TypeOK'
    BY <1>2, GateTypes DEF GateInv
  <2>2. ASSUME NEW o \in OutCalls, G!Invite(o) PROVE GateInv'
    BY <2>1, <2>2, DialStep
  <2>3. ASSUME NEW o \in OutCalls, G!OutStep(o) PROVE GateInv'
    BY <2>1, <2>3, GateOutStep
  <2>4. ASSUME NEW c \in G!AllCalls, G!HangUp(c) PROVE GateInv'
    BY <2>1, <2>4, ClosesSafely DEF G!HangUp, G!ringVars
  <2>5. ASSUME NEW c \in G!AllCalls, G!PlanetRelease(c) PROVE GateInv'
    BY <2>1, <2>5, ReleaseStep
  <2>6. CASE G!Arm
    BY <2>1, <2>6, StandsBy DEF G!Arm
  <2>7. CASE G!LateOk
    BY <2>1, <2>7, TakenAsAnswer DEF G!LateOk
  <2>8. CASE G!LateRefusal
    BY <2>1, <2>8, StandsBy DEF G!LateRefusal, G!Refused
  <2>9. ASSUME NEW r \in Rings, G!Register(r) PROVE GateInv'
    BY <2>1, <2>9, RegisterStep
  <2>10. ASSUME NEW r \in Rings, G!RingStep(r) PROVE GateInv'
    BY <2>1, <2>10, GateRingStep
  <2>11. ASSUME NEW r \in Rings, G!RingTimeout(r) PROVE GateInv'
    BY <2>1, <2>11, StandsBy DEF G!RingTimeout
  <2>12. ASSUME NEW r \in Rings, G!Answer(r) PROVE GateInv'
    BY <2>1, <2>12, TakenAsAnswer DEF G!Answer
  <2>13. ASSUME NEW r \in Rings, G!Decline(r) PROVE GateInv'
    BY <2>1, <2>13, StandsBy DEF G!Decline, G!Refused
  <2>14. QED
    BY <1>2, <2>2, <2>3, <2>4, <2>5, <2>6, <2>7, <2>8, <2>9, <2>10, <2>11, <2>12, <2>13 DEF G!Next
<1>3. QED
  BY <1>1, <1>2

LEMMA GateReleased ==
    ASSUME GateInv
    PROVE  G!ReleasedWhenClosed
BY DEF GateInv, ClosedInv, OwnerInv, AtWork, Holds, G!ReleasedWhenClosed, G!TypeOK

-----------------------------------------------------------------------------
(* All of them *)

(* A step of the account is one of its component, which stays the same.     *)
LEMMA SceneStep ==
    ASSUME [Next]_vars
    PROVE  /\ scene' = scene
           /\ scene = "block"  => [B!Next]_(B!vars)
           /\ scene = "hidden" => [H!Next]_(H!vars)
           /\ scene = "status" => [S!Next]_(S!vars)
           /\ scene = "friend" => [F!Next]_(F!vars)
           /\ scene = "calls"  => [C!Next]_(C!vars)
           /\ scene = "gateway" => [G!Next]_(G!vars)
<1>1. CASE Next
  BY <1>1 DEF Next
<1>2. CASE UNCHANGED vars
  <2> USE <1>2 DEF vars, askVars, listVars
  <2>1. scene' = scene /\ UNCHANGED S!vars /\ UNCHANGED F!vars
    BY DEF statusVars, friendVars, S!vars, S!memory, S!files, S!counters,
           F!vars, F!setting, F!memory, F!files, F!history, F!counters
  <2>2. UNCHANGED B!vars /\ UNCHANGED H!vars
    BY DEF blockVars, hiddenVars, B!vars, B!countVars, H!vars, H!counters
  <2>3. UNCHANGED C!vars
    BY DEF callVars, C!vars, C!calls, C!files
  <2>4. UNCHANGED G!vars
    BY DEF gateVars, G!vars, G!callVars, G!ringVars, G!phoneVars
  <2>5. QED
    BY <2>1, <2>2, <2>3, <2>4
<1>3. QED
  BY <1>1, <1>2

(* The invariant of the component a behaviour is about.                     *)
AccountInv ==
    /\ scene = "block"  => BlockInv
    /\ scene = "hidden" => HiddenInv
    /\ scene = "status" => StatusInv
    /\ scene = "friend" => FriendInv
    /\ scene = "calls"  => CallInv
    /\ scene = "gateway" => GateInv

LEMMA AccountInit == Init => AccountInv
BY BlockInit, HiddenInit, StatusInit, FriendInit, CallInit, GateInit, AccountAssumption
   DEF Init, AccountInv

LEMMA AccountStep == AccountInv /\ [Next]_vars => AccountInv'
<1> SUFFICES ASSUME AccountInv, [Next]_vars PROVE AccountInv'
  OBVIOUS
<1>1. scene' = scene
  BY SceneStep
<1>2. ASSUME scene = "status" PROVE StatusInv'
  BY <1>2, SceneStep, StatusStep, AccountAssumption DEF AccountInv
<1>3. ASSUME scene = "friend" PROVE FriendInv'
  BY <1>3, SceneStep, FriendStep, AccountAssumption DEF AccountInv
<1>4. ASSUME scene = "block" PROVE BlockInv'
  BY <1>4, SceneStep, BlockStep DEF AccountInv
<1>5. ASSUME scene = "hidden" PROVE HiddenInv'
  BY <1>5, SceneStep, HiddenStep DEF AccountInv
<1>6. ASSUME scene = "calls" PROVE CallInv'
  BY <1>6, SceneStep, CallStep, AccountAssumption DEF AccountInv
<1>7. ASSUME scene = "gateway" PROVE GateInv'
  BY <1>7, SceneStep, GateStep, AccountAssumption DEF AccountInv
<1>8. QED
  BY <1>1, <1>2, <1>3, <1>4, <1>5, <1>6, <1>7 DEF AccountInv

(* What holds whenever the invariant does holds always.                      *)
LEMMA AccountAlways == Spec => []AccountInv
<1>1. Init => AccountInv
  BY AccountInit
<1>2. AccountInv /\ [Next]_vars => AccountInv'
  BY AccountStep
<1>3. QED
  BY <1>1, <1>2, PTL DEF Spec

(* When the bridge has nothing left to do, blocked_mids.json and             *)
(* hidden_mids.json say what is so at LINE: no operation of another device   *)
(* and no command of the phone is lost between the loops that write them,    *)
(* unless two of them met, a call failed or an old dump was taken.           *)
THEOREM ListsAreCurrent == Spec => []FileIsCurrent
<1>1. AccountInv => FileIsCurrent
  BY BlockFileIs, HiddenFile DEF AccountInv, FileIsCurrent
<1>2. QED
  BY <1>1, AccountAlways, PTL

(* When nothing is left to do, the last operation the phone got about a      *)
(* contact is a block if and only if LINE lists the contact as blocked,      *)
(* whatever was undone, deleted or fetched again after a restart.            *)
THEOREM PhoneShowsBlocked == Spec => []PhoneAgrees
<1>1. AccountInv => PhoneAgrees
  BY BlockPhoneIs DEF AccountInv, PhoneAgrees
<1>2. QED
  BY <1>1, AccountAlways, PTL

(* What the phone was told of its status line and of the friends it added is *)
(* so at LINE and in the files beside it.                                    *)
THEOREM ToldIsSo == Spec => []AnswerIsTrue
<1>1. AccountInv => AnswerIsTrue
  BY StatusTold, FriendTold, AccountAssumption DEF AccountInv, AnswerIsTrue
<1>2. QED
  BY <1>1, AccountAlways, PTL

(* A call is in the phone's history once, from the log or from the message.  *)
THEOREM ListedOnce == Spec => []CallListedOnce
<1>1. AccountInv => CallListedOnce
  BY CallOnce DEF AccountInv, CallListedOnce
<1>2. QED
  BY <1>1, AccountAlways, PTL

(* A call that was closed in the gateway holds neither the media port nor    *)
(* intervals nor an open transport, unless it was closed where the code goes *)
(* on to take them; and a bridge that runs is that of the active call, or of *)
(* one that an answered ring pushed out.                                     *)
THEOREM ClosedCallsRelease == Spec => []ReleasedWhenClosed
<1>1. AccountInv => ReleasedWhenClosed
  BY GateReleased DEF AccountInv, ReleasedWhenClosed
<1>2. QED
  BY <1>1, AccountAlways, PTL

(* A request answered with success is not performed again when the phone     *)
(* asks again: a status while its answer is remembered, an addition ever.    *)
THEOREM PerformedOnce == Spec => RetryNotRepeated
<1>1. AccountInv /\ [Next]_vars => [RetryNotRepeatedStep]_vars
  BY StatusOnce, FriendOnce DEF AccountInv, Next, RetryNotRepeatedStep
<1>2. QED
  BY <1>1, AccountAlways, PTL DEF Spec, RetryNotRepeated
=============================================================================

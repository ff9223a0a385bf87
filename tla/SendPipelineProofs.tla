-------------------------- MODULE SendPipelineProofs --------------------------
(***************************************************************************)
(* Proofs about SendPipeline, for every number of jobs and faults: types,   *)
(* at most one acceptance per job, delivery in the order of sending, and    *)
(* that a C5 the phone sees succeed was accepted.  None of these properties *)
(* is inductive: SendInv says in addition where each job on its way is.     *)
(***************************************************************************)
EXTENDS SendPipeline, TLAPS, FiniteSetTheorems, WellFoundedInduction

\* No element twice; each element larger than the one before.
Injective(s) == \A i, k \in 1..Len(s) : s[i] = s[k] => i = k
Increasing(s) == \A i, k \in 1..Len(s) : i < k => s[i] < s[k]

(* Every nonempty set of numbers has a least one, so induction holds.        *)
LEMMA LeastNumber ==
    ASSUME NEW T \in SUBSET Nat, T # {}
    PROVE  \E n \in T : \A m \in T : ~(m < n)
<1>1. PICK n \in T : \A m \in T : ~(<<m, n>> \in OpToRel(<, Nat))
  BY WFMin, NatLessThanWellFounded
<1>2. \A m \in T : m < n => <<m, n>> \in OpToRel(<, Nat)
  BY DEF OpToRel
<1>3. QED
  BY <1>1, <1>2

(* A set of numbers with 0 and every successor holds all of them.            *)
LEMMA CountUp ==
    ASSUME NEW S, 0 \in S, \A n \in Nat : n \in S => n + 1 \in S
    PROVE  \A n \in Nat : n \in S
<1> DEFINE T == {n \in Nat : n \notin S}
<1>1. SUFFICES ASSUME T # {} PROVE FALSE
  OBVIOUS
<1>2. PICK n \in T : \A m \in T : ~(m < n)
  BY <1>1, LeastNumber
<1>3. n - 1 \in Nat /\ n - 1 < n /\ (n - 1) + 1 = n
  OBVIOUS
<1>4. n - 1 \in S
  BY <1>2, <1>3
<1>5. QED
  BY <1>3, <1>4

\* One step of the recursion in Parsed.
Lines(s, kept, n) ==
    IF n = 0 THEN <<>>
    ELSE IF s[n] \in cut THEN kept[n - 1] ELSE Append(kept[n - 1], s[n])

(* The recursion in Parsed has a solution.                                   *)
LEMMA ParsedExists ==
    ASSUME NEW s \in Seq(Jobs)
    PROVE  \E f : f = [n \in 0..Len(s) |-> Lines(s, f, n)]
<1> DEFINE E == {m \in Nat : m <= Len(s) => \E f : f = [n \in 0..m |-> Lines(s, f, n)]}
<1>1. 0 \in E
  <2> DEFINE f == [n \in 0..0 |-> <<>>]
  <2>1. f = [n \in 0..0 |-> Lines(s, f, n)]
    BY DEF Lines
  <2>2. QED
    BY <2>1
<1>2. ASSUME NEW m \in Nat, m \in E PROVE m + 1 \in E
  <2>1. SUFFICES ASSUME m + 1 <= Len(s)
                 PROVE  \E f : f = [n \in 0..(m + 1) |-> Lines(s, f, n)]
    OBVIOUS
  <2>2. PICK f : f = [n \in 0..m |-> Lines(s, f, n)]
    BY <1>2, <2>1
  <2> DEFINE g == [n \in 0..(m + 1) |-> IF n = m + 1 THEN Lines(s, f, n) ELSE f[n]]
  <2>3. ASSUME NEW n \in 0..(m + 1) PROVE g[n] = Lines(s, g, n)
    <3>1. CASE n = 0
      <4>1. g[n] = f[n] /\ f[n] = Lines(s, f, n)
        BY <2>2, <3>1
      <4>2. QED
        BY <3>1, <4>1 DEF Lines
    <3>2. CASE n # 0
      <4>1. n - 1 \in 0..m /\ n - 1 # m + 1 /\ n - 1 \in 0..(m + 1)
        BY <3>2
      <4>2. g[n - 1] = f[n - 1]
        BY <4>1
      <4>3. g[n] = Lines(s, f, n)
        <5>1. CASE n = m + 1
          BY <5>1
        <5>2. CASE n # m + 1
          <6>1. n \in 0..m /\ g[n] = f[n]
            BY <5>2
          <6>2. QED
            BY <2>2, <6>1
        <5>3. QED
          BY <5>1, <5>2
      <4>4. Lines(s, g, n) = Lines(s, f, n)
        BY <4>2 DEF Lines
      <4>5. QED
        BY <4>3, <4>4
    <3>3. QED
      BY <3>1, <3>2
  <2>4. g = [n \in 0..(m + 1) |-> Lines(s, g, n)]
    BY <2>3
  <2>5. QED
    BY <2>4
<1> HIDE DEF E
<1>3. Len(s) \in E
  BY <1>1, <1>2, CountUp
<1>4. QED
  BY <1>3 DEF E

(* What it yields for lines in the order of their jobs.                      *)
LEMMA ParsedLines ==
    ASSUME NEW s \in Seq(Jobs), Increasing(s)
    PROVE  /\ Parsed(s) \in Seq(Jobs)
           /\ Increasing(Parsed(s))
           /\ \A j \in Jobs : Contains(Parsed(s), j) <=> Contains(s, j) /\ j \notin cut
<1> DEFINE kept == CHOOSE f : f = [n \in 0..Len(s) |-> Lines(s, f, n)]
<1>1. kept = [n \in 0..Len(s) |-> Lines(s, kept, n)]
  BY ParsedExists
<1>2. Parsed(s) = kept[Len(s)]
  BY DEF Parsed, Lines
<1> DEFINE Right(n) ==
      /\ kept[n] \in Seq(Jobs)
      /\ Increasing(kept[n])
      /\ \A j \in Jobs : (\E i \in 1..Len(kept[n]) : kept[n][i] = j)
                            <=> (\E i \in 1..n : s[i] = j) /\ j \notin cut
    E == {m \in Nat : m <= Len(s) => Right(m)}
<1> HIDE DEF kept
<1>3. 0 \in E
  <2>1. kept[0] = <<>>
    BY <1>1 DEF Lines
  <2>2. kept[0] \in Seq(Jobs) /\ Len(kept[0]) = 0
    BY <2>1
  <2>3. Increasing(kept[0])
    BY <2>2 DEF Increasing
  <2>4. QED
    BY <2>2, <2>3
<1>4. ASSUME NEW m \in Nat, m \in E PROVE m + 1 \in E
  <2>1. SUFFICES ASSUME m + 1 <= Len(s) PROVE Right(m + 1)
    OBVIOUS
  <2>2. Right(m) /\ m \in 0..Len(s) /\ m + 1 \in 1..Len(s)
    BY <1>4, <2>1
  <2>3. kept[m + 1] = IF s[m + 1] \in cut THEN kept[m] ELSE Append(kept[m], s[m + 1])
    <3>1. m + 1 \in 0..Len(s) /\ m + 1 # 0 /\ (m + 1) - 1 = m
      BY <2>2
    <3>2. kept[m + 1] = Lines(s, kept, m + 1)
      BY <1>1, <3>1
    <3>3. QED
      BY <3>1, <3>2 DEF Lines
  <2>4. s[m + 1] \in Jobs /\ \A i \in 1..m : s[i] < s[m + 1]
    BY <2>2 DEF Increasing
  <2>5. \A i \in 1..Len(kept[m]) : kept[m][i] < s[m + 1]
    BY <2>2, <2>4
  <2>6. CASE s[m + 1] \in cut
    BY <2>2, <2>3, <2>6
  <2>7. CASE s[m + 1] \notin cut
    <3> DEFINE k == kept[m]  u == s[m + 1]
    <3>1. k \in Seq(Jobs) /\ u \in Jobs /\ Increasing(k)
      BY <2>2, <2>4
    <3>2. kept[m + 1] = Append(k, u)
      BY <2>3, <2>7
    <3> HIDE DEF k, u
    <3>3. /\ Append(k, u) \in Seq(Jobs) /\ Len(Append(k, u)) = Len(k) + 1
          /\ Append(k, u)[Len(k) + 1] = u
          /\ \A i \in 1..Len(k) : Append(k, u)[i] = k[i]
      BY <3>1
    <3>4. Increasing(Append(k, u))
      <4>1. \A i \in 1..Len(k) : k[i] < u
        BY <2>5 DEF k, u
      <4>2. ASSUME NEW i \in 1..(Len(k) + 1), NEW l \in 1..(Len(k) + 1), i < l
            PROVE  Append(k, u)[i] < Append(k, u)[l]
        <5>1. i \in 1..Len(k)
          BY <3>1, <4>2
        <5>2. CASE l = Len(k) + 1
          BY <3>3, <4>1, <5>1, <5>2
        <5>3. CASE l # Len(k) + 1
          <6>1. l \in 1..Len(k)
            BY <3>1, <5>3
          <6>2. QED
            BY <3>1, <3>3, <4>2, <5>1, <6>1 DEF Increasing
        <5>4. QED
          BY <5>2, <5>3
      <4>3. QED
        BY <3>3, <4>2 DEF Increasing
    <3>5. ASSUME NEW j \in Jobs
          PROVE  (\E i \in 1..Len(Append(k, u)) : Append(k, u)[i] = j)
                    <=> (\E i \in 1..(m + 1) : s[i] = j) /\ j \notin cut
      <4>1. (\E i \in 1..Len(Append(k, u)) : Append(k, u)[i] = j)
               <=> (\E i \in 1..Len(k) : k[i] = j) \/ j = u
        BY <3>1, <3>3
      <4>2. (\E i \in 1..(m + 1) : s[i] = j) <=> (\E i \in 1..m : s[i] = j) \/ j = u
        BY DEF u
      <4>3. (\E i \in 1..Len(k) : k[i] = j) <=> (\E i \in 1..m : s[i] = j) /\ j \notin cut
        BY <2>2 DEF k
      <4>4. QED
        BY <2>7, <4>1, <4>2, <4>3 DEF u
    <3>6. QED
      BY <3>2, <3>3, <3>4, <3>5
  <2>8. QED
    BY <2>6, <2>7
<1> HIDE DEF E
<1>5. Len(s) \in E
  BY <1>3, <1>4, CountUp
<1>6. Right(Len(s))
  BY <1>5 DEF E
<1>7. QED
  BY <1>2, <1>6 DEF Contains

(* The line that leaves the batch is its first.                              *)
LEMMA HeadLeaves ==
    ASSUME NEW s \in Seq(Jobs), s # <<>>
    PROVE  RemoveFirst(s, Head(s)) = Tail(s)
<1> DEFINE I == {i \in 1..Len(s) : s[i] = Head(s)}
<1>1. 1 \in 1..Len(s) /\ s[1] = Head(s)
  OBVIOUS
<1>2. 1 \in I /\ \A i \in I : 1 <= i
  BY <1>1
<1>3. Min(I) = 1
  BY <1>2 DEF Min
<1>4. RemoveFirst(s, Head(s)) = SubSeq(s, 1, 0) \o SubSeq(s, 2, Len(s))
  <2>1. I # {}
    BY <1>2
  <2>2. RemoveFirst(s, Head(s)) = RemoveAt(s, Min(I))
    BY <1>1, <2>1, Zenon DEF RemoveFirst, SelectInSeq
  <2>3. RemoveFirst(s, Head(s)) = RemoveAt(s, 1)
    BY <1>3, <2>2
  <2>4. QED
    BY <2>3 DEF RemoveAt
<1>5. SubSeq(s, 2, Len(s)) = Tail(s)
  OBVIOUS
<1>6. QED
  BY <1>4, <1>5

-----------------------------------------------------------------------------
\* Only jobs without a body keep their order: a body may be late.
Plain(j) == kind[j] # "media"

\* The lines of send_in.jsonl that the bridge has read; one that is down will
\* start at the end.
From == IF bridgeUp THEN offset ELSE Len(sendIn)

\* The lines of send_queue.jsonl that are in send_in.jsonl.
Copied == IF pumped > 0 THEN pumped ELSE curSend

\* Job y waits in send_in.jsonl, or in send_queue.jsonl with a line that parses.
InFile(y) == \E k \in (From + 1)..Len(sendIn) : sendIn[k] = y
InQueue(y) == y \notin cut /\ \E k \in (curSend + 1)..Len(queue) : queue[k] = y

\* The types, by the part of the state they are about.
PhoneTypes ==
    /\ kind \in [Jobs -> Kinds \cup {"none"}] /\ cut \subseteq Jobs
    /\ phone \in [Jobs -> {"new", "waiting", "acked", "failed"}]
    /\ uploaded \subseteq Jobs /\ overdue \subseteq Jobs
FileTypes ==
    /\ queue \in Seq(Jobs) /\ sendIn \in Seq(Jobs)
    /\ curSend \in 0..Len(queue) /\ pumped \in 0..Len(queue) /\ offset \in 0..Len(sendIn)
    /\ pumped > 0 => curSend < pumped
BridgeTypes ==
    /\ batch \in Seq(Jobs) /\ lineLog \in Seq(Jobs)
    /\ deferred \subseteq Jobs /\ doneMem \subseteq Jobs /\ doneDisk \subseteq Jobs
    /\ cur \in Jobs \cup {None}
    /\ sendOut \subseteq [job : Jobs, ok : BOOLEAN]
FlagTypes ==
    /\ bridgeUp \in BOOLEAN /\ curOk \in BOOLEAN /\ recorded \in BOOLEAN
    /\ tears \in Nat /\ workerCrashes \in Nat /\ bridgeCrashes \in Nat /\ writeErrors \in Nat
\* A running bridge has send_done.txt in memory, a stopped one has nothing, and
\* a recorded job is no longer deferred.
BridgeState ==
    /\ bridgeUp => doneMem = doneDisk
    /\ ~bridgeUp => batch = <<>> /\ deferred = {} /\ cur = None
    /\ recorded => cur # None /\ cur \notin deferred

Base == PhoneTypes /\ FileTypes /\ BridgeTypes /\ FlagTypes /\ BridgeState

\* Jobs are sent and queued in order, a deferred job has a body to wait for,
\* and nothing is under way that was not queued.
QueueInv ==
    /\ \A i, k \in 1..Len(queue) : i < k => queue[i] < queue[k]
    /\ \A i, j \in Jobs : i < j /\ phone[i] = "new" => phone[j] = "new"
    /\ \A j \in Jobs : Contains(queue, j) => phone[j] # "new"
    /\ \A j \in deferred : ~Plain(j)
    /\ \A j \in Jobs : Contains(sendIn, j) \/ Contains(batch, j) \/ j \in deferred
                       \/ j = cur \/ Contains(lineLog, j) => Contains(queue, j)
\* A job in front of job i of send_in.jsonl in the order of sending, and not
\* dispatched, is in front of it in the file: a second copy comes behind.
FileOrder ==
    \A i \in (From + 1)..Len(sendIn), y \in Jobs :
        /\ Plain(y) /\ Plain(sendIn[i]) /\ y < sendIn[i]
        /\ InQueue(y) \/ InFile(y)
        => \E h \in (From + 1)..(i - 1) : sendIn[h] = y
\* The same of the lines the bridge has read, unless the job was answered.
BatchOrder ==
    \A i \in 1..Len(batch), y \in Jobs :
        /\ Plain(y) /\ Plain(batch[i]) /\ y < batch[i]
        /\ InQueue(y) \/ InFile(y) \/ Contains(batch, y)
        => y \in doneDisk \/ y = cur \/ \E h \in 1..(i - 1) : batch[h] = y
\* A job before one LINE accepted that is still under way was answered: the
\* bridge drops its line.
LogOrder ==
    \A i \in 1..Len(lineLog), y \in Jobs :
        /\ Plain(y) /\ Plain(lineLog[i]) /\ y < lineLog[i]
        /\ InQueue(y) \/ InFile(y) \/ Contains(batch, y)
        => y \in doneDisk
\* LINE got the jobs without a body in order.
LineOrder ==
    \A i, k \in 1..Len(lineLog) :
        i < k /\ kind[lineLog[i]] # "media" /\ kind[lineLog[k]] # "media"
            => lineLog[i] <= lineLog[k]
\* Without a crash of the worker no line is copied twice ...
FileOnce ==
    /\ Injective(sendIn)
    /\ \A i \in 1..Len(sendIn) : \E k \in 1..Copied : queue[k] = sendIn[i]
\* ... and each job the bridge took from the file is at one place.
BridgeOnce ==
    /\ Injective(batch) /\ Injective(lineLog)
    /\ \A j \in Jobs :
          /\ Contains(batch, j) \/ j \in deferred \/ j = cur \/ Contains(lineLog, j)
                => \E k \in 1..From : sendIn[k] = j
          /\ Contains(batch, j) => j \notin deferred /\ j # cur /\ ~Contains(lineLog, j)
          /\ j \in deferred /\ Contains(lineLog, j) => j = cur
CopiedOnce == workerCrashes = 0 => FileOnce /\ BridgeOnce
\* Without a fault of the bridge what LINE accepted is in its memory or its
\* answer is at hand, and no deferred job was answered.
NoFault ==
    bridgeCrashes + writeErrors = 0 =>
        /\ bridgeUp /\ Injective(lineLog)
        /\ deferred \cap doneMem = {}
        /\ \A j \in Jobs : Contains(lineLog, j) => j \in doneMem \/ j = cur
\* A success in send_out.jsonl, and the one at hand, is of an accepted job; a
\* C5 is answered with a success only from send_out.jsonl.
AckInv ==
    /\ \A j \in Jobs : Result(j, TRUE) \in sendOut => Contains(lineLog, j)
    /\ cur # None /\ curOk => Contains(lineLog, cur)
    /\ \A j \in Jobs : kind[j] = "waiting" /\ phone[j] = "acked" => Result(j, TRUE) \in sendOut
    /\ \A j \in Jobs : phone[j] = "waiting" => kind[j] = "waiting"

(* The initial state.                                                        *)
LEMMA SendInit ==
    Init => Base /\ QueueInv /\ FileOrder /\ BatchOrder /\ LogOrder /\ CopiedOnce
              /\ NoFault /\ AckInv
<1> SUFFICES ASSUME Init
             PROVE  Base /\ QueueInv /\ FileOrder /\ BatchOrder /\ LogOrder /\ CopiedOnce
                      /\ NoFault /\ AckInv
  OBVIOUS
<1> USE SendAssumption DEF Init
<1>1. PhoneTypes /\ FileTypes
  BY DEF PhoneTypes, FileTypes, Kinds
<1>2. BridgeTypes
  BY DEF BridgeTypes
<1>3. FlagTypes /\ BridgeState
  BY DEF FlagTypes, BridgeState
<1>4. QueueInv
  BY DEF QueueInv, Contains, Jobs
<1>5. FileOrder /\ BatchOrder /\ LogOrder
  BY DEF FileOrder, BatchOrder, LogOrder, From
<1>6. CopiedOnce
  BY DEF CopiedOnce, FileOnce, BridgeOnce, Contains, Injective, From, Jobs
<1>7. NoFault
  BY DEF NoFault, Contains, Injective
<1>8. AckInv
  BY DEF AckInv, Contains, Result
<1>9. QED
  BY <1>1, <1>2, <1>3, <1>4, <1>5, <1>6, <1>7, <1>8 DEF Base

(* What an attempt leaves behind.                                            *)
LEMMA AttemptTypes ==
    ASSUME Base, NEW j \in Jobs, Attempt(j)
    PROVE  /\ cur' = j /\ recorded' = FALSE /\ curOk' \in BOOLEAN
           /\ lineLog' = lineLog \/ lineLog' = Append(lineLog, j)
           /\ curOk' => lineLog' = Append(lineLog, j)
           /\ lineLog' \in Seq(Jobs)
<1>1. CASE kind[j] = "media" /\ j \notin uploaded
  BY <1>1 DEF Attempt, Base, BridgeTypes
<1>2. CASE ~(kind[j] = "media" /\ j \notin uploaded)
  <2>1. PICK accepted \in BOOLEAN, answered \in BOOLEAN :
          /\ curOk' = (accepted /\ answered)
          /\ lineLog' = IF accepted THEN Append(lineLog, j) ELSE lineLog
    BY <1>2 DEF Attempt
  <2>2. cur' = j /\ recorded' = FALSE
    BY DEF Attempt
  <2>3. lineLog \in Seq(Jobs)
    BY DEF Base, BridgeTypes
  <2>4. CASE accepted
    BY <2>1, <2>2, <2>3, <2>4
  <2>5. CASE ~accepted
    BY <2>1, <2>2, <2>3, <2>5
  <2>6. QED
    BY <2>4, <2>5
<1>3. QED
  BY <1>1, <1>2

(* The line the bridge looks at.                                             *)
LEMMA FirstLine ==
    ASSUME Base, batch # <<>>
    PROVE  /\ ThisLine = batch[1] /\ ThisLine \in Jobs /\ 1 \in 1..Len(batch)
           /\ RemoveFirst(batch, ThisLine) = Tail(batch)
           /\ Tail(batch) \in Seq(Jobs) /\ Len(Tail(batch)) = Len(batch) - 1
           /\ \A i \in 1..Len(Tail(batch)) : i + 1 \in 1..Len(batch) /\ Tail(batch)[i] = batch[i + 1]
<1>1. batch \in Seq(Jobs)
  BY DEF Base, BridgeTypes
<1>2. QED
  BY <1>1, HeadLeaves DEF ThisLine

(* The lines a copy takes, and what of them it appends.                      *)
LEMMA Copy ==
    ASSUME Base, QueueInv, PumpAppend
    PROVE  \E p \in Seq(Jobs) :
              /\ sendIn' = sendIn \o p
              /\ Increasing(p)
              /\ \A j \in Jobs : Contains(p, j) <=> InQueue(j)
<1> DEFINE r == SubSeq(queue, curSend + 1, Len(queue))
<1>1. queue \in Seq(Jobs) /\ curSend \in 0..Len(queue)
  BY DEF Base, FileTypes
<1>2. /\ r \in Seq(Jobs) /\ Len(r) = Len(queue) - curSend
      /\ \A i \in 1..Len(r) : r[i] = queue[curSend + i]
  BY <1>1
<1>3. Increasing(r)
  <2>1. \A i \in 1..Len(r) : curSend + i \in 1..Len(queue)
    BY <1>1, <1>2
  <2>2. \A i, k \in 1..Len(r) : i < k => curSend + i < curSend + k
    BY <1>1
  <2> HIDE DEF r
  <2>3. QED
    BY <1>2, <2>1, <2>2 DEF QueueInv, Increasing
<1>4. sendIn' = sendIn \o Parsed(r)
  BY DEF PumpAppend
<1>5. \A j \in Jobs : Contains(r, j) <=> \E k \in (curSend + 1)..Len(queue) : queue[k] = j
  <2>1. \A i \in 1..Len(r) : curSend + i \in (curSend + 1)..Len(queue)
    BY <1>1, <1>2
  <2>2. \A k \in (curSend + 1)..Len(queue) : k - curSend \in 1..Len(r) /\ r[k - curSend] = queue[k]
    BY <1>1, <1>2
  <2> HIDE DEF r
  <2>3. QED
    BY <1>2, <2>1, <2>2 DEF Contains
<1> HIDE DEF r
<1>6. QED
  BY <1>2, <1>3, <1>4, <1>5, ParsedLines DEF InQueue

(* Every step keeps the types.                                               *)
LEMMA BaseStep ==
    ASSUME Base, QueueInv, [Next]_vars
    PROVE  Base'
<1> USE SendAssumption DEF phoneVars, workerVars, bridgeVars, resultVars, bodyVars, faultVars
<1>1. PhoneTypes'
  <2>1. ASSUME NEW j \in Jobs, Submit(j) \/ SubmitFails(j) PROVE PhoneTypes'
    BY <2>1 DEF Submit, SubmitFails, Base, PhoneTypes, Kinds
  <2>2. ASSUME NEW j \in Jobs, AnswerC5(j) \/ GiveUpC5(j) PROVE PhoneTypes'
    BY <2>2 DEF AnswerC5, GiveUpC5, Base, PhoneTypes
  <2>3. ASSUME NEW j \in Jobs, Upload(j) \/ UploadOverdue(j) PROVE PhoneTypes'
    BY <2>3 DEF Upload, UploadOverdue, Base, PhoneTypes
  <2>4. CASE UNCHANGED <<kind, cut, phone, uploaded, overdue>>
    BY <2>4 DEF Base, PhoneTypes
  <2>5. Worker \/ Bridge \/ WorkerCrash \/ BridgeCrash \/ RecordFails
          => UNCHANGED <<kind, cut, phone, uploaded, overdue>>
    BY DEF Worker, Bridge, PumpAppend, PumpCursor, WorkerCrash, BridgeCrash, RecordFails,
           ReadLines, DropDone, DispatchLine, DeferLine, RetryDeferred, RecordResult, MarkDone,
           BridgeStart
  <2>6. QED
    BY <2>1, <2>2, <2>3, <2>4, <2>5 DEF Next, vars
<1>2. FileTypes'
  <2>1. ASSUME NEW j \in Jobs, Submit(j) PROVE FileTypes'
    BY <2>1 DEF Submit, Base, FileTypes
  <2>2. CASE PumpAppend
    <3>1. PICK p \in Seq(Jobs) : sendIn' = sendIn \o p
      BY <2>2, Copy
    <3>2. sendIn' \in Seq(Jobs) /\ Len(sendIn') >= Len(sendIn)
      BY <3>1 DEF Base, FileTypes
    <3>3. QED
      BY <2>2, <3>2 DEF PumpAppend, Base, FileTypes
  <2>3. CASE PumpCursor \/ WorkerCrash
    BY <2>3 DEF PumpCursor, WorkerCrash, CursorLeft, Base, FileTypes
  <2>4. CASE ReadLines \/ BridgeCrash \/ BridgeStart
    BY <2>4 DEF ReadLines, BridgeCrash, BridgeStart, StartOffset, Base, FileTypes
  <2>5. CASE UNCHANGED <<queue, sendIn, curSend, pumped, offset>>
    BY <2>5 DEF Base, FileTypes
  <2>6. ASSUME NEW j \in Jobs
        PROVE  SubmitFails(j) \/ AnswerC5(j) \/ GiveUpC5(j) \/ Upload(j) \/ UploadOverdue(j)
                 \/ RetryDeferred(j) => UNCHANGED <<queue, sendIn, curSend, pumped, offset>>
    BY DEF SubmitFails, AnswerC5, GiveUpC5, Upload, UploadOverdue, RetryDeferred
  <2>7. DropDone \/ DispatchLine \/ DeferLine \/ RecordResult \/ MarkDone \/ RecordFails
          => UNCHANGED <<queue, sendIn, curSend, pumped, offset>>
    BY DEF DropDone, DispatchLine, DeferLine, RecordResult, MarkDone, RecordFails
  <2>8. QED
    BY <2>1, <2>2, <2>3, <2>4, <2>5, <2>6, <2>7 DEF Next, Worker, Bridge, vars
<1>3. BridgeTypes' /\ BridgeState'
  <2>1. CASE ReadLines
    <3>1. batch' \in Seq(Jobs)
      BY <2>1 DEF ReadLines, Base, FileTypes
    <3>2. QED
      BY <2>1, <3>1 DEF ReadLines, Idle, Base, BridgeTypes, BridgeState
  <2>2. CASE DropDone
    <3>1. batch' \in Seq(Jobs)
      BY <2>2, FirstLine DEF DropDone
    <3>2. QED
      BY <2>2, <3>1 DEF DropDone, Idle, Base, BridgeTypes, BridgeState
  <2>3. CASE DispatchLine
    <3>1. batch' \in Seq(Jobs) /\ ThisLine \in Jobs /\ Attempt(ThisLine)
      BY <2>3, FirstLine DEF DispatchLine
    <3>2. cur' = ThisLine /\ recorded' = FALSE /\ lineLog' \in Seq(Jobs)
      BY <3>1, AttemptTypes
    <3>3. QED
      BY <2>3, <3>1, <3>2 DEF DispatchLine, Idle, Base, BridgeTypes, BridgeState
  <2>4. CASE DeferLine
    <3>1. batch' \in Seq(Jobs) /\ ThisLine \in Jobs
      BY <2>4, FirstLine DEF DeferLine
    <3>2. QED
      BY <2>4, <3>1 DEF DeferLine, Idle, Base, BridgeTypes, BridgeState
  <2>5. ASSUME NEW j \in Jobs, RetryDeferred(j) PROVE BridgeTypes' /\ BridgeState'
    <3>1. cur' = j /\ recorded' = FALSE /\ lineLog' \in Seq(Jobs)
      BY <2>5, AttemptTypes DEF RetryDeferred
    <3>2. QED
      BY <2>5, <3>1 DEF RetryDeferred, Idle, Base, BridgeTypes, BridgeState
  <2>6. CASE RecordResult
    BY <2>6 DEF RecordResult, Result, Base, BridgeTypes, BridgeState, FlagTypes
  <2>7. CASE RecordFails
    BY <2>7 DEF RecordFails, Base, BridgeTypes, BridgeState
  <2>8. CASE MarkDone
    BY <2>8 DEF MarkDone, Base, BridgeTypes, BridgeState
  <2>9. CASE BridgeCrash
    BY <2>9 DEF BridgeCrash, Base, BridgeTypes, BridgeState
  <2>10. CASE BridgeStart
    BY <2>10 DEF BridgeStart, LoadedDone, Base, BridgeTypes, BridgeState
  <2>11. CASE UNCHANGED <<bridgeVars, resultVars, lineLog>>
    BY <2>11 DEF Base, BridgeTypes, BridgeState
  <2>12. ASSUME NEW j \in Jobs
         PROVE  Submit(j) \/ SubmitFails(j) \/ AnswerC5(j) \/ GiveUpC5(j) \/ Upload(j)
                  \/ UploadOverdue(j) => UNCHANGED <<bridgeVars, resultVars, lineLog>>
    BY DEF Submit, SubmitFails, AnswerC5, GiveUpC5, Upload, UploadOverdue
  <2>13. PumpAppend \/ PumpCursor \/ WorkerCrash => UNCHANGED <<bridgeVars, resultVars, lineLog>>
    BY DEF PumpAppend, PumpCursor, WorkerCrash
  <2>14. QED
    BY <2>1, <2>2, <2>3, <2>4, <2>5, <2>6, <2>7, <2>8, <2>9, <2>10, <2>11, <2>12, <2>13
       DEF Next, Worker, Bridge, vars
<1>4. FlagTypes'
  <2>1. CASE DispatchLine
    <3>1. curOk' \in BOOLEAN /\ recorded' = FALSE
      BY <2>1, FirstLine, AttemptTypes DEF DispatchLine
    <3>2. QED
      BY <2>1, <3>1 DEF DispatchLine, Base, FlagTypes
  <2>2. ASSUME NEW j \in Jobs, RetryDeferred(j) PROVE FlagTypes'
    <3>1. curOk' \in BOOLEAN /\ recorded' = FALSE
      BY <2>2, AttemptTypes DEF RetryDeferred
    <3>2. QED
      BY <2>2, <3>1 DEF RetryDeferred, Base, FlagTypes
  <2>3. ASSUME NEW j \in Jobs
        PROVE  Submit(j) \/ SubmitFails(j) \/ AnswerC5(j) \/ GiveUpC5(j) \/ Upload(j)
                 \/ UploadOverdue(j) => FlagTypes'
    BY DEF Submit, SubmitFails, AnswerC5, GiveUpC5, Upload, UploadOverdue, Base, FlagTypes
  <2>4. Worker \/ WorkerCrash \/ ReadLines \/ DropDone \/ DeferLine => FlagTypes'
    BY DEF Worker, PumpAppend, PumpCursor, WorkerCrash, ReadLines, DropDone, DeferLine, Base,
           FlagTypes
  <2>5. RecordResult \/ MarkDone \/ BridgeStart => FlagTypes'
    BY DEF RecordResult, MarkDone, BridgeStart, Base, FlagTypes
  <2>6. BridgeCrash => FlagTypes'
    <3>1. BridgeCrash => /\ bridgeUp' = FALSE /\ curOk' = FALSE /\ recorded' = FALSE
                         /\ bridgeCrashes' = bridgeCrashes + 1
                         /\ UNCHANGED <<tears, workerCrashes, writeErrors>>
      BY DEF BridgeCrash
    <3>2. workerCrashes \in Nat /\ bridgeCrashes + 1 \in Nat
      BY DEF Base, FlagTypes
    <3>3. QED
      BY <3>1, <3>2, Zenon DEF Base, FlagTypes
  <2>7. RecordFails => FlagTypes'
    <3>1. RecordFails => /\ writeErrors' = writeErrors + 1 /\ curOk' = FALSE
                         /\ UNCHANGED <<bridgeUp, recorded, tears, workerCrashes, bridgeCrashes>>
      BY DEF RecordFails
    <3>2. writeErrors + 1 \in Nat
      BY DEF Base, FlagTypes
    <3>3. QED
      BY <3>1, <3>2, Zenon DEF Base, FlagTypes
  <2>8. UNCHANGED vars => FlagTypes'
    BY DEF vars, Base, FlagTypes
  <2>9. QED
    BY <2>1, <2>2, <2>3, <2>4, <2>5, <2>6, <2>7, <2>8 DEF Next, Bridge
<1>5. QED
  BY <1>1, <1>2, <1>3, <1>4 DEF Base

(* Two sequences in one: its parts.                                          *)
LEMMA ConcatParts ==
    ASSUME NEW a \in Seq(Jobs), NEW b \in Seq(Jobs)
    PROVE  /\ Len(a \o b) = Len(a) + Len(b) /\ Len(a) \in Nat /\ Len(b) \in Nat
           /\ \A i \in 1..Len(a) : (a \o b)[i] = a[i]
           /\ \A i \in 1..Len(b) : (a \o b)[Len(a) + i] = b[i]
OBVIOUS

(* What two sequences in one contain.                                        *)
LEMMA ConcatHas ==
    ASSUME NEW a \in Seq(Jobs), NEW b \in Seq(Jobs)
    PROVE  \A j \in Jobs : Contains(a \o b, j) <=> Contains(a, j) \/ Contains(b, j)
<1>1. /\ Len(a \o b) = Len(a) + Len(b) /\ Len(a) \in Nat /\ Len(b) \in Nat
      /\ \A i \in 1..Len(a) : (a \o b)[i] = a[i]
      /\ \A i \in 1..Len(b) : (a \o b)[Len(a) + i] = b[i]
  BY ConcatParts
<1>2. ASSUME NEW j \in Jobs, Contains(a \o b, j) PROVE Contains(a, j) \/ Contains(b, j)
  <2>1. PICK i \in 1..(Len(a) + Len(b)) : (a \o b)[i] = j
    BY <1>1, <1>2 DEF Contains
  <2>2. CASE i \in 1..Len(a)
    BY <1>1, <2>1, <2>2 DEF Contains
  <2>3. CASE i \notin 1..Len(a)
    <3>1. i - Len(a) \in 1..Len(b) /\ Len(a) + (i - Len(a)) = i
      BY <1>1, <2>1, <2>3
    <3>2. QED
      BY <1>1, <2>1, <3>1 DEF Contains
  <2>4. QED
    BY <2>2, <2>3
<1>3. ASSUME NEW j \in Jobs, Contains(a, j) \/ Contains(b, j) PROVE Contains(a \o b, j)
  <2>1. CASE Contains(a, j)
    BY <1>1, <2>1 DEF Contains
  <2>2. CASE Contains(b, j)
    <3>1. PICK i \in 1..Len(b) : b[i] = j
      BY <2>2 DEF Contains
    <3>2. Len(a) + i \in 1..(Len(a) + Len(b)) /\ (a \o b)[Len(a) + i] = j
      BY <1>1, <3>1
    <3>3. QED
      BY <1>1, <3>2 DEF Contains
  <2>3. QED
    BY <1>3, <2>1, <2>2
<1>4. QED
  BY <1>2, <1>3

(* A sequence and one element more: its parts.                               *)
LEMMA AppendParts ==
    ASSUME NEW a \in Seq(Jobs), NEW u \in Jobs
    PROVE  /\ Len(Append(a, u)) = Len(a) + 1 /\ Len(a) \in Nat
           /\ \A i \in 1..Len(a) : Append(a, u)[i] = a[i]
           /\ Append(a, u)[Len(a) + 1] = u
OBVIOUS

(* What such a sequence contains.                                            *)
LEMMA AppendHas ==
    ASSUME NEW a \in Seq(Jobs), NEW u \in Jobs
    PROVE  \A j \in Jobs : Contains(Append(a, u), j) <=> Contains(a, j) \/ j = u
<1> HIDE DEF Jobs
<1>1. QED
  BY AppendParts DEF Contains

(* The rest of the batch holds nothing new.                                  *)
LEMMA TailHas ==
    ASSUME Base, batch # <<>>
    PROVE  /\ \A j \in Jobs : Contains(Tail(batch), j) => Contains(batch, j)
           /\ Contains(batch, ThisLine)
BY FirstLine DEF Contains

(* Every step keeps the queue in the order of sending.                       *)
LEMMA QueueStep ==
    ASSUME Base, QueueInv, [Next]_vars
    PROVE  QueueInv'
<1> USE SendAssumption DEF phoneVars, workerVars, bridgeVars, resultVars, bodyVars, faultVars
<1>1. /\ queue \in Seq(Jobs) /\ sendIn \in Seq(Jobs) /\ batch \in Seq(Jobs)
      /\ lineLog \in Seq(Jobs) /\ kind \in [Jobs -> Kinds \cup {"none"}]
      /\ phone \in [Jobs -> {"new", "waiting", "acked", "failed"}]
  BY DEF Base, BridgeTypes, FileTypes, PhoneTypes
<1>2. ASSUME NEW j \in Jobs, phone[j] = "new", phone'[j] # "new", IsNext(j),
             \A i \in Jobs : i # j => phone'[i] = phone[i] /\ kind'[i] = kind[i],
             queue' = queue \/ queue' = Append(queue, j),
             UNCHANGED <<sendIn, batch, deferred, cur, lineLog>>
      PROVE  QueueInv'
  <2>1. \A i \in 1..Len(queue) : queue[i] \in Jobs /\ queue[i] < j /\ queue[i] # j
    <3>1. \A i \in 1..Len(queue) : queue[i] \in Jobs /\ phone[queue[i]] # "new"
      BY <1>1 DEF QueueInv, Contains
    <3>2. \A i \in Jobs : phone[i] # "new" => ~(j < i) /\ i # j
      BY <1>2 DEF QueueInv
    <3>3. QED
      BY <3>1, <3>2 DEF Jobs
  <2>2. \A i, k \in 1..Len(queue') : i < k => queue'[i] < queue'[k]
    <3>1. CASE queue' = queue
      BY <3>1 DEF QueueInv
    <3>2. CASE queue' = Append(queue, j)
      <4>1. /\ Len(queue') = Len(queue) + 1 /\ Len(queue) \in Nat /\ queue'[Len(queue) + 1] = j
            /\ \A i \in 1..Len(queue) : queue'[i] = queue[i]
        BY <1>1, <3>2
      <4>2. ASSUME NEW i \in 1..(Len(queue) + 1), NEW k \in 1..(Len(queue) + 1), i < k
            PROVE  queue'[i] < queue'[k]
        <5>1. i \in 1..Len(queue)
          BY <4>1, <4>2
        <5>2. CASE k = Len(queue) + 1
          BY <2>1, <4>1, <5>1, <5>2
        <5>3. CASE k # Len(queue) + 1
          <6>1. k \in 1..Len(queue)
            BY <4>1, <5>3
          <6>2. QED
            BY <4>1, <4>2, <5>1, <6>1 DEF QueueInv
        <5>4. QED
          BY <5>2, <5>3
      <4>3. QED
        BY <4>1, <4>2
    <3>3. QED
      BY <1>2, <3>1, <3>2
  <2>3. \A i, k \in Jobs : i < k /\ phone'[i] = "new" => phone'[k] = "new"
    BY <1>2 DEF QueueInv, IsNext
  <2>4. \A i \in Jobs : Contains(queue', i) <=> Contains(queue, i) \/ (queue' # queue /\ i = j)
    <3>1. \A i \in Jobs : Contains(Append(queue, j), i) <=> Contains(queue, i) \/ i = j
      BY <1>1, AppendHas
    <3>2. Append(queue, j) # queue
      BY <1>1
    <3>3. QED
      BY <1>2, <3>1, <3>2
  <2>5. \A i \in Jobs : Contains(queue', i) => phone'[i] # "new"
    BY <1>2, <2>4 DEF QueueInv
  <2>6. \A i \in deferred : i \in Jobs /\ i # j
    BY <1>2 DEF QueueInv, Base, BridgeTypes
  <2>7. \A i \in deferred' : ~Plain(i)'
    BY <1>2, <2>6 DEF QueueInv, Plain
  <2>8. \A i \in Jobs : Contains(sendIn, i)' \/ Contains(batch, i)' \/ i \in deferred'
                       \/ i = cur' \/ Contains(lineLog, i)' => Contains(queue, i)'
    BY <1>2, <2>4 DEF QueueInv, Contains
  <2>9. QED
    BY <2>2, <2>3, <2>5, <2>7, <2>8 DEF QueueInv, Contains
<1>3. ASSUME NEW j \in Jobs, Submit(j) \/ SubmitFails(j) PROVE QueueInv'
  <2>1. /\ phone[j] = "new" /\ phone'[j] # "new" /\ IsNext(j)
        /\ \A i \in Jobs : i # j => phone'[i] = phone[i] /\ kind'[i] = kind[i]
    BY <1>1, <1>3 DEF Submit, SubmitFails, IsNext
  <2>2. /\ queue' = queue \/ queue' = Append(queue, j)
        /\ UNCHANGED <<sendIn, batch, deferred, cur, lineLog>>
    BY <1>3 DEF Submit, SubmitFails
  <2>3. QED
    BY <1>2, <2>1, <2>2
<1>4. ASSUME UNCHANGED <<queue, kind, phone>>,
             \A j \in deferred' : j \in deferred \/ ~Plain(j),
             \A j \in Jobs : Contains(sendIn, j)' \/ Contains(batch, j)' \/ j \in deferred'
                       \/ j = cur' \/ Contains(lineLog, j)' => Contains(queue, j)
      PROVE  QueueInv'
  BY <1>4 DEF QueueInv, Contains, Plain
<1>5. ASSUME NEW j \in Jobs, AnswerC5(j) \/ GiveUpC5(j) \/ Upload(j) \/ UploadOverdue(j)
      PROVE  QueueInv'
  <2>1. \A i \in Jobs : phone'[i] = "new" <=> phone[i] = "new"
    BY <1>1, <1>5 DEF AnswerC5, GiveUpC5, Upload, UploadOverdue
  <2>2. UNCHANGED <<queue, kind, sendIn, batch, deferred, cur, lineLog>>
    BY <1>5 DEF AnswerC5, GiveUpC5, Upload, UploadOverdue
  <2>3. QED
    BY <2>1, <2>2 DEF QueueInv, Contains, Plain
<1>6. CASE PumpAppend
  <2>1. UNCHANGED <<queue, kind, phone, batch, deferred, cur, lineLog>>
    BY <1>6 DEF PumpAppend
  <2>2. PICK p \in Seq(Jobs) : /\ sendIn' = sendIn \o p
                               /\ \A j \in Jobs : Contains(p, j) <=> InQueue(j)
    BY <1>6, Copy
  <2>3. \A j \in Jobs : InQueue(j) => Contains(queue, j)
    BY DEF InQueue, Contains, Base, FileTypes
  <2>4. \A j \in Jobs : Contains(sendIn, j)' => Contains(queue, j)
    <3>1. \A j \in Jobs : Contains(sendIn', j) => Contains(sendIn, j) \/ Contains(p, j)
      BY <1>1, <2>2, ConcatHas
    <3>2. QED
      BY <2>2, <2>3, <3>1 DEF QueueInv, Contains
  <2>5. QED
    BY <1>4, <2>1, <2>4 DEF QueueInv, Contains
<1>7. CASE ReadLines
  <2>1. \A j \in Jobs : Contains(batch, j)' => Contains(sendIn, j)
    BY <1>1, <1>7 DEF ReadLines, Base, FileTypes, Contains
  <2>2. UNCHANGED <<queue, kind, phone, sendIn, deferred, cur, lineLog>>
    BY <1>7 DEF ReadLines
  <2>3. QED
    BY <1>4, <2>1, <2>2 DEF QueueInv, Contains
<1>8. CASE DropDone
  <2>1. \A j \in Jobs : Contains(batch, j)' => Contains(batch, j)
    BY <1>8, TailHas DEF DropDone, Contains
  <2>2. UNCHANGED <<queue, kind, phone, sendIn, deferred, cur, lineLog>>
    BY <1>8 DEF DropDone
  <2>3. QED
    BY <1>4, <2>1, <2>2 DEF QueueInv, Contains
<1>9. CASE DispatchLine
  <2>1. batch' = Tail(batch) /\ ThisLine \in Jobs /\ batch # <<>> /\ Attempt(ThisLine)
    BY <1>9, FirstLine DEF DispatchLine
  <2>2. \A j \in Jobs : Contains(batch, j)' => Contains(batch, j)
    BY <2>1, TailHas DEF Contains
  <2>3. Contains(batch, ThisLine)
    BY <2>1, TailHas
  <2>4. cur' = ThisLine /\ (lineLog' = lineLog \/ lineLog' = Append(lineLog, ThisLine))
    BY <2>1, AttemptTypes
  <2>5. \A j \in Jobs : Contains(lineLog, j)' => Contains(lineLog, j) \/ j = ThisLine
    <3>1. \A j \in Jobs :
            Contains(Append(lineLog, ThisLine), j) <=> Contains(lineLog, j) \/ j = ThisLine
      BY <1>1, <2>1, AppendHas
    <3>2. \A j \in Jobs : Contains(lineLog', j) => Contains(lineLog, j) \/ j = ThisLine
      BY <2>4, <3>1
    <3>3. QED
      BY <3>2 DEF Contains
  <2>6. UNCHANGED <<queue, kind, phone, sendIn, deferred>>
    BY <1>9 DEF DispatchLine
  <2>7. QED
    BY <1>4, <2>2, <2>3, <2>4, <2>5, <2>6 DEF QueueInv, Contains
<1>10. CASE DeferLine
  <2>1. batch' = Tail(batch) /\ ThisLine \in Jobs /\ batch # <<>> /\ ~Plain(ThisLine)
    BY <1>10, FirstLine DEF DeferLine, Plain
  <2>2. \A j \in Jobs : Contains(batch, j)' => Contains(batch, j)
    BY <2>1, TailHas DEF Contains
  <2>3. Contains(batch, ThisLine)
    BY <2>1, TailHas
  <2>4. UNCHANGED <<queue, kind, phone, sendIn, cur, lineLog>> /\ deferred' = deferred \cup {ThisLine}
    BY <1>10 DEF DeferLine
  <2>5. QED
    BY <1>4, <2>1, <2>2, <2>3, <2>4 DEF QueueInv, Contains
<1>11. ASSUME NEW j \in Jobs, RetryDeferred(j) PROVE QueueInv'
  <2>1. cur' = j /\ (lineLog' = lineLog \/ lineLog' = Append(lineLog, j)) /\ j \in deferred
    BY <1>11, AttemptTypes DEF RetryDeferred
  <2>2. \A i \in Jobs : Contains(lineLog, i)' => Contains(lineLog, i) \/ i = j
    <3>1. \A i \in Jobs : Contains(Append(lineLog, j), i) <=> Contains(lineLog, i) \/ i = j
      BY <1>1, AppendHas
    <3>2. \A i \in Jobs : Contains(lineLog', i) => Contains(lineLog, i) \/ i = j
      BY <2>1, <3>1
    <3>3. QED
      BY <3>2 DEF Contains
  <2>3. UNCHANGED <<queue, kind, phone, sendIn, deferred, batch>>
    BY <1>11 DEF RetryDeferred
  <2>4. QED
    BY <1>4, <2>1, <2>2, <2>3 DEF QueueInv, Contains
<1>12. CASE RecordResult \/ RecordFails \/ MarkDone \/ BridgeCrash
  <2>1. /\ UNCHANGED <<queue, kind, phone, sendIn, lineLog>>
        /\ batch' = batch \/ batch' = <<>>
        /\ deferred' \subseteq deferred /\ cur' \in {cur, None}
    BY <1>12 DEF RecordResult, RecordFails, MarkDone, BridgeCrash
  <2>2. \A j \in Jobs : Contains(batch, j)' => Contains(batch, j)
    BY <2>1 DEF Contains
  <2>3. QED
    BY <1>4, <2>1, <2>2 DEF QueueInv, Contains
<1>13. CASE PumpCursor \/ WorkerCrash \/ BridgeStart \/ UNCHANGED vars
  <2>1. UNCHANGED <<queue, kind, phone, sendIn, batch, deferred, cur, lineLog>>
    BY <1>13 DEF PumpCursor, WorkerCrash, BridgeStart, vars
  <2>2. QED
    BY <1>4, <2>1 DEF QueueInv, Contains
<1>14. QED
  BY <1>3, <1>5, <1>6, <1>7, <1>8, <1>9, <1>10, <1>11, <1>12, <1>13
     DEF Next, Worker, Bridge

\* The order, wherever a job is, while no cursor was cut.
OrderInv == FileOrder /\ BatchOrder /\ LogOrder /\ LineOrder

(* Whatever is on its way was queued, and a new job is the last.             *)
LEMMA OnTheWay ==
    ASSUME Base, QueueInv
    PROVE  /\ \A y \in Jobs : InQueue(y) \/ InFile(y) \/ Contains(batch, y) => Contains(queue, y)
           /\ \A i \in 1..Len(sendIn) : sendIn[i] \in Jobs /\ Contains(queue, sendIn[i])
           /\ \A i \in 1..Len(batch) : batch[i] \in Jobs /\ Contains(queue, batch[i])
           /\ \A i \in 1..Len(lineLog) : lineLog[i] \in Jobs /\ Contains(queue, lineLog[i])
           /\ From \in 0..Len(sendIn)
           /\ \A j \in Jobs : IsNext(j) => \A x \in Jobs : Contains(queue, x) => x < j
<1>1. /\ queue \in Seq(Jobs) /\ sendIn \in Seq(Jobs) /\ batch \in Seq(Jobs)
      /\ lineLog \in Seq(Jobs) /\ offset \in 0..Len(sendIn) /\ curSend \in 0..Len(queue)
  BY DEF Base, BridgeTypes, FileTypes
<1>2. From \in 0..Len(sendIn)
  BY <1>1 DEF From
<1>3. \A y \in Jobs : InQueue(y) => Contains(queue, y)
  BY <1>1 DEF InQueue, Contains
<1>4. \A y \in Jobs : InFile(y) => Contains(sendIn, y)
  BY <1>1, <1>2 DEF InFile, Contains
<1>5. /\ \A i \in 1..Len(sendIn) : sendIn[i] \in Jobs /\ Contains(sendIn, sendIn[i])
      /\ \A i \in 1..Len(batch) : batch[i] \in Jobs /\ Contains(batch, batch[i])
      /\ \A i \in 1..Len(lineLog) : lineLog[i] \in Jobs /\ Contains(lineLog, lineLog[i])
  BY <1>1 DEF Contains
<1>6. \A j \in Jobs : IsNext(j) => \A x \in Jobs : Contains(queue, x) => x < j
  <2>1. ASSUME NEW j \in Jobs, IsNext(j), NEW x \in Jobs, Contains(queue, x) PROVE x < j
    <3>1. phone[j] = "new" /\ phone[x] # "new"
      BY <2>1 DEF QueueInv, IsNext
    <3>2. ~(j < x) /\ j # x
      BY <3>1 DEF QueueInv
    <3>3. QED
      BY <3>2 DEF Jobs
  <2>2. QED
    BY <2>1
<1>7. QED
  BY <1>2, <1>3, <1>4, <1>5, <1>6 DEF QueueInv

(* A step that moves no line keeps the order.                                *)
LEMMA CalmStep ==
    ASSUME Base, QueueInv, OrderInv,
           UNCHANGED <<sendIn, batch, lineLog, From>>,
           \A y \in Jobs : InQueue(y)' =>
              InQueue(y) \/ \A x \in Jobs : Contains(queue, x) => x < y,
           \A y \in Jobs : Contains(queue, y) => Plain(y)' = Plain(y),
           \A y \in doneDisk : y \in doneDisk',
           \A y \in Jobs : y = cur => y = cur' \/ y \in doneDisk'
    PROVE  OrderInv'
<1>1. \A y \in Jobs : InFile(y)' <=> InFile(y)
  BY DEF InFile
<1>2. \A y \in Jobs : Contains(batch, y)' <=> Contains(batch, y)
  BY DEF Contains
<1>3. \A x, y \in Jobs : Contains(queue, x) /\ y < x /\ InQueue(y)' => InQueue(y)
  BY DEF Jobs
<1>4. \A x \in Jobs : Contains(queue, x) => Plain(x)' = Plain(x)
  OBVIOUS
<1>5. FileOrder'
  <2> SUFFICES ASSUME NEW i \in (From + 1)..Len(sendIn), NEW y \in Jobs,
                      Plain(y)', Plain(sendIn[i])', y < sendIn[i],
                      InQueue(y)' \/ InFile(y)'
               PROVE  \E h \in (From + 1)..(i - 1) : sendIn[h] = y
    BY DEF FileOrder, Plain
  <2>1. sendIn[i] \in Jobs /\ Contains(queue, sendIn[i])
    BY OnTheWay
  <2>2. InQueue(y) \/ InFile(y)
    BY <1>1, <1>3, <2>1
  <2>3. Plain(y) /\ Plain(sendIn[i])
    BY <1>4, <2>1, <2>2, OnTheWay DEF Plain
  <2>4. QED
    BY <2>2, <2>3 DEF OrderInv, FileOrder
<1>6. BatchOrder'
  <2> SUFFICES ASSUME NEW i \in 1..Len(batch), NEW y \in Jobs,
                      Plain(y)', Plain(batch[i])', y < batch[i],
                      InQueue(y)' \/ InFile(y)' \/ Contains(batch, y)'
               PROVE  y \in doneDisk' \/ y = cur' \/ \E h \in 1..(i - 1) : batch[h] = y
    BY DEF BatchOrder, Plain
  <2>1. batch[i] \in Jobs /\ Contains(queue, batch[i])
    BY OnTheWay
  <2>2. InQueue(y) \/ InFile(y) \/ Contains(batch, y)
    BY <1>1, <1>2, <1>3, <2>1
  <2>3. Plain(y) /\ Plain(batch[i])
    BY <1>4, <2>1, <2>2, OnTheWay DEF Plain
  <2>4. y \in doneDisk \/ y = cur \/ \E h \in 1..(i - 1) : batch[h] = y
    BY <2>2, <2>3 DEF OrderInv, BatchOrder
  <2>5. QED
    BY <2>4
<1>7. LogOrder'
  <2> SUFFICES ASSUME NEW i \in 1..Len(lineLog), NEW y \in Jobs,
                      Plain(y)', Plain(lineLog[i])', y < lineLog[i],
                      InQueue(y)' \/ InFile(y)' \/ Contains(batch, y)'
               PROVE  y \in doneDisk'
    BY DEF LogOrder, Plain
  <2>1. lineLog[i] \in Jobs /\ Contains(queue, lineLog[i])
    BY OnTheWay
  <2>2. InQueue(y) \/ InFile(y) \/ Contains(batch, y)
    BY <1>1, <1>2, <1>3, <2>1
  <2>3. Plain(y) /\ Plain(lineLog[i])
    BY <1>4, <2>1, <2>2, OnTheWay DEF Plain
  <2>4. QED
    BY <2>2, <2>3 DEF OrderInv, LogOrder
<1>8. LineOrder'
  <2>1. \A i \in 1..Len(lineLog) : Plain(lineLog[i])' = Plain(lineLog[i])
    BY <1>4, OnTheWay DEF Plain
  <2>2. QED
    BY <2>1 DEF OrderInv, LineOrder, Plain
<1>9. QED
  BY <1>5, <1>6, <1>7, <1>8 DEF OrderInv

(* The worker copies: the lines of the file stay in front.                   *)
LEMMA CopyOrder ==
    ASSUME Base, QueueInv, OrderInv, PumpAppend
    PROVE  OrderInv'
<1> USE DEF phoneVars, workerVars, bridgeVars, resultVars, bodyVars, faultVars
<1>1. UNCHANGED <<kind, cut, queue, curSend, batch, lineLog, doneDisk, cur, bridgeUp, offset>>
  BY DEF PumpAppend
<1>2. PICK p \in Seq(Jobs) : /\ sendIn' = sendIn \o p /\ Increasing(p)
                             /\ \A j \in Jobs : Contains(p, j) <=> InQueue(j)
  BY Copy
<1>3. sendIn \in Seq(Jobs)
  BY DEF Base, FileTypes
<1> DEFINE L == Len(sendIn)
<1>4. /\ L \in Nat /\ Len(p) \in Nat /\ Len(sendIn') = L + Len(p)
      /\ \A i \in 1..L : sendIn'[i] = sendIn[i]
      /\ \A i \in 1..Len(p) : sendIn'[L + i] = p[i]
      /\ \A i \in (L + 1)..(L + Len(p)) : i - L \in 1..Len(p) /\ sendIn'[i] = p[i - L]
  BY <1>2, <1>3
<1> DEFINE f == From
           g == From'
<1> HIDE DEF L
<1>5. f \in 0..L /\ g \in 0..Len(sendIn') /\ g >= f /\ (g = f \/ f = L)
      /\ (g = f \/ g = Len(sendIn'))
  BY <1>1, <1>4, OnTheWay DEF From, f, g, Base, FlagTypes, FileTypes, L
<1> HIDE DEF f, g
<1>6. \A y \in Jobs : InQueue(y)' <=> InQueue(y)
  BY <1>1 DEF InQueue
<1>7. \A y \in Jobs : InFile(y)' => InFile(y) \/ InQueue(y)
  <2> SUFFICES ASSUME NEW y \in Jobs, NEW k \in (g + 1)..Len(sendIn'), sendIn'[k] = y
               PROVE  InFile(y) \/ InQueue(y)
    BY DEF InFile, g
  <2>1. CASE k \in 1..L
    <3>1. k \in (f + 1)..L
      BY <1>4, <1>5, <2>1
    <3>2. QED
      BY <1>4, <2>1, <3>1 DEF InFile, L, f
  <2>2. CASE k \notin 1..L
    <3>1. k - L \in 1..Len(p) /\ p[k - L] = y
      BY <1>4, <1>5, <2>2
    <3>2. QED
      BY <1>2, <3>1 DEF Contains
  <2>3. QED
    BY <2>1, <2>2
<1>8. \A y \in Jobs : Plain(y)' <=> Plain(y)
  BY <1>1 DEF Plain
<1>9. FileOrder'
  <2> SUFFICES ASSUME NEW i \in (g + 1)..Len(sendIn'), NEW y \in Jobs,
                      Plain(y)', Plain(sendIn[i])', y < sendIn'[i],
                      InQueue(y)' \/ InFile(y)'
               PROVE  \E h \in (g + 1)..(i - 1) : sendIn'[h] = y
    BY DEF FileOrder, Plain, g
  <2>1. g = f
    BY <1>4, <1>5
  <2>2. InQueue(y) \/ InFile(y)
    BY <1>6, <1>7
  <2>3. CASE i \in 1..L
    <3>1. i \in (f + 1)..Len(sendIn) /\ Plain(y) /\ Plain(sendIn[i]) /\ y < sendIn[i]
      BY <1>1, <1>4, <2>1, <2>3 DEF Plain, L
    <3>2. PICK h \in (f + 1)..(i - 1) : sendIn[h] = y
      BY <2>2, <3>1 DEF OrderInv, FileOrder, f
    <3>3. h \in 1..L /\ sendIn'[h] = y
      BY <1>4, <1>5, <2>3, <3>2
    <3>4. QED
      BY <2>1, <3>2, <3>3
  <2>4. CASE i \notin 1..L
    <3>1. i - L \in 1..Len(p) /\ sendIn'[i] = p[i - L]
      BY <1>4, <1>5, <2>4
    <3>2. CASE InFile(y)
      <4>1. PICK h \in (f + 1)..L : sendIn[h] = y
        BY <3>2 DEF InFile, L, f
      <4>2. h \in (g + 1)..(i - 1) /\ sendIn'[h] = y
        BY <1>4, <1>5, <2>1, <2>4, <4>1
      <4>3. QED
        BY <4>2
    <3>3. CASE InQueue(y)
      <4>1. PICK k \in 1..Len(p) : p[k] = y
        BY <1>2, <3>3 DEF Contains
      <4>2. k < i - L
        <5>1. y < p[i - L]
          BY <3>1
        <5>2. i - L < k => p[i - L] < p[k]
          BY <1>2, <3>1, <4>1 DEF Increasing
        <5>3. p[i - L] \in Jobs
          BY <3>1
        <5>4. QED
          BY <3>1, <4>1, <5>1, <5>2, <5>3 DEF Jobs
      <4>3. L + k \in (g + 1)..(i - 1) /\ sendIn'[L + k] = y
        BY <1>4, <1>5, <2>1, <3>1, <4>1, <4>2
      <4>4. QED
        BY <4>3
    <3>4. QED
      BY <2>2, <3>2, <3>3
  <2>5. QED
    BY <2>3, <2>4
<1>10. \A y \in Jobs : InQueue(y)' \/ InFile(y)' => InQueue(y) \/ InFile(y)
  BY <1>6, <1>7
<1>11. \A y \in Jobs : Contains(batch, y)' <=> Contains(batch, y)
  BY <1>1 DEF Contains
<1>12. BatchOrder'
  <2> SUFFICES ASSUME NEW i \in 1..Len(batch), NEW y \in Jobs,
                      Plain(y), Plain(batch[i]), y < batch[i],
                      InQueue(y)' \/ InFile(y)' \/ Contains(batch, y)'
               PROVE  y \in doneDisk \/ y = cur \/ \E h \in 1..(i - 1) : batch[h] = y
    BY <1>1 DEF BatchOrder, Plain
  <2>1. QED
    BY <1>10, <1>11 DEF OrderInv, BatchOrder
<1>13. LogOrder'
  <2> SUFFICES ASSUME NEW i \in 1..Len(lineLog), NEW y \in Jobs,
                      Plain(y), Plain(lineLog[i]), y < lineLog[i],
                      InQueue(y)' \/ InFile(y)' \/ Contains(batch, y)'
               PROVE  y \in doneDisk
    BY <1>1 DEF LogOrder, Plain
  <2>1. QED
    BY <1>10, <1>11 DEF OrderInv, LogOrder
<1>14. LineOrder'
  BY <1>1 DEF OrderInv, LineOrder
<1>15. QED
  BY <1>9, <1>12, <1>13, <1>14 DEF OrderInv

(* The bridge reads the lines of the file.                                   *)
LEMMA ReadOrder ==
    ASSUME Base, QueueInv, OrderInv, ReadLines
    PROVE  OrderInv'
<1>1. UNCHANGED <<kind, cut, queue, curSend, sendIn, lineLog, doneDisk, cur, bridgeUp>>
  BY DEF ReadLines, phoneVars, workerVars, resultVars
<1>2. /\ sendIn \in Seq(Jobs) /\ offset \in 0..Len(sendIn) /\ bridgeUp /\ batch = <<>>
      /\ batch' = SubSeq(sendIn, offset + 1, Len(sendIn)) /\ offset' = Len(sendIn)
  BY DEF ReadLines, Idle, Base, FileTypes
<1>3. From = offset /\ From' = Len(sendIn)
  BY <1>1, <1>2 DEF From
<1>4. /\ Len(batch') = Len(sendIn) - offset
      /\ \A i \in 1..Len(batch') : /\ batch'[i] = sendIn[offset + i]
                                   /\ offset + i \in (offset + 1)..Len(sendIn)
      /\ \A k \in (offset + 1)..Len(sendIn) : /\ k - offset \in 1..Len(batch')
                                              /\ batch'[k - offset] = sendIn[k]
  BY <1>2
<1>5. \A y \in Jobs : InQueue(y)' <=> InQueue(y)
  BY <1>1 DEF InQueue
<1>6. \A y \in Jobs : ~InFile(y)'
  BY <1>1, <1>2, <1>3 DEF InFile
<1>7. \A y \in Jobs : Contains(batch', y) => InFile(y)
  BY <1>3, <1>4 DEF Contains, InFile
<1>8. FileOrder'
  BY <1>1, <1>2, <1>3 DEF FileOrder
<1>9. BatchOrder'
  <2> SUFFICES ASSUME NEW i \in 1..Len(batch'), NEW y \in Jobs,
                      Plain(y), Plain(batch'[i]), y < batch'[i],
                      InQueue(y) \/ InFile(y)
               PROVE  \E h \in 1..(i - 1) : batch'[h] = y
    BY <1>1, <1>5, <1>6, <1>7 DEF BatchOrder, Plain, Contains
  <2> DEFINE e == offset + i
  <2>0. e \in (From + 1)..Len(sendIn) /\ y < sendIn[e] /\ Plain(sendIn[e])
    BY <1>3, <1>4
  <2> HIDE DEF e
  <2>1. PICK h \in (From + 1)..(e - 1) : sendIn[h] = y
    BY <2>0 DEF OrderInv, FileOrder
  <2>2. h - offset \in 1..(i - 1) /\ batch'[h - offset] = y
    BY <1>2, <1>3, <1>4, <2>1 DEF e
  <2>3. QED
    BY <2>2
<1>10. LogOrder'
  <2> SUFFICES ASSUME NEW i \in 1..Len(lineLog), NEW y \in Jobs,
                      Plain(y), Plain(lineLog[i]), y < lineLog[i],
                      InQueue(y) \/ InFile(y)
               PROVE  y \in doneDisk
    BY <1>1, <1>5, <1>6, <1>7 DEF LogOrder, Plain, Contains
  <2>1. QED
    BY DEF OrderInv, LogOrder
<1>11. LineOrder'
  BY <1>1 DEF OrderInv, LineOrder
<1>12. QED
  BY <1>8, <1>9, <1>10, <1>11 DEF OrderInv

(* The first line leaves the batch: because its job was answered, because it *)
(* waits for a body, or to be the one LINE is called for.                    *)
LEMMA HeadOrder ==
    ASSUME Base, QueueInv, OrderInv, batch # <<>>, batch' = Tail(batch),
           UNCHANGED <<kind, cut, queue, curSend, sendIn, doneDisk, bridgeUp, offset>>,
           cur = None,
           \/ ThisLine \in doneDisk \/ ~Plain(ThisLine) \/ cur' = ThisLine
    PROVE  /\ FileOrder' /\ BatchOrder'
           /\ \A y \in Jobs : InQueue(y)' \/ InFile(y)' \/ Contains(batch, y)'
                                 => InQueue(y) \/ InFile(y) \/ Contains(batch, y)
<1>1. From' = From
  BY DEF From
<1>2. \A y \in Jobs : (InQueue(y)' <=> InQueue(y)) /\ (InFile(y)' <=> InFile(y))
  BY <1>1 DEF InQueue, InFile
<1>3. \A y \in Jobs : Contains(Tail(batch), y) => Contains(batch, y)
  BY TailHas
<1>4. \A y \in Jobs : Contains(batch', y) => Contains(batch, y)
  BY <1>3
<1>5. \A y \in Jobs : InQueue(y)' \/ InFile(y)' \/ Contains(batch, y)'
                         => InQueue(y) \/ InFile(y) \/ Contains(batch, y)
  BY <1>2, <1>4 DEF Contains
<1>6. FileOrder'
  BY <1>1, <1>2 DEF OrderInv, FileOrder, Plain
<1>7. BatchOrder'
  <2> SUFFICES ASSUME NEW i \in 1..Len(batch'), NEW y \in Jobs,
                      Plain(y), Plain(batch'[i]), y < batch'[i],
                      InQueue(y) \/ InFile(y) \/ Contains(batch, y)
               PROVE  y \in doneDisk \/ y = cur' \/ \E h \in 1..(i - 1) : batch'[h] = y
    BY <1>5 DEF BatchOrder, Plain
  <2>1. /\ i + 1 \in 1..Len(batch) /\ batch'[i] = batch[i + 1] /\ ThisLine = batch[1]
        /\ Len(batch') = Len(batch) - 1 /\ Len(batch) \in Nat
        /\ \A h \in 1..Len(batch') : batch'[h] = batch[h + 1]
    BY FirstLine DEF Base, BridgeTypes
  <2>2. y \in doneDisk \/ y = cur \/ \E h \in 1..i : batch[h] = y
    <3>1. y < batch[i + 1] /\ Plain(batch[i + 1])
      BY <2>1
    <3>2. y \in doneDisk \/ y = cur \/ \E h \in 1..((i + 1) - 1) : batch[h] = y
      BY <2>1, <3>1 DEF OrderInv, BatchOrder
    <3>3. QED
      BY <2>1, <3>2
  <2>3. y # cur
    BY SendAssumption
  <2>4. CASE \E h \in 1..i : batch[h] = y
    <3>1. PICK h \in 1..i : batch[h] = y
      BY <2>4
    <3>2. CASE h = 1
      BY <2>1, <3>1, <3>2
    <3>3. CASE h # 1
      <4>1. h - 1 \in 1..(i - 1) /\ h - 1 \in 1..Len(batch') /\ (h - 1) + 1 = h
        BY <2>1, <3>1, <3>3
      <4>2. batch'[h - 1] = y
        BY <2>1, <3>1, <4>1
      <4>3. QED
        BY <4>1, <4>2
    <3>4. QED
      BY <3>2, <3>3
  <2>5. QED
    BY <2>2, <2>3, <2>4
<1>8. QED
  BY <1>5, <1>6, <1>7

(* A line leaves the batch because it was answered or waits for its body.    *)
LEMMA DropOrder ==
    ASSUME Base, QueueInv, OrderInv, DropDone \/ DeferLine
    PROVE  OrderInv'
<1> USE DEF phoneVars, workerVars, resultVars
<1>1. /\ UNCHANGED <<kind, cut, queue, curSend, sendIn, doneDisk, bridgeUp, offset, lineLog>>
      /\ batch # <<>> /\ cur = None /\ bridgeUp
  BY DEF DropDone, DeferLine, Idle
<1>2. batch' = Tail(batch)
  BY <1>1, FirstLine DEF DropDone, DeferLine
<1>3. ThisLine \in doneDisk \/ ~Plain(ThisLine)
  BY <1>1 DEF DropDone, DeferLine, AlreadyAnswered, ThisLine, Base, BridgeState, Plain
<1>4. /\ FileOrder' /\ BatchOrder'
      /\ \A y \in Jobs : InQueue(y)' \/ InFile(y)' \/ Contains(batch, y)'
                            => InQueue(y) \/ InFile(y) \/ Contains(batch, y)
  BY <1>1, <1>2, <1>3, HeadOrder
<1>5. LogOrder'
  BY <1>1, <1>4 DEF OrderInv, LogOrder, Plain
<1>6. LineOrder'
  BY <1>1 DEF OrderInv, LineOrder
<1>7. QED
  BY <1>4, <1>5, <1>6 DEF OrderInv

(* LINE is called for the first line of the batch: everything in front of it *)
(* was answered.                                                             *)
LEMMA DispatchOrder ==
    ASSUME Base, QueueInv, OrderInv, DispatchLine
    PROVE  OrderInv'
<1> USE DEF phoneVars, workerVars, resultVars
<1>1. /\ UNCHANGED <<kind, cut, queue, curSend, sendIn, doneDisk, bridgeUp, offset>>
      /\ batch # <<>> /\ cur = None /\ bridgeUp /\ Attempt(ThisLine)
  BY DEF DispatchLine, Idle
<1>2. batch' = Tail(batch) /\ ThisLine \in Jobs /\ ThisLine = batch[1] /\ 1 \in 1..Len(batch)
  BY <1>1, FirstLine DEF DispatchLine
<1>3. /\ cur' = ThisLine /\ lineLog' \in {lineLog, Append(lineLog, ThisLine)}
  BY <1>1, <1>2, AttemptTypes
<1>4. ThisLine \notin doneDisk
  BY <1>1 DEF DispatchLine, AlreadyAnswered, Base, BridgeState
<1>5. /\ FileOrder' /\ BatchOrder'
      /\ \A y \in Jobs : InQueue(y)' \/ InFile(y)' \/ Contains(batch, y)'
                            => InQueue(y) \/ InFile(y) \/ Contains(batch, y)
  BY <1>1, <1>2, <1>3, HeadOrder
<1>6. lineLog \in Seq(Jobs)
  BY DEF Base, BridgeTypes
<1>7. CASE lineLog' = lineLog
  <2>1. LogOrder'
    BY <1>1, <1>5, <1>7 DEF OrderInv, LogOrder, Plain
  <2>2. LineOrder'
    BY <1>1, <1>7 DEF OrderInv, LineOrder
  <2>3. QED
    BY <1>5, <2>1, <2>2 DEF OrderInv
<1>8. CASE lineLog' = Append(lineLog, ThisLine)
  <2> DEFINE n == Len(lineLog)
  <2>1. /\ n \in Nat /\ Len(lineLog') = n + 1 /\ lineLog'[n + 1] = ThisLine
        /\ \A i \in 1..n : lineLog'[i] = lineLog[i] /\ lineLog[i] \in Jobs
    BY <1>2, <1>6, <1>8
  <2> HIDE DEF n
  <2>2. LogOrder'
    <3> SUFFICES ASSUME NEW i \in 1..(n + 1), NEW y \in Jobs,
                        Plain(y), Plain(lineLog'[i]), y < lineLog'[i],
                        InQueue(y) \/ InFile(y) \/ Contains(batch, y)
                 PROVE  y \in doneDisk
      BY <1>1, <1>5, <2>1 DEF LogOrder, Plain
    <3>1. CASE i = n + 1
      <4>1. y < batch[1] /\ Plain(batch[1])
        BY <1>2, <2>1, <3>1
      <4>2. y \in doneDisk \/ y = cur \/ \E h \in 1..(1 - 1) : batch[h] = y
        BY <1>2, <4>1 DEF OrderInv, BatchOrder
      <4>3. QED
        BY <1>1, <4>2, SendAssumption
    <3>2. CASE i # n + 1
      <4>1. i \in 1..Len(lineLog) /\ lineLog'[i] = lineLog[i]
        BY <2>1, <3>2 DEF n
      <4>2. QED
        BY <4>1 DEF OrderInv, LogOrder
    <3>3. QED
      BY <3>1, <3>2
  <2>3. LineOrder'
    <3> SUFFICES ASSUME NEW i \in 1..(n + 1), NEW k \in 1..(n + 1), i < k,
                        Plain(lineLog'[i]), Plain(lineLog'[k])
                 PROVE  lineLog'[i] <= lineLog'[k]
      BY <1>1, <2>1 DEF LineOrder, Plain
    <3>1. i \in 1..Len(lineLog) /\ lineLog'[i] = lineLog[i] /\ lineLog[i] \in Jobs
      BY <2>1 DEF n
    <3>2. CASE k = n + 1
      <4>1. ~(ThisLine < lineLog[i])
        <5>1. Contains(batch, ThisLine)
          BY <1>1, TailHas
        <5>2. QED
          BY <1>2, <1>4, <2>1, <3>1, <3>2, <5>1 DEF OrderInv, LogOrder
      <4>2. QED
        BY <1>2, <2>1, <3>1, <3>2, <4>1 DEF Jobs
    <3>3. CASE k # n + 1
      <4>1. k \in 1..Len(lineLog) /\ lineLog'[k] = lineLog[k]
        BY <2>1, <3>3 DEF n
      <4>2. QED
        BY <3>1, <4>1 DEF OrderInv, LineOrder, Plain
    <3>4. QED
      BY <3>2, <3>3
  <2>4. QED
    BY <1>5, <2>2, <2>3 DEF OrderInv
<1>9. QED
  BY <1>3, <1>7, <1>8

(* A deferred job is not among those whose order counts.                     *)
LEMMA RetryOrder ==
    ASSUME Base, QueueInv, OrderInv, NEW j \in Jobs, RetryDeferred(j)
    PROVE  OrderInv'
<1> USE DEF phoneVars, workerVars, resultVars
<1>1. /\ UNCHANGED <<kind, cut, queue, curSend, sendIn, doneDisk, bridgeUp, offset, batch>>
      /\ batch = <<>> /\ Attempt(j) /\ j \in deferred
  BY DEF RetryDeferred
<1>2. lineLog' \in {lineLog, Append(lineLog, j)} /\ lineLog \in Seq(Jobs)
  BY <1>1, AttemptTypes DEF Base, BridgeTypes
<1>3. ~Plain(j)
  BY <1>1 DEF QueueInv
<1>4. From' = From
  BY <1>1 DEF From
<1>5. \A y \in Jobs : /\ InQueue(y)' <=> InQueue(y)
                      /\ InFile(y)' <=> InFile(y)
                      /\ Contains(batch, y)' <=> Contains(batch, y)
  BY <1>1, <1>4 DEF InQueue, InFile, Contains
<1>6. \A i \in 1..Len(lineLog') : Plain(lineLog'[i]) =>
         /\ i \in 1..Len(lineLog) /\ lineLog'[i] = lineLog[i]
  BY <1>2, <1>3
<1>7. FileOrder'
  BY <1>1, <1>4, <1>5 DEF OrderInv, FileOrder, Plain
<1>8. BatchOrder'
  BY <1>1 DEF BatchOrder
<1>9. LogOrder'
  BY <1>1, <1>5, <1>6 DEF OrderInv, LogOrder, Plain
<1>10. LineOrder'
  BY <1>1, <1>6 DEF OrderInv, LineOrder, Plain
<1>11. QED
  BY <1>7, <1>8, <1>9, <1>10 DEF OrderInv

(* The bridge loses the lines it has read.                                   *)
LEMMA LoseOrder ==
    ASSUME Base, QueueInv, OrderInv, RecordFails \/ BridgeCrash
    PROVE  OrderInv'
<1> USE DEF phoneVars, workerVars, resultVars
<1>1. /\ UNCHANGED <<kind, cut, queue, curSend, sendIn, doneDisk, lineLog>> /\ batch' = <<>>
  BY DEF RecordFails, BridgeCrash
<1>2. From' = From \/ From' = Len(sendIn)
  BY <1>1 DEF RecordFails, BridgeCrash, From
<1>3. From \in 0..Len(sendIn) /\ Len(sendIn) \in Nat
  BY OnTheWay DEF Base, FileTypes
<1>4. \A y \in Jobs : /\ InQueue(y)' => InQueue(y)
                      /\ InFile(y)' => InFile(y)
                      /\ ~Contains(batch, y)'
  BY <1>1, <1>2, <1>3 DEF InQueue, InFile, Contains
<1>5. FileOrder'
  <2>1. CASE From' = From
    BY <1>1, <1>4, <2>1 DEF OrderInv, FileOrder, Plain
  <2>2. CASE From' = Len(sendIn)
    BY <1>1, <1>3, <2>2 DEF FileOrder
  <2>3. QED
    BY <1>2, <2>1, <2>2
<1>6. BatchOrder'
  BY <1>1 DEF BatchOrder
<1>7. LogOrder'
  BY <1>1, <1>4 DEF OrderInv, LogOrder, Plain
<1>8. LineOrder'
  BY <1>1 DEF OrderInv, LineOrder
<1>9. QED
  BY <1>5, <1>6, <1>7, <1>8 DEF OrderInv

(* Every step keeps the order.                                               *)
LEMMA OrderStep ==
    ASSUME Base, QueueInv, OrderInv, [Next]_vars, tears' = tears
    PROVE  OrderInv'
<1> USE DEF phoneVars, workerVars, bridgeVars, resultVars, bodyVars, faultVars
<1>1. ASSUME NEW j \in Jobs, Submit(j) \/ SubmitFails(j) PROVE OrderInv'
  <2>1. /\ UNCHANGED <<curSend, sendIn, batch, lineLog, bridgeUp, offset, doneDisk, cur>>
        /\ queue' \in {queue, Append(queue, j)}
        /\ cut' \in {cut, cut \cup {j}} /\ IsNext(j)
        /\ \A y \in Jobs : y # j => kind'[y] = kind[y]
    BY <1>1 DEF Submit, SubmitFails, Base, PhoneTypes
  <2>2. queue \in Seq(Jobs) /\ \A x \in Jobs : Contains(queue, x) => x < j /\ x # j
    BY <2>1, OnTheWay DEF Base, FileTypes, Jobs
  <2>3. \A y \in Jobs : InQueue(y)' => InQueue(y) \/ y = j
    <3>1. /\ \A k \in 1..Len(queue') : queue'[k] = j \/ (k \in 1..Len(queue) /\ queue'[k] = queue[k])
          /\ curSend \in Nat
      BY <2>1, <2>2 DEF Base, FileTypes
    <3>2. QED
      BY <2>1, <3>1 DEF InQueue
  <2>4. \A y \in Jobs : Contains(queue, y) => Plain(y)' = Plain(y)
    BY <2>1, <2>2 DEF Plain
  <2>5. From' = From
    BY <2>1 DEF From
  <2>6. \A y \in Jobs : InQueue(y)' =>
           InQueue(y) \/ \A x \in Jobs : Contains(queue, x) => x < y
    BY <2>2, <2>3
  <2>7. QED
    BY <2>1, <2>4, <2>5, <2>6, CalmStep
<1>2. CASE UNCHANGED <<kind, cut, queue, sendIn, batch, lineLog, doneDisk, cur, bridgeUp, offset>>
           /\ curSend' >= curSend /\ curSend' \in Nat
  <2>1. ASSUME NEW y \in Jobs PROVE InQueue(y)' => InQueue(y)
    <3>1. InQueue(y)' => y \notin cut /\ \E k \in (curSend' + 1)..Len(queue) : queue[k] = y
      BY <1>2 DEF InQueue
    <3>2. curSend \in Nat /\ curSend' \in Nat /\ Len(queue) \in Nat
      BY <1>2 DEF Base, FileTypes
    <3>3. (curSend' + 1)..Len(queue) \subseteq (curSend + 1)..Len(queue)
      BY <1>2, <3>2
    <3>4. QED
      BY <3>1, <3>3 DEF InQueue
  <2>2. From' = From /\ \A y \in Jobs : Plain(y)' = Plain(y)
    BY <1>2 DEF From, Plain
  <2>3. QED
    BY <1>2, <2>1, <2>2, CalmStep
<1>3. ASSUME NEW j \in Jobs, AnswerC5(j) \/ GiveUpC5(j) \/ Upload(j) \/ UploadOverdue(j)
      PROVE  OrderInv'
  BY <1>2, <1>3 DEF AnswerC5, GiveUpC5, Upload, UploadOverdue, Base, FileTypes
<1>4. CASE PumpCursor \/ WorkerCrash
  <2>1. curSend' = curSend \/ (curSend' = pumped /\ pumped > 0)
    BY <1>4 DEF PumpCursor, WorkerCrash, Base, FlagTypes
  <2>2. QED
    BY <1>2, <1>4, <2>1 DEF PumpCursor, WorkerCrash, Base, FileTypes
<1>5. CASE RecordResult \/ MarkDone \/ BridgeStart
  <2>1. /\ UNCHANGED <<kind, cut, queue, curSend, sendIn, batch, lineLog>>
        /\ doneDisk \subseteq doneDisk' /\ (cur' = cur \/ cur \in doneDisk')
    BY <1>5 DEF RecordResult, MarkDone, BridgeStart
  <2>2. From' = From
    BY <1>5 DEF RecordResult, MarkDone, BridgeStart, StartOffset, From
  <2>3. \A y \in Jobs : (InQueue(y)' => InQueue(y)) /\ Plain(y)' = Plain(y)
    BY <2>1 DEF InQueue, Plain
  <2>4. QED
    BY <2>1, <2>2, <2>3, CalmStep
<1>6. CASE UNCHANGED vars
  BY <1>2, <1>6 DEF vars, Base, FileTypes
<1>7. QED
  BY <1>1, <1>3, <1>4, <1>5, <1>6, CopyOrder, ReadOrder, DropOrder, DispatchOrder,
     RetryOrder, LoseOrder
     DEF Next, Worker, Bridge

(* A sequence without repetition that gets a new element.                    *)
LEMMA AppendOnce ==
    ASSUME NEW a \in Seq(Jobs), NEW u \in Jobs, Injective(a), ~Contains(a, u)
    PROVE  Injective(Append(a, u))
<1>1. /\ Len(Append(a, u)) = Len(a) + 1 /\ Len(a) \in Nat
      /\ \A i \in 1..Len(a) : Append(a, u)[i] = a[i]
      /\ Append(a, u)[Len(a) + 1] = u
  BY AppendParts
<1>2. \A i \in 1..Len(a) : a[i] # u
  BY DEF Contains
<1> HIDE DEF Jobs
<1>3. QED
  BY <1>1, <1>2 DEF Injective

(* The phone's C5 succeeds only with a result of success in send_out.jsonl,  *)
(* and such a result is written only for a job LINE accepted.                *)
LEMMA AckStep ==
    ASSUME Base, AckInv, [Next]_vars
    PROVE  AckInv'
<1> USE DEF phoneVars, workerVars, bridgeVars, resultVars, bodyVars, faultVars
<1>1. phone \in [Jobs -> {"new", "waiting", "acked", "failed"}] /\ kind \in [Jobs -> Kinds \cup {"none"}]
  BY DEF Base, PhoneTypes
<1>2. ASSUME NEW j \in Jobs, Submit(j) \/ SubmitFails(j) PROVE AckInv'
  <2>1. /\ UNCHANGED <<sendOut, lineLog, cur, curOk>>
        /\ \A x \in Jobs : x # j => kind'[x] = kind[x] /\ phone'[x] = phone[x]
        /\ kind'[j] = "waiting" <=> phone'[j] # "acked"
    BY <1>1, <1>2 DEF Submit, SubmitFails, Kinds
  <2>2. QED
    BY <2>1 DEF AckInv
<1>3. ASSUME NEW j \in Jobs, AnswerC5(j) \/ GiveUpC5(j) PROVE AckInv'
  <2>1. /\ UNCHANGED <<sendOut, lineLog, cur, curOk, kind>>
        /\ \A x \in Jobs : x # j => phone'[x] = phone[x]
        /\ phone[j] = "waiting" /\ phone'[j] # "waiting"
        /\ phone'[j] = "acked" => Result(j, TRUE) \in sendOut
    BY <1>1, <1>3 DEF AnswerC5, GiveUpC5, Delivered
  <2>2. QED
    BY <2>1 DEF AckInv
<1>4. ASSUME NEW j \in Jobs, Attempt(j), UNCHANGED <<kind, phone, sendOut>> PROVE AckInv'
  <2>1. /\ cur' = j /\ lineLog \in Seq(Jobs)
        /\ lineLog' = lineLog \/ lineLog' = Append(lineLog, j)
        /\ curOk' => lineLog' = Append(lineLog, j)
    BY <1>4, AttemptTypes DEF Base, BridgeTypes
  <2>2. \A x \in Jobs : Contains(Append(lineLog, j), x) <=> Contains(lineLog, x) \/ x = j
    BY <2>1, AppendHas
  <2>3. \A x \in Jobs : Contains(lineLog, x) => Contains(lineLog', x)
    BY <2>1, <2>2, Zenon
  <2>4. curOk' => Contains(lineLog', j)
    BY <2>1, <2>2, Zenon
  <2>5. QED
    BY <1>4, <2>1, <2>3, <2>4 DEF AckInv
<1>5. CASE DispatchLine
  BY <1>4, <1>5, FirstLine DEF DispatchLine
<1>6. ASSUME NEW j \in Jobs, RetryDeferred(j) PROVE AckInv'
  BY <1>4, <1>6 DEF RetryDeferred
<1>7. CASE RecordResult
  <2>1. /\ UNCHANGED <<kind, phone, cur, curOk, lineLog>> /\ cur \in Jobs
        /\ sendOut' = sendOut \cup {Result(cur, curOk)}
    BY <1>7 DEF RecordResult, Base, BridgeTypes
  <2>2. \A x \in Jobs : Result(x, TRUE) = Result(cur, curOk) => x = cur /\ curOk
    BY DEF Result, Base, FlagTypes
  <2>3. \A x \in Jobs : Result(x, TRUE) \in sendOut' => Contains(lineLog, x)
    BY <1>7, <2>1, <2>2 DEF RecordResult, AckInv
  <2>4. QED
    BY <2>1, <2>3 DEF AckInv
<1>8. CASE UNCHANGED <<kind, phone, sendOut, lineLog>> /\ (UNCHANGED <<cur, curOk>> \/ cur' = None)
  <2>1. CASE UNCHANGED <<cur, curOk>>
    BY <1>8, <2>1 DEF AckInv
  <2>2. CASE cur' = None
    BY <1>8, <2>2 DEF AckInv
  <2>3. QED
    BY <1>8, <2>1, <2>2
<1>9. ASSUME NEW j \in Jobs, Upload(j) \/ UploadOverdue(j) PROVE AckInv'
  BY <1>8, <1>9 DEF Upload, UploadOverdue
<1>10. CASE PumpAppend \/ PumpCursor \/ WorkerCrash \/ ReadLines \/ DropDone \/ DeferLine
  BY <1>8, <1>10 DEF PumpAppend, PumpCursor, WorkerCrash, ReadLines, DropDone, DeferLine
<1>11. CASE RecordFails \/ MarkDone \/ BridgeCrash \/ BridgeStart
  BY <1>8, <1>11 DEF RecordFails, MarkDone, BridgeCrash, BridgeStart
<1>12. CASE UNCHANGED vars
  BY <1>8, <1>12 DEF vars
<1>13. QED
  BY <1>2, <1>3, <1>5, <1>6, <1>7, <1>9, <1>10, <1>11, <1>12 DEF Next, Worker, Bridge

(* While the bridge neither crashes nor fails a write, what LINE accepted is *)
(* in its memory or is the job whose answer it holds.                        *)
LEMMA NoFaultStep ==
    ASSUME Base, NoFault, [Next]_vars
    PROVE  NoFault'
<1> USE DEF phoneVars, workerVars, bridgeVars, resultVars, bodyVars, faultVars
<1>1. bridgeCrashes \in Nat /\ writeErrors \in Nat /\ lineLog \in Seq(Jobs)
  BY DEF Base, FlagTypes, BridgeTypes
<1>2. CASE UNCHANGED <<bridgeCrashes, writeErrors, bridgeUp, lineLog, deferred, doneMem, cur>>
  BY <1>2 DEF NoFault
<1>3. CASE bridgeCrashes' + writeErrors' # 0
  BY <1>3 DEF NoFault
<1>4. ASSUME NEW j \in Jobs, Attempt(j), j \notin doneMem, cur = None,
             UNCHANGED <<bridgeCrashes, writeErrors, bridgeUp, deferred, doneMem>>
      PROVE  NoFault'
  <2> SUFFICES ASSUME bridgeCrashes + writeErrors = 0
               PROVE  /\ bridgeUp /\ Injective(lineLog')
                      /\ deferred \cap doneMem = {}
                      /\ \A x \in Jobs : Contains(lineLog', x) => x \in doneMem \/ x = cur'
    BY <1>4 DEF NoFault
  <2>1. cur' = j /\ (lineLog' = lineLog \/ lineLog' = Append(lineLog, j))
    BY <1>4, AttemptTypes
  <2>2. \A x \in Jobs : Contains(lineLog, x) => x \in doneMem
    BY <1>4, SendAssumption DEF NoFault
  <2>3. ~Contains(lineLog, j)
    BY <1>4, <2>2
  <2>4. Injective(lineLog')
    <3>1. Injective(lineLog)
      BY DEF NoFault
    <3>2. Injective(Append(lineLog, j))
      BY <1>1, <2>3, <3>1, AppendOnce
    <3>3. QED
      BY <2>1, <3>1, <3>2
  <2>5. \A x \in Jobs : Contains(lineLog', x) => x \in doneMem \/ x = j
    BY <1>1, <2>1, <2>2, AppendHas
  <2>6. QED
    BY <2>1, <2>4, <2>5 DEF NoFault
<1>5. CASE DispatchLine
  BY <1>4, <1>5, FirstLine DEF DispatchLine, AlreadyAnswered, Idle
<1>6. ASSUME NEW j \in Jobs, RetryDeferred(j) PROVE NoFault'
  <2>1. j \notin doneMem \/ bridgeCrashes + writeErrors # 0
    BY <1>6 DEF RetryDeferred, NoFault
  <2>2. QED
    BY <1>3, <1>4, <1>6, <2>1 DEF RetryDeferred, Idle
<1>7. CASE DeferLine
  <2>1. /\ UNCHANGED <<bridgeCrashes, writeErrors, bridgeUp, lineLog, doneMem, cur>>
        /\ deferred' = deferred \cup {ThisLine} /\ ThisLine \notin doneMem
    BY <1>7 DEF DeferLine, AlreadyAnswered
  <2>2. QED
    BY <2>1 DEF NoFault
<1>8. CASE RecordResult
  <2>1. /\ UNCHANGED <<bridgeCrashes, writeErrors, bridgeUp, lineLog, doneMem, cur>>
        /\ deferred' = deferred \ {cur}
    BY <1>8 DEF RecordResult
  <2>2. QED
    BY <2>1 DEF NoFault
<1>9. CASE MarkDone
  <2>1. /\ UNCHANGED <<bridgeCrashes, writeErrors, bridgeUp, lineLog, deferred>>
        /\ doneMem' = doneMem \cup {cur} /\ cur \notin deferred
    BY <1>9 DEF MarkDone, Base, BridgeState
  <2>2. QED
    BY <2>1 DEF NoFault
<1>10. CASE BridgeStart
  BY <1>3, <1>10 DEF BridgeStart, NoFault
<1>11. CASE RecordFails \/ BridgeCrash \/ \E j \in Jobs : SubmitFails(j)
  BY <1>1, <1>3, <1>11 DEF RecordFails, BridgeCrash, SubmitFails
<1>12. ASSUME NEW j \in Jobs,
              Submit(j) \/ AnswerC5(j) \/ GiveUpC5(j) \/ Upload(j) \/ UploadOverdue(j)
       PROVE  NoFault'
  BY <1>2, <1>12 DEF Submit, AnswerC5, GiveUpC5, Upload, UploadOverdue
<1>13. CASE PumpAppend \/ PumpCursor \/ WorkerCrash \/ ReadLines \/ DropDone
  BY <1>2, <1>13 DEF PumpAppend, PumpCursor, WorkerCrash, ReadLines, DropDone
<1>14. CASE UNCHANGED vars
  BY <1>2, <1>14 DEF vars
<1>15. QED
  BY <1>5, <1>6, <1>7, <1>8, <1>9, <1>10, <1>11, <1>12, <1>13, <1>14 DEF Next, Worker, Bridge

(* Two sequences without repetition and without a common element.            *)
LEMMA ConcatOnce ==
    ASSUME NEW a \in Seq(Jobs), NEW b \in Seq(Jobs), Injective(a), Injective(b),
           \A i \in 1..Len(a), k \in 1..Len(b) : a[i] # b[k]
    PROVE  Injective(a \o b)
<1>1. /\ Len(a \o b) = Len(a) + Len(b) /\ Len(a) \in Nat /\ Len(b) \in Nat
      /\ \A i \in 1..Len(a) : (a \o b)[i] = a[i]
      /\ \A i \in 1..Len(b) : (a \o b)[Len(a) + i] = b[i]
  BY ConcatParts
<1> DEFINE c == a \o b
<1>2. \A i \in 1..Len(c) : \/ i \in 1..Len(a) /\ c[i] = a[i]
                           \/ i - Len(a) \in 1..Len(b) /\ c[i] = b[i - Len(a)]
  <2>1. \A i \in 1..Len(c) : i \in 1..Len(a) \/ i - Len(a) \in 1..Len(b)
    BY <1>1
  <2>2. \A i \in 1..Len(c) : i - Len(a) \in 1..Len(b) => c[i] = b[i - Len(a)]
    BY <1>1
  <2> HIDE DEF c
  <2>3. \A i \in 1..Len(a) : c[i] = a[i]
    BY <1>1 DEF c
  <2>4. QED
    BY <2>1, <2>2, <2>3
<1> HIDE DEF c
<1>3. ASSUME NEW i \in 1..Len(c), NEW k \in 1..Len(c), c[i] = c[k] PROVE i = k
  <2>1. CASE i \in 1..Len(a) /\ c[i] = a[i] /\ k \in 1..Len(a) /\ c[k] = a[k]
    BY <1>3, <2>1 DEF Injective
  <2>2. CASE /\ i - Len(a) \in 1..Len(b) /\ c[i] = b[i - Len(a)]
             /\ k - Len(a) \in 1..Len(b) /\ c[k] = b[k - Len(a)]
    <3>1. i - Len(a) = k - Len(a)
      BY <1>3, <2>2 DEF Injective
    <3>2. QED
      BY <1>1, <2>2, <3>1
  <2>3. QED
    BY <1>2, <1>3, <2>1, <2>2
<1>4. QED
  BY <1>3 DEF Injective, c

(* What follows the first line of the batch does not repeat it.              *)
LEMMA TailOnce ==
    ASSUME Base, batch # <<>>, Injective(batch)
    PROVE  Injective(Tail(batch)) /\ ~Contains(Tail(batch), ThisLine)
<1>1. /\ ThisLine = batch[1] /\ 1 \in 1..Len(batch)
      /\ \A i \in 1..Len(Tail(batch)) : i + 1 \in 1..Len(batch) /\ Tail(batch)[i] = batch[i + 1]
  BY FirstLine
<1>2. Len(Tail(batch)) \in Nat
  BY FirstLine
<1>3. Injective(Tail(batch))
  BY <1>1, <1>2 DEF Injective
<1>4. ~Contains(Tail(batch), ThisLine)
  BY <1>1, <1>2 DEF Injective, Contains
<1>5. QED
  BY <1>3, <1>4

(* The file of the bridge repeats nothing while the worker never stopped     *)
(* between its two writes.                                                   *)
LEMMA FileOnceStep ==
    ASSUME Base, QueueInv, FileOnce, [Next]_vars, workerCrashes' = 0, workerCrashes = 0
    PROVE  FileOnce'
<1> USE DEF phoneVars, workerVars, bridgeVars, resultVars, bodyVars, faultVars
<1>1. /\ queue \in Seq(Jobs) /\ sendIn \in Seq(Jobs)
      /\ curSend \in 0..Len(queue) /\ pumped \in 0..Len(queue)
  BY DEF Base, FileTypes
<1>2. Copied \in 0..Len(queue)
  BY <1>1 DEF Copied
<1>3. ASSUME NEW j \in Jobs, Submit(j) PROVE FileOnce'
  <2>1. /\ queue' = Append(queue, j) /\ sendIn' = sendIn /\ Copied' = Copied
    BY <1>3 DEF Submit, Copied
  <2>2. \A k \in 1..Copied : queue'[k] = queue[k]
    BY <1>1, <1>2, <2>1
  <2>3. \A i \in 1..Len(sendIn) : \E k \in 1..Copied : queue'[k] = sendIn[i]
    BY <2>2 DEF FileOnce
  <2>4. QED
    BY <2>1, <2>3 DEF FileOnce, Injective
<1>4. CASE PumpAppend
  <2>1. PICK p \in Seq(Jobs) : /\ sendIn' = sendIn \o p /\ Increasing(p)
                               /\ \A j \in Jobs : Contains(p, j) <=> InQueue(j)
    BY <1>4, Copy
  <2>2. Copied = curSend /\ Copied' = Len(queue) /\ queue' = queue
    BY <1>1, <1>4 DEF PumpAppend, Copied
  <2>3. \A i \in 1..Len(p) : p[i] \in Jobs /\ \E k \in (curSend + 1)..Len(queue) : queue[k] = p[i]
    <3>1. \A i \in 1..Len(p) : p[i] \in Jobs /\ Contains(p, p[i])
      BY DEF Contains
    <3>2. QED
      BY <2>1, <3>1 DEF InQueue
  <2>4. Injective(p)
    <3>1. \A i, k \in 1..Len(p) : i < k => p[i] < p[k]
      BY <2>1 DEF Increasing
    <3>2. \A i \in 1..Len(p) : p[i] \in Nat
      <4>1. Jobs \subseteq Nat
        BY DEF Jobs
      <4>2. QED
        BY <2>3, <4>1
    <3>3. QED
      BY <3>1, <3>2 DEF Injective
  <2>5. \A i, k \in 1..Len(queue) : queue[i] = queue[k] => i = k
    <3>1. Jobs \subseteq Nat
      BY DEF Jobs
    <3>2. \A i \in 1..Len(queue) : queue[i] \in Nat
      <4>1. \A i \in 1..Len(queue) : queue[i] \in Jobs
        BY <1>1
      <4>2. QED
        BY <3>1, <4>1
    <3>3. QED
      BY <3>2 DEF QueueInv
  <2>6. ASSUME NEW i \in 1..Len(sendIn), NEW k \in 1..Len(p) PROVE sendIn[i] # p[k]
    <3>1. PICK a \in 1..curSend : queue[a] = sendIn[i]
      BY <2>2 DEF FileOnce
    <3>2. PICK b \in (curSend + 1)..Len(queue) : queue[b] = p[k]
      BY <2>3
    <3>3. a \in 1..Len(queue) /\ b \in 1..Len(queue) /\ a # b
      BY <1>1
    <3>4. QED
      BY <2>5, <3>1, <3>2, <3>3
  <2>7. Injective(sendIn \o p)
    BY <1>1, <2>4, <2>6, ConcatOnce DEF FileOnce
  <2>8. ASSUME NEW i \in 1..Len(sendIn \o p)
        PROVE  \E k \in 1..Len(queue) : queue[k] = (sendIn \o p)[i]
    <3>1. /\ Len(sendIn \o p) = Len(sendIn) + Len(p) /\ Len(sendIn) \in Nat /\ Len(p) \in Nat
          /\ \A h \in 1..Len(sendIn) : (sendIn \o p)[h] = sendIn[h]
          /\ \A h \in 1..Len(p) : (sendIn \o p)[Len(sendIn) + h] = p[h]
      BY <1>1, ConcatParts
    <3>2. CASE i \in 1..Len(sendIn)
      <4>1. PICK k \in 1..curSend : queue[k] = sendIn[i]
        BY <2>2, <3>2 DEF FileOnce
      <4>2. k \in 1..Len(queue)
        BY <1>1
      <4>3. QED
        BY <3>1, <3>2, <4>1, <4>2
    <3>3. CASE i \notin 1..Len(sendIn)
      <4>1. i - Len(sendIn) \in 1..Len(p) /\ Len(sendIn) + (i - Len(sendIn)) = i
        BY <3>1, <3>3
      <4>2. PICK k \in (curSend + 1)..Len(queue) : queue[k] = p[i - Len(sendIn)]
        BY <2>3, <4>1
      <4>3. k \in 1..Len(queue)
        BY <1>1
      <4>4. QED
        BY <3>1, <4>1, <4>2, <4>3
    <3>4. QED
      BY <3>2, <3>3
  <2>9. QED
    BY <2>1, <2>2, <2>7, <2>8 DEF FileOnce, Injective
<1>5. CASE PumpCursor
  <2>1. UNCHANGED <<queue, sendIn, Copied>>
    BY <1>1, <1>5 DEF PumpCursor, Copied
  <2>2. QED
    BY <2>1 DEF FileOnce, Injective
<1>6. ~WorkerCrash
  BY DEF WorkerCrash
<1>7. CASE UNCHANGED <<queue, sendIn, curSend, pumped>>
  <2>1. Copied' = Copied
    BY <1>7 DEF Copied
  <2>2. QED
    BY <1>7, <2>1 DEF FileOnce, Injective
<1>8. ASSUME NEW j \in Jobs
      PROVE  SubmitFails(j) \/ AnswerC5(j) \/ GiveUpC5(j) \/ Upload(j) \/ UploadOverdue(j)
               \/ RetryDeferred(j) => UNCHANGED <<queue, sendIn, curSend, pumped>>
  BY DEF SubmitFails, AnswerC5, GiveUpC5, Upload, UploadOverdue, RetryDeferred
<1>9. ReadLines \/ DropDone \/ DispatchLine \/ DeferLine \/ RecordResult \/ MarkDone \/ RecordFails
         \/ BridgeCrash \/ BridgeStart => UNCHANGED <<queue, sendIn, curSend, pumped>>
  BY DEF ReadLines, DropDone, DispatchLine, DeferLine, RecordResult, MarkDone, RecordFails,
         BridgeCrash, BridgeStart
<1>10. QED
  BY <1>3, <1>4, <1>5, <1>6, <1>7, <1>8, <1>9 DEF Next, Worker, Bridge, vars

(* What the bridge read, holds, deferred and sent are apart from each other, *)
(* and all of it was read from the file.                                     *)
LEMMA BridgeOnceStep ==
    ASSUME Base, QueueInv, FileOnce, BridgeOnce, [Next]_vars
    PROVE  BridgeOnce'
<1> USE DEF phoneVars, workerVars, bridgeVars, resultVars, bodyVars, faultVars
<1>1. /\ sendIn \in Seq(Jobs) /\ offset \in 0..Len(sendIn) /\ Len(sendIn) \in Nat
      /\ batch \in Seq(Jobs) /\ lineLog \in Seq(Jobs)
  BY DEF Base, FileTypes, BridgeTypes
<1>2. From \in 0..Len(sendIn)
  BY <1>1 DEF From
<1> DEFINE Taken(j) == \E k \in 1..From : sendIn[k] = j
<1>3. ASSUME UNCHANGED <<batch, lineLog>>, cur' = cur \/ (cur' = None /\ cur \notin deferred'),
             \A j \in deferred' : j \in deferred,
             \A j \in Jobs : Taken(j) => Taken(j)'
      PROVE  BridgeOnce'
  <2> SUFFICES ASSUME NEW j \in Jobs
               PROVE  /\ Contains(batch, j) \/ j \in deferred' \/ j = cur' \/ Contains(lineLog, j)
                            => Taken(j)'
                      /\ Contains(batch, j) => j \notin deferred' /\ j # cur' /\ ~Contains(lineLog, j)
                      /\ j \in deferred' /\ Contains(lineLog, j) => j = cur'
    BY <1>3 DEF BridgeOnce, Injective, Contains
  <2> HIDE DEF Taken
  <2>1. /\ Contains(batch, j) \/ j \in deferred \/ j = cur \/ Contains(lineLog, j) => Taken(j)
        /\ Contains(batch, j) => j \notin deferred /\ j # cur /\ ~Contains(lineLog, j)
        /\ j \in deferred /\ Contains(lineLog, j) => j = cur
    BY DEF BridgeOnce, Taken
  <2>2. j # None
    BY SendAssumption
  <2>3. QED
    BY <1>3, <2>1, <2>2
<1>4. ASSUME NEW j \in Jobs,
             Submit(j) \/ SubmitFails(j) \/ AnswerC5(j) \/ GiveUpC5(j) \/ Upload(j)
                \/ UploadOverdue(j)
      PROVE  BridgeOnce'
  <2>1. UNCHANGED <<batch, lineLog, cur, deferred, sendIn, From>>
    BY <1>4 DEF Submit, SubmitFails, AnswerC5, GiveUpC5, Upload, UploadOverdue, From
  <2>2. QED
    BY <1>3, <2>1
<1>5. CASE PumpCursor \/ WorkerCrash \/ RecordResult \/ BridgeStart \/ UNCHANGED vars
  <2>1. UNCHANGED <<batch, lineLog, cur, sendIn, From>> /\ deferred' \subseteq deferred
    BY <1>5 DEF PumpCursor, WorkerCrash, RecordResult, BridgeStart, StartOffset, From, vars
  <2>2. QED
    BY <1>3, <2>1
<1>6. CASE MarkDone
  <2>1. UNCHANGED <<batch, lineLog, sendIn, From, deferred>> /\ cur' = None /\ cur \notin deferred
    BY <1>6 DEF MarkDone, From, Base, BridgeState
  <2>2. QED
    BY <1>3, <2>1
<1>7. CASE PumpAppend
  <2>1. PICK p \in Seq(Jobs) : sendIn' = sendIn \o p
    BY <1>7, Copy
  <2>2. UNCHANGED <<batch, lineLog, cur, deferred, bridgeUp, offset>>
    BY <1>7 DEF PumpAppend
  <2>3. \A k \in 1..From : sendIn'[k] = sendIn[k]
    BY <1>1, <1>2, <2>1, ConcatParts
  <2>4. From' >= From /\ From' \in Nat
    <3>1. Len(sendIn') >= Len(sendIn) /\ Len(sendIn') \in Nat
      BY <1>1, <2>1
    <3>2. QED
      BY <1>1, <2>2, <3>1 DEF From
  <2>5. 1..From \subseteq 1..(From')
    BY <1>2, <2>4
  <2>6. \A j \in Jobs : Taken(j) => \E k \in 1..(From') : sendIn'[k] = j
    BY <2>3, <2>5
  <2>7. QED
    BY <1>3, <2>2, <2>6
<1>8. CASE RecordFails \/ BridgeCrash
  <2>1. /\ UNCHANGED <<lineLog, sendIn>> /\ deferred' \subseteq deferred
        /\ batch' = <<>> /\ cur' = None /\ cur \notin deferred'
    BY <1>8 DEF RecordFails, BridgeCrash
  <2>2. From' \in {From, Len(sendIn)}
    BY <1>8 DEF RecordFails, BridgeCrash, From
  <2>3. \A j \in Jobs : Taken(j) => \E k \in 1..(From') : sendIn'[k] = j
    BY <1>1, <1>2, <2>1, <2>2
  <2>4. \A j \in Jobs : ~Contains(batch', j)
    BY <2>1 DEF Contains
  <2>5. Injective(batch')
    BY <2>1 DEF Injective
  <2> SUFFICES ASSUME NEW j \in Jobs
               PROVE  /\ j \in deferred' \/ Contains(lineLog, j) => Taken(j)
                      /\ j \in deferred' /\ Contains(lineLog, j) => FALSE
    BY <2>1, <2>3, <2>4, <2>5, SendAssumption DEF BridgeOnce, Injective, Contains
  <2>6. QED
    BY <2>1 DEF BridgeOnce
<1>9. CASE ReadLines
  <2>1. /\ UNCHANGED <<lineLog, cur, deferred, sendIn>> /\ batch = <<>> /\ cur = None
        /\ batch' = SubSeq(sendIn, offset + 1, Len(sendIn))
        /\ From = offset /\ From' = Len(sendIn)
    BY <1>9 DEF ReadLines, Idle, From
  <2>2. \A i \in 1..Len(batch') : /\ batch'[i] = sendIn[offset + i]
                                  /\ offset + i \in (offset + 1)..Len(sendIn)
    BY <1>1, <2>1
  <2>3. Injective(batch')
    <3>1. \A i, k \in 1..Len(batch') : offset + i = offset + k => i = k
      BY <1>1
    <3>2. \A i \in 1..Len(batch') : offset + i \in 1..Len(sendIn)
      BY <1>1, <2>2
    <3>3. QED
      BY <2>2, <3>1, <3>2 DEF FileOnce, Injective
  <2>4. \A j \in Jobs : Contains(batch', j) => \E k \in (From + 1)..Len(sendIn) : sendIn[k] = j
    BY <2>1, <2>2 DEF Contains
  <2>5. \A j \in Jobs : Contains(batch', j) => ~Taken(j)
    <3>1. \A i \in 1..From, k \in (From + 1)..Len(sendIn) : sendIn[i] # sendIn[k]
      <4>1. \A i \in 1..From, k \in (From + 1)..Len(sendIn) :
               i \in 1..Len(sendIn) /\ k \in 1..Len(sendIn) /\ i # k
        BY <1>1, <1>2
      <4>2. QED
        BY <4>1 DEF FileOnce, Injective
    <3>2. QED
      BY <2>4, <3>1
  <2> SUFFICES ASSUME NEW j \in Jobs
               PROVE  /\ Contains(batch', j) \/ j \in deferred \/ j = cur \/ Contains(lineLog, j)
                            => \E k \in 1..Len(sendIn) : sendIn[k] = j
                      /\ Contains(batch', j) => j \notin deferred /\ j # cur /\ ~Contains(lineLog, j)
                      /\ j \in deferred /\ Contains(lineLog, j) => j = cur
    <3>1. UNCHANGED <<lineLog, cur, deferred, sendIn>> /\ From' = Len(sendIn) /\ Injective(lineLog)
      BY <2>1 DEF BridgeOnce
    <3>2. QED
      BY <2>3, <3>1 DEF BridgeOnce, Injective, Contains
  <2>6. Taken(j) => \E k \in 1..Len(sendIn) : sendIn[k] = j
    BY <1>1, <1>2
  <2>7. Contains(batch', j) => \E k \in 1..Len(sendIn) : sendIn[k] = j
    BY <1>1, <1>2, <2>4
  <2> HIDE DEF Taken
  <2>8. j \in deferred \/ j = cur \/ Contains(lineLog, j) => Taken(j)
    BY DEF BridgeOnce, Taken
  <2>9. j \in deferred /\ Contains(lineLog, j) => j = cur
    BY DEF BridgeOnce
  <2>10. QED
    BY <2>5, <2>6, <2>7, <2>8, <2>9
<1>10. ASSUME batch # <<>>, batch' = Tail(batch), cur = None,
              UNCHANGED <<sendIn, offset, bridgeUp>>,
              \/ UNCHANGED <<deferred, lineLog, cur>>
              \/ deferred' = deferred \cup {ThisLine} /\ UNCHANGED <<lineLog, cur>>
              \/ /\ UNCHANGED deferred /\ cur' = ThisLine
                 /\ lineLog' = lineLog \/ lineLog' = Append(lineLog, ThisLine)
       PROVE  BridgeOnce'
  <2>1. ThisLine \in Jobs /\ Contains(batch, ThisLine)
    BY <1>10, FirstLine, TailHas
  <2>2. Injective(batch') /\ ~Contains(batch', ThisLine)
    BY <1>10, TailOnce DEF BridgeOnce
  <2>3. \A j \in Jobs : Contains(batch', j) => Contains(batch, j)
    BY <1>10, TailHas
  <2>4. ~Contains(lineLog, ThisLine) /\ ThisLine \notin deferred
    BY <2>1 DEF BridgeOnce
  <2>5. Injective(lineLog')
    BY <1>1, <1>10, <2>1, <2>4, AppendOnce DEF BridgeOnce
  <2>6. \A j \in Jobs : Contains(lineLog', j) => Contains(lineLog, j) \/ (j = ThisLine /\ cur' = ThisLine)
    BY <1>1, <1>10, <2>1, AppendHas
  <2>7. \A j \in Jobs : j \in deferred' => j \in deferred \/ (j = ThisLine /\ lineLog' = lineLog)
    BY <1>10
  <2>8. cur' = cur \/ cur' = ThisLine
    BY <1>10
  <2>9. \A j \in Jobs : j # cur
    BY <1>10, SendAssumption
  <2>10. From' = From
    BY <1>10 DEF From
  <2> SUFFICES ASSUME NEW j \in Jobs
               PROVE  /\ Contains(batch', j) \/ j \in deferred' \/ j = cur' \/ Contains(lineLog', j)
                            => Taken(j)
                      /\ Contains(batch', j) => j \notin deferred' /\ j # cur' /\ ~Contains(lineLog', j)
                      /\ j \in deferred' /\ Contains(lineLog', j) => j = cur'
    BY <1>10, <2>2, <2>5, <2>10 DEF BridgeOnce, Injective, Contains
  <2> HIDE DEF Taken
  <2>11. /\ Contains(batch, j) \/ j \in deferred \/ Contains(lineLog, j) => Taken(j)
         /\ Contains(batch, j) => j \notin deferred /\ ~Contains(lineLog, j)
         /\ j \in deferred /\ Contains(lineLog, j) => j = cur
    BY DEF BridgeOnce, Taken
  <2>12. QED
    BY <2>1, <2>2, <2>3, <2>4, <2>6, <2>7, <2>8, <2>9, <2>11
<1>11. CASE DropDone \/ DeferLine
  BY <1>10, <1>11, FirstLine DEF DropDone, DeferLine, Idle
<1>12. CASE DispatchLine
  <2>1. batch # <<>> /\ ThisLine \in Jobs /\ Attempt(ThisLine) /\ batch' = Tail(batch)
    BY <1>12, FirstLine DEF DispatchLine
  <2>2. cur' = ThisLine /\ (lineLog' = lineLog \/ lineLog' = Append(lineLog, ThisLine))
    BY <2>1, AttemptTypes
  <2>3. QED
    BY <1>10, <1>12, <2>1, <2>2 DEF DispatchLine, Idle
<1>13. ASSUME NEW j \in Jobs, RetryDeferred(j) PROVE BridgeOnce'
  <2>1. /\ UNCHANGED <<sendIn, offset, bridgeUp, batch, deferred>> /\ batch = <<>>
        /\ j \in deferred /\ cur = None /\ Attempt(j)
    BY <1>13 DEF RetryDeferred, Idle
  <2>2. cur' = j /\ (lineLog' = lineLog \/ lineLog' = Append(lineLog, j))
    BY <2>1, AttemptTypes
  <2>3. \A x \in Jobs : x \in deferred => ~Contains(lineLog, x)
    BY <2>1, SendAssumption DEF BridgeOnce
  <2>4. Injective(lineLog')
    BY <1>1, <2>1, <2>2, <2>3, AppendOnce DEF BridgeOnce
  <2>5. \A x \in Jobs : Contains(lineLog', x) => Contains(lineLog, x) \/ x = j
    BY <1>1, <2>2, AppendHas
  <2>6. \A x \in Jobs : ~Contains(batch, x)
    BY <2>1 DEF Contains
  <2>7. From' = From
    BY <2>1 DEF From
  <2> SUFFICES ASSUME NEW x \in Jobs
               PROVE  /\ x \in deferred \/ x = j \/ Contains(lineLog', x) => Taken(x)
                      /\ x \in deferred /\ Contains(lineLog', x) => x = j
    BY <2>1, <2>2, <2>4, <2>6, <2>7 DEF BridgeOnce, Injective, Contains
  <2> HIDE DEF Taken
  <2>8. x \in deferred \/ Contains(lineLog, x) => Taken(x)
    BY DEF BridgeOnce, Taken
  <2>9. QED
    BY <2>1, <2>3, <2>5, <2>8
<1>14. QED
  BY <1>4, <1>5, <1>6, <1>7, <1>8, <1>9, <1>11, <1>12, <1>13 DEF Next, Worker, Bridge

-----------------------------------------------------------------------------
\* A line of the queue that parses.
Known(y) == Contains(queue, y) /\ y \notin cut

\* The lines of the queue that were copied are in the file, each job in front of
\* those sent after it, also when all of them are copied again.
CopyKept == \A k \in 1..Copied : queue[k] \in cut \/ Contains(sendIn, queue[k])
FileFirst ==
    \A i \in 1..Len(sendIn), y \in Jobs :
        Known(y) /\ y < sendIn[i] => \E h \in 1..(i - 1) : sendIn[h] = y
\* What the bridge read was answered, is being answered or waits in the batch.
ReadKept ==
    \A k \in 1..offset :
        Plain(sendIn[k]) => \/ sendIn[k] \in doneMem \/ sendIn[k] = cur
                            \/ Contains(batch, sendIn[k])
BatchFirst ==
    \A i \in 1..Len(batch), y \in Jobs :
        Plain(y) /\ Known(y) /\ y < batch[i]
            => y \in doneMem \/ y = cur \/ \E h \in 1..(i - 1) : batch[h] = y
\* A job before one LINE accepted was answered.
LogFirst ==
    \A i \in 1..Len(lineLog), y \in Jobs :
        Plain(y) /\ Known(y) /\ Plain(lineLog[i]) /\ y < lineLog[i] => y \in doneMem

\* No line that splitlines() cuts gets into the file.
NoCut == \A y \in Jobs : y \in cut => ~Contains(sendIn, y) /\ ~Contains(batch, y)

Orderly == NoCut /\ CopyKept /\ FileFirst /\ ReadKept /\ BatchFirst /\ LogFirst /\ LineOrder

(* A step that moves no line keeps the jobs in order.                        *)
LEMMA OrderlyCalm ==
    ASSUME Base, QueueInv, Orderly,
           UNCHANGED <<sendIn, batch, lineLog, offset>>,
           \A k \in 1..Copied' : k \in 1..Copied /\ queue'[k] = queue[k],
           \A y \in Jobs : Known(y)' =>
              Known(y) \/ \A x \in Jobs : Contains(queue, x) => x < y,
           \A y \in Jobs : y \in cut => y \in cut',
           \A y \in Jobs : y \in cut' => y \in cut \/ ~Contains(queue, y),
           \A y \in Jobs : Contains(queue, y) => Plain(y)' = Plain(y),
           doneMem \subseteq doneMem',
           \A y \in Jobs : y = cur => y = cur' \/ y \in doneMem'
    PROVE  Orderly'
<1>1. \A x, y \in Jobs : Contains(queue, x) /\ y < x /\ Known(y)' => Known(y)
  BY DEF Jobs
<1>2. \A y \in Jobs : Known(y) => Plain(y)' = Plain(y)
  BY DEF Known
<1>3. /\ \A i \in 1..Len(sendIn) : sendIn[i] \in Jobs /\ Contains(queue, sendIn[i])
      /\ \A i \in 1..Len(batch) : batch[i] \in Jobs /\ Contains(queue, batch[i])
      /\ \A i \in 1..Len(lineLog) : lineLog[i] \in Jobs /\ Contains(queue, lineLog[i])
  BY OnTheWay
<1>4. \A y \in Jobs : Contains(sendIn, y)' = Contains(sendIn, y)
                      /\ Contains(batch, y)' = Contains(batch, y)
  BY DEF Contains
<1>5. CopyKept'
  <2> SUFFICES ASSUME NEW k \in 1..Copied', queue'[k] \notin cut'
               PROVE  Contains(sendIn', queue'[k])
    BY Zenon DEF CopyKept, Contains
  <2>1. k \in 1..Copied /\ queue'[k] = queue[k] /\ queue[k] \notin cut
    <3>1. k \in 1..Copied /\ queue'[k] = queue[k] /\ queue[k] \notin cut'
      OBVIOUS
    <3>2. queue[k] \in Jobs
      BY <3>1 DEF Copied, Base, FileTypes
    <3>3. QED
      BY <3>1, <3>2
  <2>2. Contains(sendIn, queue[k])
    BY <2>1 DEF Orderly, CopyKept
  <2>3. sendIn' = sendIn
    OBVIOUS
  <2>4. QED
    BY <2>1, <2>2, <2>3 DEF Contains
<1>6. FileFirst'
  <2> SUFFICES ASSUME NEW i \in 1..Len(sendIn), NEW y \in Jobs, Known(y)', y < sendIn[i]
               PROVE  \E h \in 1..(i - 1) : sendIn[h] = y
    BY DEF FileFirst
  <2>1. Known(y)
    BY <1>1, <1>3
  <2>2. QED
    BY <2>1 DEF Orderly, FileFirst
<1>7. ReadKept'
  <2> SUFFICES ASSUME NEW k \in 1..offset, Plain(sendIn[k])'
               PROVE  \/ sendIn[k] \in doneMem' \/ sendIn[k] = cur'
                      \/ Contains(batch, sendIn[k])'
    BY DEF ReadKept, Plain
  <2>1. k \in 1..Len(sendIn)
    BY DEF Base, FileTypes
  <2>2. sendIn[k] \in Jobs /\ Plain(sendIn[k])
    BY <1>3, <2>1 DEF Plain
  <2>3. QED
    BY <1>4, <2>2 DEF Orderly, ReadKept
<1>8. BatchFirst'
  <2> SUFFICES ASSUME NEW i \in 1..Len(batch), NEW y \in Jobs, Plain(y)', Known(y)', y < batch[i]
               PROVE  y \in doneMem' \/ y = cur' \/ \E h \in 1..(i - 1) : batch[h] = y
    BY DEF BatchFirst
  <2>1. Known(y) /\ Plain(y)
    BY <1>1, <1>2, <1>3
  <2>2. y \in doneMem \/ y = cur \/ \E h \in 1..(i - 1) : batch[h] = y
    BY <2>1 DEF Orderly, BatchFirst
  <2>3. QED
    BY <2>2
<1>9. LogFirst'
  <2> SUFFICES ASSUME NEW i \in 1..Len(lineLog), NEW y \in Jobs,
                      Plain(y)', Known(y)', Plain(lineLog[i])', y < lineLog[i]
               PROVE  y \in doneMem'
    BY DEF LogFirst, Plain
  <2>1. Known(y) /\ Plain(y) /\ Plain(lineLog[i])
    BY <1>1, <1>2, <1>3 DEF Plain
  <2>2. QED
    BY <2>1 DEF Orderly, LogFirst
<1>10. LineOrder'
  <2>1. \A i \in 1..Len(lineLog) : Plain(lineLog[i])' = Plain(lineLog[i])
    BY <1>3 DEF Plain
  <2>2. QED
    BY <2>1 DEF Orderly, LineOrder, Plain
<1>11. NoCut'
  BY <1>4 DEF Orderly, NoCut, QueueInv
<1>12. QED
  BY <1>5, <1>6, <1>7, <1>8, <1>9, <1>10, <1>11 DEF Orderly

(* The worker copies: what it appends comes behind what was sent before.     *)
LEMMA OrderlyCopy ==
    ASSUME Base, QueueInv, Orderly, PumpAppend
    PROVE  Orderly'
<1> USE DEF phoneVars, workerVars, bridgeVars, resultVars, bodyVars, faultVars
<1>1. /\ UNCHANGED <<kind, cut, queue, curSend, batch, lineLog, doneMem, cur, offset>>
      /\ pumped = 0 /\ pumped' = Len(queue) /\ curSend < Len(queue)
  BY DEF PumpAppend
<1>2. PICK p \in Seq(Jobs) : /\ sendIn' = sendIn \o p /\ Increasing(p)
                             /\ \A j \in Jobs : Contains(p, j) <=> InQueue(j)
  BY Copy
<1>3. sendIn \in Seq(Jobs) /\ queue \in Seq(Jobs) /\ offset \in 0..Len(sendIn)
      /\ curSend \in 0..Len(queue) /\ Len(queue) \in Nat
  BY DEF Base, FileTypes
<1> DEFINE L == Len(sendIn)
<1>4. /\ L \in Nat /\ Len(p) \in Nat /\ Len(sendIn') = L + Len(p)
      /\ \A i \in 1..L : sendIn'[i] = sendIn[i]
      /\ \A i \in 1..Len(p) : sendIn'[L + i] = p[i]
      /\ \A i \in (L + 1)..(L + Len(p)) : i - L \in 1..Len(p) /\ sendIn'[i] = p[i - L]
  BY <1>2, <1>3
<1>5. \A y \in Jobs : Contains(sendIn', y) <=> Contains(sendIn, y) \/ InQueue(y)
  BY <1>2, <1>3, ConcatHas
<1>6. \A y \in Jobs : Known(y) => Contains(sendIn, y) \/ InQueue(y)
  <2> SUFFICES ASSUME NEW y \in Jobs, Known(y), ~InQueue(y)
               PROVE  Contains(sendIn, y)
    OBVIOUS
  <2>1. PICK k \in 1..Len(queue) : queue[k] = y
    BY DEF Known, Contains
  <2>2. k \in 1..curSend
    BY <1>3, <2>1 DEF InQueue, Known
  <2>3. Copied = curSend
    BY <1>1 DEF Copied
  <2>4. QED
    BY <2>1, <2>2, <2>3 DEF Orderly, CopyKept, Known
<1>7. /\ \A y \in Jobs : (Known(y)' <=> Known(y)) /\ (Plain(y)' <=> Plain(y))
      /\ \A y \in Jobs : Contains(batch, y)' <=> Contains(batch, y)
  BY <1>1 DEF Known, Plain, Contains
<1>8. CopyKept'
  <2> SUFFICES ASSUME NEW k \in 1..Len(queue), queue[k] \notin cut
               PROVE  Contains(sendIn', queue[k])
    BY <1>1, <1>3 DEF CopyKept, Copied, Contains
  <2>1. queue[k] \in Jobs /\ Known(queue[k])
    BY <1>3 DEF Known, Contains
  <2>2. QED
    BY <1>5, <1>6, <2>1
<1>9. FileFirst'
  <2> SUFFICES ASSUME NEW i \in 1..(L + Len(p)), NEW y \in Jobs, Known(y), y < sendIn'[i]
               PROVE  \E h \in 1..(i - 1) : sendIn'[h] = y
    BY <1>4, <1>7 DEF FileFirst
  <2>1. CASE i \in 1..L
    <3>1. PICK h \in 1..(i - 1) : sendIn[h] = y
      BY <1>4, <2>1 DEF Orderly, FileFirst
    <3>2. h \in 1..L
      BY <1>4, <2>1, <3>1
    <3>3. QED
      BY <1>4, <3>1, <3>2
  <2>2. CASE i \notin 1..L
    <3>1. i - L \in 1..Len(p) /\ sendIn'[i] = p[i - L]
      BY <1>4, <2>2
    <3>2. CASE Contains(sendIn, y)
      <4>1. PICK h \in 1..L : sendIn[h] = y
        BY <3>2 DEF Contains
      <4>2. h \in 1..(i - 1) /\ sendIn'[h] = y
        BY <1>4, <2>2, <4>1
      <4>3. QED
        BY <4>2
    <3>3. CASE InQueue(y)
      <4>1. PICK k \in 1..Len(p) : p[k] = y
        BY <1>2, <3>3 DEF Contains
      <4>2. k < i - L
        <5>1. y < p[i - L]
          BY <3>1
        <5>2. i - L < k => p[i - L] < p[k]
          BY <1>2, <3>1, <4>1 DEF Increasing
        <5>3. p[i - L] \in Jobs
          BY <3>1
        <5>4. QED
          BY <3>1, <4>1, <5>1, <5>2, <5>3 DEF Jobs
      <4>3. L + k \in 1..(i - 1) /\ sendIn'[L + k] = y
        BY <1>4, <3>1, <4>1, <4>2
      <4>4. QED
        BY <4>3
    <3>4. QED
      BY <1>6, <3>2, <3>3
  <2>3. QED
    BY <2>1, <2>2
<1>10. ReadKept'
  <2> SUFFICES ASSUME NEW k \in 1..offset, Plain(sendIn'[k])
               PROVE  sendIn'[k] \in doneMem \/ sendIn'[k] = cur \/ Contains(batch, sendIn'[k])
    BY <1>1 DEF ReadKept, Plain, Contains
  <2>1. k \in 1..L
    BY <1>3, <1>4
  <2>2. sendIn'[k] = sendIn[k]
    BY <1>4, <2>1
  <2>3. QED
    BY <2>2 DEF Orderly, ReadKept
<1>11. BatchFirst' /\ LogFirst' /\ LineOrder'
  <2>1. BatchFirst'
    BY <1>1, <1>7 DEF Orderly, BatchFirst
  <2>2. LogFirst'
    BY <1>1, <1>7 DEF Orderly, LogFirst, Plain
  <2>3. LineOrder'
    BY <1>1 DEF Orderly, LineOrder
  <2>4. QED
    BY <2>1, <2>2, <2>3
<1>12. NoCut'
  BY <1>1, <1>5, <1>7 DEF Orderly, NoCut, InQueue
<1>13. QED
  BY <1>8, <1>9, <1>10, <1>11, <1>12 DEF Orderly

(* The bridge reads the lines of the file.                                   *)
LEMMA OrderlyRead ==
    ASSUME Base, QueueInv, Orderly, ReadLines
    PROVE  Orderly'
<1>1. /\ UNCHANGED <<kind, cut, queue, curSend, pumped, sendIn, lineLog, doneMem, cur>>
      /\ cur = None
  BY DEF ReadLines, Idle, phoneVars, workerVars, resultVars
<1>2. /\ sendIn \in Seq(Jobs) /\ offset \in 0..Len(sendIn) /\ batch = <<>>
      /\ batch' = SubSeq(sendIn, offset + 1, Len(sendIn)) /\ offset' = Len(sendIn)
  BY DEF ReadLines, Base, FileTypes
<1>3. /\ Len(batch') = Len(sendIn) - offset
      /\ \A i \in 1..Len(batch') : /\ batch'[i] = sendIn[offset + i]
                                   /\ offset + i \in (offset + 1)..Len(sendIn)
      /\ \A k \in (offset + 1)..Len(sendIn) : /\ k - offset \in 1..Len(batch')
                                              /\ batch'[k - offset] = sendIn[k]
  BY <1>2
<1>4. \A y \in Jobs : (Known(y)' <=> Known(y)) /\ (Plain(y)' <=> Plain(y))
  BY <1>1 DEF Known, Plain
<1>5. \A k \in 1..offset : Plain(sendIn[k]) => sendIn[k] \in doneMem
  <2> SUFFICES ASSUME NEW k \in 1..offset, Plain(sendIn[k]) PROVE sendIn[k] \in doneMem
    OBVIOUS
  <2>1. sendIn[k] \in Jobs /\ ~Contains(batch, sendIn[k])
    BY <1>2 DEF Contains
  <2>2. sendIn[k] # cur
    BY <1>1, <2>1, SendAssumption
  <2>3. QED
    BY <2>1, <2>2 DEF Orderly, ReadKept
<1>6. CopyKept' /\ FileFirst' /\ LogFirst' /\ LineOrder'
  <2>1. CopyKept'
    BY <1>1 DEF Orderly, CopyKept, Copied, Contains
  <2>2. FileFirst'
    BY <1>1, <1>4 DEF Orderly, FileFirst
  <2>3. LogFirst'
    BY <1>1, <1>4 DEF Orderly, LogFirst, Plain
  <2>4. LineOrder'
    BY <1>1 DEF Orderly, LineOrder
  <2>5. QED
    BY <2>1, <2>2, <2>3, <2>4
<1>7. ReadKept'
  <2> SUFFICES ASSUME NEW k \in 1..Len(sendIn), Plain(sendIn[k])
               PROVE  sendIn[k] \in doneMem \/ Contains(batch', sendIn[k])
    BY <1>1, <1>2 DEF ReadKept, Plain, Contains
  <2>1. CASE k \in 1..offset
    BY <1>5, <2>1
  <2>2. CASE k \notin 1..offset
    <3>1. k \in (offset + 1)..Len(sendIn)
      BY <1>2, <2>2
    <3>2. QED
      BY <1>3, <3>1 DEF Contains
  <2>3. QED
    BY <2>1, <2>2
<1>8. BatchFirst'
  <2> SUFFICES ASSUME NEW i \in 1..Len(batch'), NEW y \in Jobs,
                      Plain(y), Known(y), y < batch'[i]
               PROVE  y \in doneMem \/ \E h \in 1..(i - 1) : batch'[h] = y
    BY <1>1, <1>4 DEF BatchFirst
  <2> DEFINE e == offset + i
  <2>1. e \in 1..Len(sendIn) /\ y < sendIn[e]
    BY <1>2, <1>3
  <2> HIDE DEF e
  <2>2. PICK h \in 1..(e - 1) : sendIn[h] = y
    BY <2>1 DEF Orderly, FileFirst
  <2>3. CASE h \in 1..offset
    BY <1>5, <2>2, <2>3
  <2>4. CASE h \notin 1..offset
    <3>1. h \in (offset + 1)..Len(sendIn) /\ h - offset \in 1..(i - 1)
      BY <1>2, <2>1, <2>2, <2>4 DEF e
    <3>2. batch'[h - offset] = y
      BY <1>3, <2>2, <3>1
    <3>3. QED
      BY <3>1, <3>2
  <2>5. QED
    BY <2>3, <2>4
<1>9. NoCut'
  <2>1. \A y \in Jobs : Contains(batch', y) => Contains(sendIn, y)
    <3> SUFFICES ASSUME NEW y \in Jobs, NEW i \in 1..Len(batch'), batch'[i] = y
                 PROVE  Contains(sendIn, y)
      BY DEF Contains
    <3>1. offset + i \in 1..Len(sendIn) /\ sendIn[offset + i] = y
      BY <1>2, <1>3
    <3>2. QED
      BY <3>1 DEF Contains
  <2>2. QED
    BY <1>1, <2>1 DEF Orderly, NoCut, Contains
<1>10. QED
  BY <1>6, <1>7, <1>8, <1>9 DEF Orderly

(* The first line leaves the batch: because its job was answered, because it *)
(* waits for a body, or to be the one LINE is called for.                    *)
LEMMA OrderlyHead ==
    ASSUME Base, QueueInv, Orderly, batch # <<>>, batch' = Tail(batch),
           UNCHANGED <<kind, cut, queue, curSend, pumped, sendIn, doneMem, offset>>,
           cur = None,
           \/ ThisLine \in doneMem \/ ~Plain(ThisLine) \/ cur' = ThisLine
    PROVE  NoCut' /\ CopyKept' /\ FileFirst' /\ ReadKept' /\ BatchFirst'
<1>1. \A y \in Jobs : (Known(y)' <=> Known(y)) /\ (Plain(y)' <=> Plain(y)) /\ y # cur
  BY SendAssumption DEF Known, Plain
<1>2. CopyKept'
  BY DEF Orderly, CopyKept, Copied, Contains
<1>3. FileFirst'
  BY <1>1 DEF Orderly, FileFirst
<1>4. /\ \A i \in 1..Len(Tail(batch)) : i + 1 \in 1..Len(batch) /\ Tail(batch)[i] = batch[i + 1]
      /\ ThisLine = batch[1] /\ ThisLine \in Jobs /\ 1 \in 1..Len(batch)
      /\ Len(Tail(batch)) = Len(batch) - 1 /\ Len(batch) \in Nat
  BY FirstLine DEF Base, BridgeTypes
<1>5. \A y \in Jobs : Contains(batch, y) => y = ThisLine \/ Contains(batch', y)
  <2> SUFFICES ASSUME NEW y \in Jobs, NEW i \in 1..Len(batch), batch[i] = y, y # ThisLine
               PROVE  Contains(batch', y)
    BY DEF Contains
  <2>1. i # 1
    BY <1>4
  <2>2. i - 1 \in 1..Len(Tail(batch)) /\ (i - 1) + 1 = i
    BY <1>4, <2>1
  <2>3. Tail(batch)[i - 1] = y
    BY <1>4, <2>2
  <2>4. QED
    BY <2>2, <2>3 DEF Contains
<1>6. ReadKept'
  <2> SUFFICES ASSUME NEW k \in 1..offset, Plain(sendIn[k])
               PROVE  sendIn[k] \in doneMem \/ sendIn[k] = cur' \/ Contains(batch', sendIn[k])
    BY DEF ReadKept, Plain, Contains
  <2>1. sendIn[k] \in Jobs
    BY DEF Base, FileTypes
  <2>2. QED
    BY <1>1, <1>5, <2>1 DEF Orderly, ReadKept
<1>7. BatchFirst'
  <2> SUFFICES ASSUME NEW i \in 1..Len(batch'), NEW y \in Jobs, Plain(y), Known(y), y < batch'[i]
               PROVE  y \in doneMem \/ y = cur' \/ \E h \in 1..(i - 1) : batch'[h] = y
    BY <1>1 DEF BatchFirst
  <2>1. i + 1 \in 1..Len(batch) /\ y < batch[i + 1]
    BY <1>4
  <2>2. y \in doneMem \/ \E h \in 1..((i + 1) - 1) : batch[h] = y
    BY <1>1, <2>1 DEF Orderly, BatchFirst
  <2>3. CASE \E h \in 1..((i + 1) - 1) : batch[h] = y
    <3>1. PICK h \in 1..((i + 1) - 1) : batch[h] = y
      BY <2>3
    <3>2. CASE h = 1
      BY <1>4, <3>1, <3>2
    <3>3. CASE h # 1
      <4>1. h - 1 \in 1..(i - 1) /\ h - 1 \in 1..Len(Tail(batch)) /\ (h - 1) + 1 = h
        BY <1>4, <3>1, <3>3
      <4>2. batch'[h - 1] = y
        BY <1>4, <3>1, <4>1
      <4>3. QED
        BY <4>1, <4>2
    <3>4. QED
      BY <3>2, <3>3
  <2>4. QED
    BY <2>2, <2>3
<1>8. NoCut'
  <2>1. \A y \in Jobs : Contains(batch', y) => Contains(batch, y)
    BY TailHas
  <2>2. QED
    BY <2>1 DEF Orderly, NoCut, Contains
<1>9. QED
  BY <1>2, <1>3, <1>6, <1>7, <1>8

(* LINE is called for the first line of the batch: every job sent before it  *)
(* was answered, and none sent after it was accepted.                        *)
LEMMA OrderlyDispatch ==
    ASSUME Base, QueueInv, Orderly, DispatchLine
    PROVE  Orderly'
<1> USE DEF phoneVars, workerVars, resultVars
<1>1. /\ UNCHANGED <<kind, cut, queue, curSend, pumped, sendIn, doneMem, offset>>
      /\ batch # <<>> /\ cur = None /\ Attempt(ThisLine) /\ ThisLine \notin doneMem
  BY DEF DispatchLine, Idle, AlreadyAnswered
<1>2. /\ batch' = Tail(batch) /\ ThisLine \in Jobs /\ ThisLine = batch[1] /\ 1 \in 1..Len(batch)
      /\ Contains(batch, ThisLine)
  BY <1>1, FirstLine, TailHas DEF DispatchLine
<1>3. /\ cur' = ThisLine /\ lineLog' \in {lineLog, Append(lineLog, ThisLine)}
      /\ lineLog \in Seq(Jobs)
  BY <1>1, <1>2, AttemptTypes DEF Base, BridgeTypes
<1>4. NoCut' /\ CopyKept' /\ FileFirst' /\ ReadKept' /\ BatchFirst'
  BY <1>1, <1>2, <1>3, OrderlyHead
<1>5. \A y \in Jobs : Plain(y) /\ Known(y) /\ y < ThisLine => y \in doneMem
  <2> SUFFICES ASSUME NEW y \in Jobs, Plain(y), Known(y), y < ThisLine PROVE y \in doneMem
    OBVIOUS
  <2>1. y \in doneMem \/ y = cur \/ \E h \in 1..(1 - 1) : batch[h] = y
    BY <1>2 DEF Orderly, BatchFirst
  <2>2. QED
    BY <1>1, <2>1, SendAssumption
<1> DEFINE n == Len(lineLog)
<1>6. \A i \in 1..Len(lineLog') :
         \/ i \in 1..n /\ lineLog'[i] = lineLog[i] /\ lineLog[i] \in Jobs
         \/ i = n + 1 /\ lineLog'[i] = ThisLine
  BY <1>2, <1>3
<1>7. n \in Nat
  BY <1>3
<1> HIDE DEF n
<1>8. LogFirst'
  <2> SUFFICES ASSUME NEW i \in 1..Len(lineLog'), NEW y \in Jobs,
                      Plain(y), Known(y), Plain(lineLog'[i]), y < lineLog'[i]
               PROVE  y \in doneMem
    BY <1>1 DEF LogFirst, Plain, Known
  <2>1. CASE lineLog'[i] = ThisLine
    BY <1>5, <2>1
  <2>2. CASE i \in 1..n /\ lineLog'[i] = lineLog[i]
    BY <2>2 DEF Orderly, LogFirst, n
  <2>3. QED
    BY <1>6, <2>1, <2>2
<1>9. Plain(ThisLine) => \A i \in 1..n : Plain(lineLog[i]) => ~(ThisLine < lineLog[i])
  <2> SUFFICES ASSUME Plain(ThisLine), NEW i \in 1..n, Plain(lineLog[i]), ThisLine < lineLog[i]
               PROVE  FALSE
    OBVIOUS
  <2>1. Contains(queue, ThisLine)
    BY <1>2 DEF QueueInv
  <2>2. ThisLine \notin cut
    BY <1>2 DEF Orderly, NoCut
  <2>3. QED
    BY <1>1, <1>2, <2>1, <2>2 DEF Orderly, LogFirst, Known, n
<1>10. LineOrder'
  <2> SUFFICES ASSUME NEW i \in 1..Len(lineLog'), NEW k \in 1..Len(lineLog'), i < k,
                      Plain(lineLog'[i]), Plain(lineLog'[k])
               PROVE  lineLog'[i] <= lineLog'[k]
    BY <1>1 DEF LineOrder, Plain
  <2>1. i \in 1..n /\ lineLog'[i] = lineLog[i] /\ lineLog[i] \in Jobs
    <3>1. i # n + 1
      BY <1>6, <1>7
    <3>2. QED
      BY <1>6, <3>1
  <2>2. CASE lineLog'[k] = ThisLine
    <3>1. ~(ThisLine < lineLog[i])
      BY <1>9, <2>1, <2>2
    <3>2. QED
      BY <1>2, <2>1, <2>2, <3>1 DEF Jobs
  <2>3. CASE k \in 1..n /\ lineLog'[k] = lineLog[k]
    BY <2>1, <2>3 DEF Orderly, LineOrder, Plain, n
  <2>4. QED
    BY <1>6, <2>2, <2>3
<1>11. QED
  BY <1>4, <1>8, <1>10 DEF Orderly

(* Every step of a bridge without faults keeps the jobs in order, whatever   *)
(* the worker copies again.                                                  *)
LEMMA OrderlyStep ==
    ASSUME Base, QueueInv, Orderly, [Next]_vars,
           UNCHANGED <<bridgeCrashes, writeErrors>>, bridgeUp
    PROVE  Orderly'
<1> USE DEF phoneVars, workerVars, bridgeVars, resultVars, bodyVars, faultVars
<1>0. /\ bridgeCrashes \in Nat /\ writeErrors \in Nat /\ queue \in Seq(Jobs)
      /\ curSend \in 0..Len(queue) /\ pumped \in 0..Len(queue) /\ lineLog \in Seq(Jobs)
      /\ Copied \in 0..Len(queue)
  BY DEF Base, FlagTypes, FileTypes, BridgeTypes, Copied
<1>1. ASSUME NEW j \in Jobs, Submit(j) PROVE Orderly'
  <2>1. /\ UNCHANGED <<curSend, pumped, sendIn, batch, lineLog, offset, doneMem, cur>>
        /\ queue' = Append(queue, j)
        /\ cut' \in {cut, cut \cup {j}} /\ IsNext(j)
        /\ \A y \in Jobs : y # j => kind'[y] = kind[y]
    BY <1>1 DEF Submit, Base, PhoneTypes
  <2>2. \A x \in Jobs : Contains(queue, x) => x < j /\ x # j
    BY <2>1, OnTheWay DEF Jobs
  <2>3. \A k \in 1..Copied' : k \in 1..Copied /\ queue'[k] = queue[k]
    BY <1>0, <2>1 DEF Copied
  <2>4. \A y \in Jobs : Known(y)' => Known(y) \/ y = j
    BY <1>0, <2>1, AppendHas DEF Known
  <2>5. \A y \in Jobs : Contains(queue, y) => Plain(y)' = Plain(y)
    BY <2>1, <2>2 DEF Plain
  <2>6. \A y \in Jobs : (y \in cut => y \in cut') /\ (y \in cut' => y \in cut \/ ~Contains(queue, y))
    BY <2>1, <2>2
  <2>7. \A y \in Jobs : Known(y)' => Known(y) \/ \A x \in Jobs : Contains(queue, x) => x < y
    BY <2>2, <2>4
  <2>8. QED
    BY <2>1, <2>3, <2>5, <2>6, <2>7, OrderlyCalm
<1>2. CASE /\ UNCHANGED <<kind, cut, queue, sendIn, batch, lineLog, offset>>
           /\ Copied' \in 0..Copied
           /\ doneMem \subseteq doneMem' /\ (cur' = cur \/ cur \in doneMem')
  <2>1. /\ \A k \in 1..Copied' : k \in 1..Copied /\ queue'[k] = queue[k]
        /\ \A y \in Jobs : Known(y)' = Known(y) /\ Plain(y)' = Plain(y)
    BY <1>0, <1>2 DEF Known, Plain
  <2>2. QED
    BY <1>2, <2>1, OrderlyCalm
<1>3. ASSUME NEW j \in Jobs, AnswerC5(j) \/ GiveUpC5(j) \/ Upload(j) \/ UploadOverdue(j)
      PROVE  Orderly'
  <2>1. UNCHANGED <<kind, cut, queue, curSend, pumped, sendIn, batch, lineLog, offset, doneMem, cur>>
    BY <1>3 DEF AnswerC5, GiveUpC5, Upload, UploadOverdue
  <2>2. QED
    BY <1>0, <1>2, <2>1 DEF Copied
<1>4. CASE PumpCursor \/ WorkerCrash
  <2>1. /\ UNCHANGED <<kind, cut, queue, sendIn, batch, lineLog, offset, doneMem, cur>>
        /\ pumped > 0 /\ pumped' = 0 /\ curSend' \in {pumped, curSend, 0}
    BY <1>4 DEF PumpCursor, WorkerCrash, CursorLeft
  <2>2. Copied' \in 0..Copied
    BY <1>0, <2>1 DEF Copied, Base, FileTypes
  <2>3. QED
    BY <1>2, <2>1, <2>2
<1>5. CASE RecordResult \/ MarkDone
  <2>1. /\ UNCHANGED <<kind, cut, queue, curSend, pumped, sendIn, batch, lineLog, offset>>
        /\ doneMem \subseteq doneMem' /\ (cur' = cur \/ cur \in doneMem')
    BY <1>5 DEF RecordResult, MarkDone
  <2>2. QED
    BY <1>0, <1>2, <2>1 DEF Copied
<1>6. CASE DropDone \/ DeferLine
  <2>1. /\ UNCHANGED <<kind, cut, queue, curSend, pumped, sendIn, doneMem, offset, lineLog>>
        /\ batch # <<>> /\ cur = None
    BY <1>6 DEF DropDone, DeferLine, Idle
  <2>2. batch' = Tail(batch)
    BY <1>6, <2>1, FirstLine DEF DropDone, DeferLine
  <2>3. ThisLine \in doneMem \/ ~Plain(ThisLine)
    BY <1>6 DEF DropDone, DeferLine, AlreadyAnswered, ThisLine, Plain
  <2>4. NoCut' /\ CopyKept' /\ FileFirst' /\ ReadKept' /\ BatchFirst'
    BY <2>1, <2>2, <2>3, OrderlyHead
  <2>5. LogFirst' /\ LineOrder'
    BY <2>1 DEF Orderly, LogFirst, LineOrder, Plain, Known
  <2>6. QED
    BY <2>4, <2>5 DEF Orderly
<1>7. ASSUME NEW j \in Jobs, RetryDeferred(j) PROVE Orderly'
  <2>1. /\ UNCHANGED <<kind, cut, queue, curSend, pumped, sendIn, doneMem, offset, batch>>
        /\ cur = None /\ lineLog' \in {lineLog, Append(lineLog, j)}
    BY <1>7, AttemptTypes DEF RetryDeferred, Idle
  <2>2. ~Plain(j)
    BY <1>7 DEF RetryDeferred, QueueInv
  <2>3. \A i \in 1..Len(lineLog') : Plain(lineLog'[i]) =>
           i \in 1..Len(lineLog) /\ lineLog'[i] = lineLog[i]
    BY <1>0, <2>1, <2>2
  <2>4. \A y \in Jobs : (Known(y)' <=> Known(y)) /\ (Plain(y)' <=> Plain(y)) /\ y # cur
    BY <2>1, SendAssumption DEF Known, Plain
  <2>5. NoCut' /\ CopyKept' /\ FileFirst'
    <3>1. NoCut'
      BY <2>1 DEF Orderly, NoCut, Contains
    <3>2. CopyKept'
      BY <2>1 DEF Orderly, CopyKept, Copied, Contains
    <3>3. FileFirst'
      BY <2>1, <2>4 DEF Orderly, FileFirst
    <3>4. QED
      BY <3>1, <3>2, <3>3
  <2>6. ReadKept'
    <3> SUFFICES ASSUME NEW k \in 1..offset, Plain(sendIn[k])
                 PROVE  sendIn[k] \in doneMem \/ Contains(batch, sendIn[k])
      BY <2>1 DEF ReadKept, Plain, Contains
    <3>1. sendIn[k] \in Jobs
      BY DEF Base, FileTypes
    <3>2. QED
      BY <2>4, <3>1 DEF Orderly, ReadKept
  <2>7. BatchFirst'
    BY <2>1, <2>4 DEF Orderly, BatchFirst
  <2>8. LogFirst' /\ LineOrder'
    <3>1. LogFirst'
      BY <2>1, <2>3, <2>4 DEF Orderly, LogFirst, Plain
    <3>2. LineOrder'
      BY <2>1, <2>3 DEF Orderly, LineOrder, Plain
    <3>3. QED
      BY <3>1, <3>2
  <2>9. QED
    BY <2>5, <2>6, <2>7, <2>8 DEF Orderly
<1>8. CASE UNCHANGED vars
  BY <1>0, <1>2, <1>8 DEF vars, Copied
<1>9. CASE DispatchLine
  BY <1>9, OrderlyDispatch
<1>10. CASE RecordFails \/ BridgeCrash \/ BridgeStart \/ \E j \in Jobs : SubmitFails(j)
  <2>1. bridgeCrashes \in Nat /\ writeErrors \in Nat
    BY DEF Base, FlagTypes
  <2>2. CASE RecordFails \/ \E j \in Jobs : SubmitFails(j)
    <3>1. writeErrors' = writeErrors + 1
      BY <2>2 DEF RecordFails, SubmitFails
    <3>2. QED
      BY <1>0, <2>1, <3>1
  <2>3. CASE BridgeCrash
    <3>1. bridgeCrashes' = bridgeCrashes + 1
      BY <2>3 DEF BridgeCrash
    <3>2. QED
      BY <1>0, <2>1, <3>1
  <2>4. CASE BridgeStart
    BY <1>0, <2>4 DEF BridgeStart
  <2>5. QED
    BY <1>10, <2>2, <2>3, <2>4
<1>11. QED
  BY <1>1, <1>3, <1>4, <1>5, <1>6, <1>7, <1>8, <1>9, <1>10, OrderlyCopy, OrderlyRead
     DEF Next, Worker, Bridge

-----------------------------------------------------------------------------
(* The inductive invariant.                                                  *)
SendInv ==
    /\ Base /\ QueueInv /\ CopiedOnce /\ NoFault /\ AckInv
    /\ tears = 0 => OrderInv
    /\ bridgeCrashes + writeErrors = 0 => Orderly

(* Every reachable state satisfies it.                                       *)
LEMMA SendInvariant == Spec => []SendInv
<1>1. Init => SendInv
  <2>1. Init => LineOrder
    BY DEF Init, LineOrder
  <2>2. Init => Orderly
    BY <2>1 DEF Init, Orderly, NoCut, CopyKept, FileFirst, ReadKept, BatchFirst, LogFirst,
                Copied, Contains
  <2>3. QED
    BY <2>1, <2>2, SendInit DEF SendInv, OrderInv
<1>2. SendInv /\ [Next]_vars => SendInv'
  <2> SUFFICES ASSUME SendInv, [Next]_vars PROVE SendInv'
    OBVIOUS
  <2>1. Base /\ QueueInv /\ CopiedOnce /\ NoFault /\ AckInv
    BY DEF SendInv
  <2>2. Base' /\ QueueInv' /\ NoFault' /\ AckInv'
    BY <2>1, BaseStep, QueueStep, NoFaultStep, AckStep
  <2>3. /\ workerCrashes' = 0 => workerCrashes = 0
        /\ tears' = tears \/ tears' # 0
        /\ tears' = 0 => tears = 0
        /\ \/ bridgeCrashes' + writeErrors' # 0
           \/ UNCHANGED <<bridgeCrashes, writeErrors>>
    <3>1. /\ workerCrashes \in Nat /\ tears \in Nat
          /\ bridgeCrashes \in Nat /\ writeErrors \in Nat
      BY <2>1 DEF Base, FlagTypes
    <3>2. /\ workerCrashes' = workerCrashes \/ workerCrashes' = workerCrashes + 1
          /\ tears' = tears \/ tears' = tears + 1
          /\ bridgeCrashes' = bridgeCrashes \/ bridgeCrashes' = bridgeCrashes + 1
          /\ writeErrors' = writeErrors \/ writeErrors' = writeErrors + 1
      BY DEF Next, Worker, Bridge, vars, faultVars, Submit, SubmitFails, AnswerC5, GiveUpC5,
             Upload, UploadOverdue, PumpAppend, PumpCursor, WorkerCrash, BridgeCrash,
             RecordFails, ReadLines, DropDone, DispatchLine, DeferLine, RetryDeferred,
             RecordResult, MarkDone, BridgeStart
    <3>3. QED
      BY <3>1, <3>2
  <2>4. CopiedOnce'
    BY <2>1, <2>3, FileOnceStep, BridgeOnceStep DEF CopiedOnce
  <2>5. tears' = 0 => OrderInv'
    BY <2>1, <2>3, OrderStep DEF SendInv
  <2>6. bridgeCrashes' + writeErrors' = 0 => Orderly'
    <3> SUFFICES ASSUME bridgeCrashes' + writeErrors' = 0 PROVE Orderly'
      OBVIOUS
    <3>1. UNCHANGED <<bridgeCrashes, writeErrors>> /\ bridgeCrashes + writeErrors = 0
      BY <2>3
    <3>2. bridgeUp /\ Orderly
      BY <2>1, <3>1 DEF NoFault, SendInv
    <3>3. QED
      BY <2>1, <3>1, <3>2, OrderlyStep
  <2>7. QED
    BY <2>2, <2>4, <2>5, <2>6 DEF SendInv
<1>3. QED
  BY <1>1, <1>2, PTL DEF Spec

(* A sequence without repetition holds an element at one place or nowhere.   *)
LEMMA AtOnePlace ==
    ASSUME Injective(lineLog), NEW j
    PROVE  TimesAccepted(j) <= 1
<1> DEFINE I == {i \in 1..Len(lineLog) : lineLog[i] = j}
<1>1. CASE I = {}
  BY <1>1, FS_EmptySet DEF TimesAccepted
<1>2. CASE I # {}
  <2>1. PICK i \in I : TRUE
    BY <1>2
  <2>2. I = {i}
    BY <2>1 DEF Injective
  <2>3. Cardinality(I) = 1
    BY <2>2, FS_Singleton
  <2>4. QED
    BY <2>3 DEF TimesAccepted
<1>3. QED
  BY <1>1, <1>2

(* Every variable of the pipeline has its type and no cursor points past its *)
(* file, whatever crashes or fails.                                          *)
THEOREM SendTypes == Spec => []TypeOK
<1>1. SendInv => TypeOK
  BY DEF SendInv, TypeOK, Base, PhoneTypes, FileTypes, BridgeTypes, FlagTypes
<1>2. QED
  BY <1>1, SendInvariant, PTL

(* LINE accepts a job at most once unless both the worker crashes between    *)
(* its two writes and the bridge crashes or fails a write: the ids absorb a  *)
(* second copy of the lines, the offset at the end absorbs a restart.        *)
THEOREM SentAtMostOnce == Spec => []AtMostOnce
<1>1. SendInv => AtMostOnce
  <2> SUFFICES ASSUME SendInv, workerCrashes = 0 \/ bridgeCrashes + writeErrors = 0, NEW j \in Jobs
               PROVE  TimesAccepted(j) <= 1
    BY DEF AtMostOnce
  <2>1. Injective(lineLog)
    BY DEF SendInv, CopiedOnce, BridgeOnce, NoFault
  <2>2. QED
    BY <2>1, AtOnePlace
<1>2. QED
  BY <1>1, SendInvariant, PTL

(* LINE accepts the jobs without a body in the order in which the phone sent *)
(* them, however many jobs, crashes and second copies there are, unless a    *)
(* cut cursor copies again what a fault of the bridge had skipped.           *)
THEOREM SentInOrder == Spec => []DeliveryOrder
<1>1. SendInv => DeliveryOrder
  BY DEF SendInv, OrderInv, Orderly, LineOrder, DeliveryOrder
<1>2. QED
  BY <1>1, SendInvariant, PTL

(* A C5 the phone sees succeed was accepted by LINE.                         *)
THEOREM AckedWasSent == Spec => []AckMeansAccepted
<1>1. SendInv => AckMeansAccepted
  <2> SUFFICES ASSUME SendInv, NEW j \in Jobs, kind[j] = "waiting", phone[j] = "acked"
               PROVE  TimesAccepted(j) >= 1
    BY DEF AckMeansAccepted
  <2> DEFINE I == {i \in 1..Len(lineLog) : lineLog[i] = j}
  <2>1. Contains(lineLog, j)
    BY DEF SendInv, AckInv
  <2>2. I # {}
    BY <2>1 DEF Contains
  <2>3. IsFiniteSet(I)
    <3>1. Len(lineLog) \in Nat
      BY DEF SendInv, Base, BridgeTypes
    <3>2. IsFiniteSet(1..Len(lineLog))
      BY <3>1, FS_Interval
    <3>3. QED
      BY <3>2, FS_Subset
  <2>4. Cardinality(I) \in Nat /\ Cardinality(I) # 0
    BY <2>2, <2>3, FS_CardinalityType, FS_EmptySet
  <2>5. QED
    BY <2>4 DEF TimesAccepted
<1>2. QED
  BY <1>1, SendInvariant, PTL
=============================================================================

-------------------------- MODULE PushNotifyProofs --------------------------
(***************************************************************************)
(* Proofs about PushNotify: its types, that no line is passed before every *)
(* device got its push, and that a fault makes a device hear of one line   *)
(* again at most, for any devices, records, failures and restarts.         *)
(***************************************************************************)
EXTENDS PushNotify, TLAPS, FiniteSetTheorems

(* The line being served exists.                                           *)
ServesALine == step = "push" => offset[at] < Len(lines[at])

TypeInv == TypeOK /\ ServesALine

(* The devices no longer to do have the push of the line being served.     *)
ServedSoFar ==
    step = "push" /\ lines[at][offset[at] + 1] \in Pushable =>
        \A d \in Devices \ todo : pushes[d][lines[at][offset[at] + 1]] > 0

(* An offset file exists once the notifier has run before.                 *)
OffsetsExist == \A f \in Files : saved[f] \in Nat

SkipInv == TypeInv /\ ServedSoFar /\ OffsetsExist /\ NothingSkipped

(* A record has its place in one of the two files.                         *)
LEMMA FileOfRecord ==
    ASSUME NEW r \in Records
    PROVE  FileOf(r) \in Files
BY DEF FileOf, Files

(* The turn of the files.                                                  *)
LEMMA OtherFile ==
    ASSUME NEW f \in Files
    PROVE  Other(f) \in Files
BY DEF Other, Files

(* A push more keeps the counters well typed and takes nothing away.       *)
LEMMA PushedType ==
    ASSUME TypeInv, step = "push", NEW d \in Devices
    PROVE  /\ lines[at][offset[at] + 1] \in Records
           /\ Pushed(d) \in [Devices -> [Records -> Nat]]
           /\ \A e \in Devices, r \in Records : Pushed(d)[e][r] >= pushes[e][r]
           /\ Pushed(d)[d][lines[at][offset[at] + 1]] > 0
<1>1. at \in Files /\ lines[at] \in Seq(Records) /\ offset[at] \in Nat
  BY DEF TypeInv, TypeOK
<1>2. offset[at] + 1 \in 1..Len(lines[at])
  BY <1>1 DEF TypeInv, ServesALine
<1> DEFINE r0 == lines[at][offset[at] + 1]
<1>3. r0 \in Records
  BY <1>1, <1>2
<1>4. pushes \in [Devices -> [Records -> Nat]]
  BY DEF TypeInv, TypeOK
<1> HIDE DEF r0
<1>5. Pushed(d) = [pushes EXCEPT ![d] = [pushes[d] EXCEPT ![r0] = pushes[d][r0] + 1]]
  BY DEF Pushed, Current, r0
<1>6. QED
  BY <1>3, <1>4, <1>5 DEF r0

(* The initial state.                                                      *)
LEMMA PushInit == Init => TypeInv
BY PushAssumption DEF Init, TypeInv, TypeOK, ServesALine, Files

(* A step keeps the types.                                                 *)
LEMMA TypeStep == TypeInv /\ [Next]_vars => TypeInv'
<1> USE PushAssumption
<1> SUFFICES ASSUME TypeInv, [Next]_vars PROVE TypeInv'
  OBVIOUS
<1>1. ASSUME NEW r \in Records, AppendRecord(r) PROVE TypeInv'
  <2>1. FileOf(r) \in Files
    BY FileOfRecord
  <2>2. lines' = [lines EXCEPT ![FileOf(r)] = Append(lines[FileOf(r)], r)]
    BY <1>1 DEF AppendRecord
  <2>3. lines' \in [Files -> Seq(Records)]
        /\ \A f \in Files : Len(lines[f]) <= Len(lines'[f]) /\ Len(lines[f]) \in Nat
                            /\ Len(lines'[f]) \in Nat
    BY <2>1, <2>2 DEF TypeInv, TypeOK
  <2>4. QED
    BY <1>1, <2>3 DEF AppendRecord, TypeInv, TypeOK, ServesALine
<1>2. CASE ReadLine
  BY <1>2, OtherFile DEF ReadLine, TypeInv, TypeOK, ServesALine
<1>3. ASSUME NEW d \in Devices, Post(d) PROVE TypeInv'
  BY <1>3, PushedType DEF Post, TypeInv, TypeOK, ServesALine
<1>4. ASSUME NEW d \in Devices, PostFails(d) PROVE TypeInv'
  <2>1. pushes' \in [Devices -> [Records -> Nat]] /\ failures' \in Nat
    BY <1>4, PushedType DEF PostFails, TypeInv, TypeOK
  <2>2. QED
    BY <1>4, <2>1 DEF PostFails, Retry, OffsetAfterFailure, TypeInv, TypeOK, ServesALine,
                      Files
<1>5. CASE Advance
  BY <1>5 DEF Advance, Served, TypeInv, TypeOK, ServesALine
<1>6. CASE WriteOffset
  BY <1>6, OtherFile DEF WriteOffset, SavedNow, TypeInv, TypeOK, ServesALine
<1>7. CASE Restart
  BY <1>7 DEF Restart, StartOffset, TypeInv, TypeOK, ServesALine, Files
<1>8. CASE UNCHANGED vars
  BY <1>8 DEF vars, TypeInv, TypeOK, ServesALine
<1>9. CASE WriteFails
  BY <1>9 DEF WriteFails, TypeInv, TypeOK, ServesALine, Files
<1>10. QED
  BY <1>1, <1>2, <1>3, <1>4, <1>5, <1>6, <1>7, <1>8, <1>9 DEF Next, Loop

(* Offsets stay inside the files and offset files behind the offsets, for  *)
(* any number of records, failures and restarts.                           *)
THEOREM PushTypes == Spec => []TypeOK
<1>1. TypeInv => TypeOK
  BY DEF TypeInv
<1>2. QED
  BY PushInit, TypeStep, <1>1, PTL DEF Spec

(* A notifier that ran before starts where nothing has been skipped.       *)
LEMMA SkipInit == Fresh = FALSE /\ Init => SkipInv
BY PushInit DEF Init, SkipInv, ServedSoFar, OffsetsExist, NothingSkipped, Files

(* A step keeps every line before the offset pushed to all.                *)
LEMMA SkipStep == SkipInv /\ [Next]_vars => SkipInv'
<1> USE PushAssumption
<1> SUFFICES ASSUME SkipInv, [Next]_vars PROVE SkipInv'
  OBVIOUS
<1>0. TypeInv /\ TypeInv'
  BY TypeStep DEF SkipInv
<1>1. ASSUME NEW r \in Records, AppendRecord(r) PROVE SkipInv'
  <2>1. \A f \in Files : \A k \in 1..Len(lines[f]) : lines'[f][k] = lines[f][k]
    BY <1>0, <1>1, FileOfRecord DEF AppendRecord, TypeInv, TypeOK
  <2>2. \A f \in Files : offset[f] \in Nat /\ Len(lines[f]) \in Nat /\ offset[f] <= Len(lines[f])
    <3>1. \A f \in Files : lines[f] \in Seq(Records)
      BY <1>0 DEF TypeInv, TypeOK
    <3>2. \A f \in Files : Len(lines[f]) \in Nat
      BY <3>1
    <3>3. QED
      BY <1>0, <3>2 DEF TypeInv, TypeOK
  <2>3. NothingSkipped'
    BY <1>1, <2>1, <2>2 DEF SkipInv, NothingSkipped, AppendRecord
  <2>4. ServedSoFar'
    <3>1. step = "push" => at \in Files /\ offset[at] + 1 \in 1..Len(lines[at])
      BY <1>0, <2>2 DEF TypeInv, TypeOK, ServesALine
    <3>2. QED
      BY <1>1, <2>1, <3>1 DEF SkipInv, ServedSoFar, AppendRecord
  <2>5. QED
    BY <1>0, <1>1, <2>3, <2>4 DEF SkipInv, OffsetsExist, AppendRecord
<1>2. CASE ReadLine
  <2>1. ServedSoFar'
    BY <1>2, <1>0 DEF ReadLine, SkipInv, ServedSoFar
  <2>2. QED
    BY <1>2, <1>0, <2>1 DEF ReadLine, SkipInv, OffsetsExist, NothingSkipped
<1>3. ASSUME NEW d \in Devices, Post(d) PROVE SkipInv'
  <2>1. step = "push" /\ pushes' = Pushed(d) /\ todo' = todo \ {d}
        /\ UNCHANGED <<lines, offset, saved, at, step>>
    BY <1>3 DEF Post
  <2>2. \A e \in Devices, r \in Records : pushes'[e][r] >= pushes[e][r]
                                          /\ pushes[e][r] \in Nat /\ pushes'[e][r] \in Nat
    BY <1>0, <2>1, PushedType DEF TypeInv, TypeOK
  <2>3. NothingSkipped'
    BY <2>1, <2>2 DEF SkipInv, NothingSkipped, Pushable, Records
  <2>4. ServedSoFar'
    <3> DEFINE r == lines[at][offset[at] + 1]
    <3>1. r \in Records /\ pushes \in [Devices -> [Records -> Nat]]
      BY <1>0, <2>1 DEF TypeInv, TypeOK, ServesALine
    <3> HIDE DEF r
    <3>2. pushes'[d][r] > 0
      BY <2>1, <3>1 DEF Pushed, Current, r
    <3>3. ASSUME r \in Pushable, NEW e \in Devices \ todo PROVE pushes'[e][r] > 0
      <4>1. pushes[e][r] > 0
        BY <2>1, <3>3 DEF SkipInv, ServedSoFar, r
      <4>2. QED
        BY <2>2, <3>1, <4>1
    <3>4. QED
      BY <2>1, <3>2, <3>3 DEF ServedSoFar, r
  <2>5. QED
    BY <1>0, <2>1, <2>3, <2>4 DEF SkipInv, OffsetsExist
<1>4. ASSUME NEW d \in Devices, PostFails(d) PROVE SkipInv'
  <2>1. step = "push" /\ pushes' \in {pushes} \cup {Pushed(d)} /\ step' = "read"
        /\ UNCHANGED <<lines, offset, saved>>
    BY <1>4 DEF PostFails, Retry, OffsetAfterFailure
  <2>2. \A e \in Devices, r \in Records : pushes'[e][r] >= pushes[e][r]
                                          /\ pushes[e][r] \in Nat /\ pushes'[e][r] \in Nat
    BY <1>0, <2>1, PushedType DEF TypeInv, TypeOK
  <2>3. NothingSkipped'
    BY <2>1, <2>2 DEF SkipInv, NothingSkipped, Pushable, Records
  <2>4. QED
    BY <1>0, <2>1, <2>3 DEF SkipInv, OffsetsExist, ServedSoFar
<1>5. CASE Advance
  <2>1. NothingSkipped'
    <3>1. at \in Files /\ offset[at] \in Nat /\ offset' = [offset EXCEPT ![at] = offset[at] + 1]
          /\ UNCHANGED <<lines, pushes>> /\ offset \in [Files -> Nat]
      BY <1>0, <1>5 DEF Advance, TypeInv, TypeOK
    <3>2. lines[at][offset[at] + 1] \in Pushable =>
            \A d \in Devices : pushes[d][lines[at][offset[at] + 1]] > 0
      BY <1>5 DEF Advance, Served, SkipInv, ServedSoFar
    <3>3. ASSUME NEW f \in Files, NEW k \in 1..offset'[f], lines[f][k] \in Pushable,
                 NEW d \in Devices
          PROVE  pushes[d][lines[f][k]] > 0
      <4>1. k \in 1..offset[f] \/ (f = at /\ k = offset[at] + 1)
        BY <3>1
      <4>2. QED
        BY <3>2, <3>3, <4>1 DEF SkipInv, NothingSkipped
    <3>4. QED
      BY <3>1, <3>3 DEF NothingSkipped
  <2>2. QED
    BY <1>0, <1>5, <2>1 DEF Advance, SkipInv, OffsetsExist, ServedSoFar
<1>6. CASE WriteOffset
  <2>1. OffsetsExist'
    BY <1>0, <1>6 DEF WriteOffset, SavedNow, SkipInv, OffsetsExist, TypeInv, TypeOK
  <2>2. QED
    BY <1>0, <1>6, <2>1 DEF WriteOffset, SkipInv, ServedSoFar, NothingSkipped
<1>7. CASE Restart
  <2>1. \A f \in Files : offset'[f] = saved[f] /\ saved[f] \in Nat /\ offset[f] \in Nat
                         /\ saved[f] <= offset[f]
    BY <1>0, <1>7 DEF Restart, StartOffset, SkipInv, OffsetsExist, TypeInv, TypeOK
  <2>2. NothingSkipped'
    BY <1>7, <2>1 DEF Restart, SkipInv, NothingSkipped
  <2>3. QED
    BY <1>0, <1>7, <2>2 DEF Restart, SkipInv, OffsetsExist, ServedSoFar
<1>8. CASE UNCHANGED vars
  BY <1>0, <1>8 DEF vars, SkipInv, OffsetsExist, ServedSoFar, NothingSkipped
<1>9. CASE WriteFails
  BY <1>0, <1>9 DEF WriteFails, SkipInv, OffsetsExist, ServedSoFar, NothingSkipped
<1>10. QED
  BY <1>1, <1>2, <1>3, <1>4, <1>5, <1>6, <1>7, <1>8, <1>9 DEF Next, Loop

(* No line is passed before every device got its push, for any number of   *)
(* devices and records, and although any post and any write of an offset   *)
(* may fail at any time and the notifier may restart between any two       *)
(* steps; keys refused for good, and calls no push can be made of, stop    *)
(* the offset rather than let a line pass.                                 *)
THEOREM NoLineSkipped ==
    ASSUME Fresh = FALSE
    PROVE  Spec => []NothingSkipped
<1>1. Init => SkipInv
  BY SkipInit
<1>2. SkipInv => NothingSkipped
  BY DEF SkipInv
<1>3. QED
  BY <1>1, <1>2, SkipStep, PTL DEF Spec

-----------------------------------------------------------------------------
\* A record is written once.
EachOnce ==
    \A f, g \in Files : \A k \in 1..Len(lines[f]), j \in 1..Len(lines[g]) :
        lines[f][k] = lines[g][j] => f = g /\ k = j

\* Only what is written is pushed.
OnlyWritten == \A d \in Devices, r \in Records : pushes[d][r] > 0 => Written(r)

\* The line whose offset is being written was read.
SavesALine == step = "save" => offset[at] > 0

\* Of a call no push can be made of, none was.
Untouched == step = "push" /\ Current \in Incomplete => todo = Devices

\* This round gave the device its push of the record, and is not over.
InHand(d, r) ==
    \/ step = "push" /\ d \notin todo /\ r = lines[at][offset[at] + 1]
    \/ step = "save" /\ r = lines[at][offset[at]]

\* A line that will be served, at once or after a restart.
Ahead(r) == \E f \in Files : \E k \in 1..Len(lines[f]) :
    /\ lines[f][k] = r
    /\ k > offset[f] \/ (saved[f] # None /\ k > saved[f])

\* What a device got again, or has got and will get again in a later round.
AtRisk(d) ==
    {r \in Pushable : \/ pushes[d][r] > 1
                      \/ pushes[d][r] = 1 /\ Ahead(r) /\ ~InHand(d, r)}

RiskBounded ==
    \A d \in Devices : IsFiniteSet(AtRisk(d)) /\ Cardinality(AtRisk(d)) <= failures + restarts

RepeatInv == TypeInv /\ EachOnce /\ OnlyWritten /\ SavesALine /\ Untouched /\ RiskBounded

(* Nothing is written at the start.                                        *)
LEMMA RepeatInit == Init => RepeatInv
<1> SUFFICES ASSUME Init PROVE RepeatInv
  OBVIOUS
<1>1. TypeInv
  BY PushInit
<1>2. \A f \in Files : lines[f] = <<>> /\ offset[f] = 0
  BY DEF Init
<1>3. EachOnce
  BY <1>2 DEF EachOnce
<1>4. OnlyWritten
  BY DEF Init, OnlyWritten
<1>5. SavesALine /\ Untouched
  BY DEF Init, SavesALine, Untouched
<1>6. ASSUME NEW d \in Devices PROVE AtRisk(d) = {}
  BY DEF Init, AtRisk, Records, Pushable
<1>7. RiskBounded
  <2>1. IsFiniteSet({}) /\ Cardinality({}) = 0 /\ failures + restarts = 0
    BY FS_EmptySet DEF Init
  <2>2. QED
    BY <1>6, <2>1 DEF RiskBounded
<1>8. QED
  BY <1>1, <1>3, <1>4, <1>5, <1>7 DEF RepeatInv

(* The bridge appends one record, behind all others of its file.           *)
LEMMA AppendedLine ==
    ASSUME TypeInv, NEW r \in Records, AppendRecord(r)
    PROVE  /\ \A f \in Files : /\ Len(lines[f]) \in Nat /\ Len(lines'[f]) >= Len(lines[f])
                               /\ \A k \in 1..Len(lines[f]) : lines'[f][k] = lines[f][k]
           /\ \A f \in Files : \A k \in 1..Len(lines'[f]) :
                 \/ k \in 1..Len(lines[f])
                 \/ f = FileOf(r) /\ k = Len(lines[f]) + 1 /\ lines'[f][k] = r
<1>1. lines' = [lines EXCEPT ![FileOf(r)] = Append(lines[FileOf(r)], r)]
  BY DEF AppendRecord
<1>2. lines \in [Files -> Seq(Records)] /\ FileOf(r) \in Files
  BY FileOfRecord DEF TypeInv, TypeOK
<1>3. ASSUME NEW f \in Files, f # FileOf(r) PROVE lines'[f] = lines[f]
  BY <1>1, <1>2, <1>3
<1>4. lines'[FileOf(r)] = Append(lines[FileOf(r)], r)
  BY <1>1, <1>2
<1> DEFINE a == lines[FileOf(r)]  b == lines'[FileOf(r)]
<1>5. /\ Len(a) \in Nat /\ Len(b) = Len(a) + 1 /\ b[Len(a) + 1] = r
      /\ \A k \in 1..Len(a) : b[k] = a[k]
  BY <1>2, <1>4
<1> HIDE DEF a, b
<1>6. \A k \in 1..Len(b) : k \in 1..Len(a) \/ (k = Len(a) + 1 /\ b[k] = r)
  BY <1>5
<1>7. ASSUME NEW f \in Files
      PROVE  /\ Len(lines[f]) \in Nat /\ Len(lines'[f]) >= Len(lines[f])
             /\ \A k \in 1..Len(lines[f]) : lines'[f][k] = lines[f][k]
             /\ \A k \in 1..Len(lines'[f]) :
                   \/ k \in 1..Len(lines[f])
                   \/ f = FileOf(r) /\ k = Len(lines[f]) + 1 /\ lines'[f][k] = r
  <2>1. CASE f = FileOf(r)
    BY <1>5, <1>6, <2>1 DEF a, b
  <2>2. CASE f # FileOf(r)
    BY <1>2, <1>3, <2>2
  <2>3. QED
    BY <2>1, <2>2
<1>8. QED
  BY <1>7

(* Records stay where they are, each at one place.                         *)
LEMMA OnceStep ==
    ASSUME TypeInv, EachOnce, [Next]_vars
    PROVE  EachOnce'
<1>1. ASSUME NEW r \in Records, AppendRecord(r) PROVE EachOnce'
  <2>1. /\ \A f \in Files : /\ Len(lines[f]) \in Nat
                            /\ \A k \in 1..Len(lines[f]) : lines'[f][k] = lines[f][k]
        /\ \A f \in Files : \A k \in 1..Len(lines'[f]) :
              \/ k \in 1..Len(lines[f])
              \/ f = FileOf(r) /\ k = Len(lines[f]) + 1 /\ lines'[f][k] = r
    BY <1>1, AppendedLine
  <2>2. \A f \in Files : \A k \in 1..Len(lines[f]) : lines[f][k] # r
    BY <1>1 DEF AppendRecord, Written
  <2>3. ASSUME NEW f \in Files, NEW g \in Files,
               NEW k \in 1..Len(lines'[f]), NEW j \in 1..Len(lines'[g]), lines'[f][k] = lines'[g][j]
        PROVE  f = g /\ k = j
    <3>1. CASE k \in 1..Len(lines[f]) /\ j \in 1..Len(lines[g])
      BY <2>1, <2>3, <3>1 DEF EachOnce
    <3>2. CASE k \in 1..Len(lines[f]) /\ j \notin 1..Len(lines[g])
      BY <2>1, <2>2, <2>3, <3>2
    <3>3. CASE k \notin 1..Len(lines[f]) /\ j \in 1..Len(lines[g])
      BY <2>1, <2>2, <2>3, <3>3
    <3>4. CASE k \notin 1..Len(lines[f]) /\ j \notin 1..Len(lines[g])
      BY <2>1, <3>4
    <3>5. QED
      BY <3>1, <3>2, <3>3, <3>4
  <2>4. QED
    BY <2>3 DEF EachOnce
<1>2. CASE UNCHANGED lines
  BY <1>2 DEF EachOnce
<1>3. CASE Loop \/ Restart \/ UNCHANGED vars
  BY <1>2, <1>3 DEF Loop, ReadLine, Advance, WriteOffset, WriteFails, Post, PostFails, Retry,
                    Restart, vars
<1>4. QED
  BY <1>1, <1>3 DEF Next

(* A push is of the line being served.                                     *)
LEMMA WrittenStep ==
    ASSUME TypeInv, OnlyWritten, [Next]_vars
    PROVE  OnlyWritten'
<1>1. ASSUME NEW x \in Records, AppendRecord(x) PROVE OnlyWritten'
  <2>1. ASSUME NEW r \in Records, Written(r) PROVE Written(r)'
    <3>0. PICK f \in Files : \E k \in 1..Len(lines[f]) : lines[f][k] = r
      BY <2>1 DEF Written
    <3>1. PICK k \in 1..Len(lines[f]) : lines[f][k] = r
      BY <3>0
    <3>2. Len(lines'[f]) >= Len(lines[f]) /\ Len(lines[f]) \in Nat /\ lines'[f][k] = lines[f][k]
      BY <1>1, AppendedLine
    <3>3. lines' \in [Files -> Seq(Records)]
      BY <1>1, TypeStep DEF TypeInv, TypeOK, Next
    <3>4. k \in 1..Len(lines'[f])
      BY <3>2, <3>3
    <3>5. QED
      BY <3>1, <3>2, <3>4 DEF Written
  <2>2. QED
    BY <1>1, <2>1 DEF OnlyWritten, AppendRecord
<1>2. ASSUME UNCHANGED lines, step = "push", NEW d \in Devices, pushes' = Pushed(d) \/ UNCHANGED pushes
      PROVE  OnlyWritten'
  <2> DEFINE c == lines[at][offset[at] + 1]
  <2>1. at \in Files /\ offset[at] + 1 \in 1..Len(lines[at]) /\ lines[at] \in Seq(Records)
    BY <1>2 DEF TypeInv, TypeOK, ServesALine
  <2>2. c \in Records /\ Written(c)
    BY <2>1 DEF Written
  <2> HIDE DEF c
  <2>3. pushes \in [Devices -> [Records -> Nat]]
    BY DEF TypeInv, TypeOK
  <2>4. \A e \in Devices, r \in Records : r # c => pushes'[e][r] = pushes[e][r]
    BY <1>2, <2>2, <2>3 DEF Pushed, Current, c
  <2>5. QED
    BY <1>2, <2>2, <2>4 DEF OnlyWritten, Written
<1>3. ASSUME NEW d \in Devices, Post(d) \/ PostFails(d) PROVE OnlyWritten'
  BY <1>2, <1>3 DEF Post, PostFails, Retry
<1>4. CASE UNCHANGED <<lines, pushes>>
  BY <1>4 DEF OnlyWritten, Written
<1>5. CASE ReadLine \/ Advance \/ WriteOffset \/ WriteFails \/ Restart \/ UNCHANGED vars
  BY <1>4, <1>5 DEF ReadLine, Advance, WriteOffset, WriteFails, Restart, vars
<1>6. QED
  BY <1>1, <1>3, <1>5 DEF Next, Loop

(* What is written was read, and what cannot be posted was not.            *)
LEMMA SavedStep ==
    ASSUME TypeInv, SavesALine, Untouched, [Next]_vars
    PROVE  SavesALine' /\ Untouched'
<1>1. /\ at \in Files /\ offset \in [Files -> Nat]
      /\ step = "push" => offset[at] + 1 \in 1..Len(lines[at])
      /\ \A f \in Files : lines[f] \in Seq(Records)
  BY DEF TypeInv, TypeOK, ServesALine
<1>2. CASE step' = "read"
  BY <1>2 DEF SavesALine, Untouched
<1>3. ASSUME NEW d \in Devices, Post(d) PROVE SavesALine' /\ Untouched'
  BY <1>3 DEF Post, Hopeless, Current, SavesALine, Untouched
<1>4. CASE ReadLine
  BY <1>4, PushAssumption DEF ReadLine, SavesALine, Untouched, Current, Pushable
<1>5. CASE Advance
  BY <1>1, <1>5 DEF Advance, SavesALine, Untouched
<1>6. ASSUME NEW r \in Records, AppendRecord(r) PROVE SavesALine' /\ Untouched'
  <2>1. step = "push" => lines'[at][offset[at] + 1] = lines[at][offset[at] + 1]
    BY <1>1, <1>6, AppendedLine
  <2>2. UNCHANGED <<offset, at, step, todo>>
    BY <1>6 DEF AppendRecord
  <2>3. QED
    BY <2>1, <2>2 DEF SavesALine, Untouched, Current
<1>7. CASE UNCHANGED vars
  BY <1>7 DEF vars, SavesALine, Untouched, Current
<1>8. ASSUME NEW d \in Devices, PostFails(d) PROVE step' = "read"
  BY <1>8 DEF PostFails, Retry
<1>9. CASE WriteOffset \/ WriteFails \/ Restart
  BY <1>2, <1>9 DEF WriteOffset, WriteFails, Restart
<1>10. QED
  BY <1>2, <1>3, <1>4, <1>5, <1>6, <1>7, <1>8, <1>9 DEF Next, Loop

(* A step that puts no record more at risk.                                *)
LEMMA RiskKept ==
    ASSUME TypeInv, RiskBounded, NEW d \in Devices, NEW T, T \subseteq AtRisk(d)
    PROVE  IsFiniteSet(T) /\ Cardinality(T) <= failures + restarts
<1>1. IsFiniteSet(AtRisk(d)) /\ Cardinality(AtRisk(d)) <= failures + restarts
  BY DEF RiskBounded
<1>2. IsFiniteSet(T) /\ Cardinality(T) <= Cardinality(AtRisk(d))
  BY <1>1, FS_Subset
<1>3. Cardinality(T) \in Nat /\ Cardinality(AtRisk(d)) \in Nat
  BY <1>1, <1>2, FS_CardinalityType
<1>4. QED
  BY <1>1, <1>2, <1>3 DEF TypeInv, TypeOK

(* A step that puts a record more at risk.                                 *)
LEMMA RiskOfOneMore ==
    ASSUME TypeInv, RiskBounded, NEW d \in Devices, NEW c, NEW T, T \subseteq AtRisk(d) \cup {c}
    PROVE  IsFiniteSet(T) /\ Cardinality(T) <= failures + restarts + 1
<1> DEFINE S == AtRisk(d)
<1>1. IsFiniteSet(S) /\ Cardinality(S) <= failures + restarts
  BY DEF RiskBounded
<1> HIDE DEF S
<1>2. /\ IsFiniteSet(S \cup {c})
      /\ Cardinality(S \cup {c}) = Cardinality(S) \/ Cardinality(S \cup {c}) = Cardinality(S) + 1
  BY <1>1, FS_AddElement
<1>3. IsFiniteSet(T) /\ Cardinality(T) <= Cardinality(S \cup {c})
  BY <1>2, FS_Subset DEF S
<1>4. Cardinality(T) \in Nat /\ Cardinality(S) \in Nat /\ Cardinality(S \cup {c}) \in Nat
  BY <1>1, <1>2, <1>3, FS_CardinalityType
<1>5. failures \in Nat /\ restarts \in Nat
  BY DEF TypeInv, TypeOK
<1>6. QED
  BY <1>1, <1>2, <1>3, <1>4, <1>5

(* A new record is at no risk, and puts no other record there.             *)
LEMMA RiskAppend ==
    ASSUME TypeInv, OnlyWritten, SavesALine, NEW x \in Records, AppendRecord(x), NEW d \in Devices
    PROVE  AtRisk(d)' \subseteq AtRisk(d)
<1>1. /\ \A f \in Files : \A k \in 1..Len(lines[f]) : lines'[f][k] = lines[f][k]
      /\ \A f \in Files : \A k \in 1..Len(lines'[f]) : k \in 1..Len(lines[f]) \/ lines'[f][k] = x
  BY AppendedLine
<1>2. UNCHANGED <<offset, saved, at, step, todo, pushes>>
  BY DEF AppendRecord
<1>3. pushes[d] \in [Records -> Nat]
  BY DEF TypeInv, TypeOK
<1>4. pushes[d][x] = 0
  BY <1>3 DEF AppendRecord, OnlyWritten
<1>5. ASSUME NEW r \in Pushable, r # x, Ahead(r)' PROVE Ahead(r)
  BY <1>1, <1>2, <1>5 DEF Ahead
<1>6. ASSUME NEW r \in Pushable, InHand(d, r) PROVE InHand(d, r)'
  <2>1. at \in Files /\ lines[at] \in Seq(Records) /\ offset[at] \in Nat /\ offset[at] <= Len(lines[at])
    BY DEF TypeInv, TypeOK
  <2>2. CASE step = "push"
    <3>1. offset[at] + 1 \in 1..Len(lines[at])
      BY <2>1, <2>2 DEF TypeInv, ServesALine
    <3>2. lines'[at][offset[at] + 1] = lines[at][offset[at] + 1]
      BY <1>1, <2>1, <3>1
    <3>3. QED
      BY <1>2, <1>6, <2>2, <3>2 DEF InHand
  <2>3. CASE step = "save" /\ offset[at] > 0
    <3>1. offset[at] \in 1..Len(lines[at])
      BY <2>1, <2>3
    <3>2. lines'[at][offset[at]] = lines[at][offset[at]]
      BY <1>1, <2>1, <3>1
    <3>3. QED
      BY <1>2, <1>6, <2>3, <3>2 DEF InHand
  <2>4. QED
    BY <1>6, <2>2, <2>3 DEF InHand, SavesALine
<1>7. QED
  BY <1>2, <1>3, <1>4, <1>5, <1>6 DEF AtRisk

(* A step of the notifier puts no record at risk unless a post fails.      *)
LEMMA RiskLoop ==
    ASSUME TypeInv, EachOnce, SavesALine, NEW d \in Devices,
           \/ ReadLine \/ Advance \/ WriteOffset \/ UNCHANGED vars
           \/ \E e \in Devices : Post(e)
    PROVE  AtRisk(d)' \subseteq AtRisk(d)
<1> USE PushAssumption
<1>1. /\ at \in Files /\ offset \in [Files -> Nat] /\ todo \subseteq Devices
      /\ pushes \in [Devices -> [Records -> Nat]]
      /\ \A f \in Files : lines[f] \in Seq(Records) /\ offset[f] <= Len(lines[f])
      /\ step = "push" => offset[at] + 1 \in 1..Len(lines[at])
  BY DEF TypeInv, TypeOK, ServesALine
<1>2. ASSUME NEW e \in Devices, Post(e) PROVE AtRisk(d)' \subseteq AtRisk(d)
  <2> DEFINE c == lines[at][offset[at] + 1]
  <2>1. c \in Records /\ pushes' = Pushed(e) /\ todo' = todo \ {e} /\ e \in todo /\ step = "push"
    BY <1>1, <1>2 DEF Post
  <2>2. UNCHANGED <<lines, offset, saved, at, step>>
    BY <1>2 DEF Post
  <2>3. Ahead(c)
    <3>1. offset[at] + 1 \in 1..Len(lines[at]) /\ offset[at] \in Nat
      BY <1>1, <2>1
    <3>2. offset[at] + 1 > offset[at]
      BY <3>1
    <3>3. QED
      BY <1>1, <3>1, <3>2 DEF Ahead
  <2> HIDE DEF c
  <2>4. \A r \in Records : pushes'[d][r] = IF d = e /\ r = c THEN pushes[d][r] + 1 ELSE pushes[d][r]
    BY <1>1, <2>1 DEF Pushed, Current, c
  <2>5. \A r : Ahead(r)' <=> Ahead(r)
    BY <2>2 DEF Ahead
  <2>6. \A r : InHand(d, r) <=> d \notin todo /\ r = c
    BY <2>1 DEF InHand, c
  <2>7. \A r : InHand(d, r)' <=> (d \notin todo \/ d = e) /\ r = c
    BY <2>1, <2>2 DEF InHand, c
  <2>8. ASSUME NEW r \in Pushable, r \in AtRisk(d)' PROVE r \in AtRisk(d)
    <3>1. r \in Records /\ pushes[d][r] \in Nat
      BY <1>1 DEF Records, Pushable
    <3>2. pushes'[d][r] > 1 \/ (pushes'[d][r] = 1 /\ Ahead(r)' /\ ~InHand(d, r)')
      BY <2>8 DEF AtRisk
    <3>3. CASE d = e /\ r = c
      <4>1. pushes[d][r] = 1 \/ pushes[d][r] > 1
        BY <2>4, <2>7, <3>1, <3>2, <3>3
      <4>2. QED
        BY <2>1, <2>3, <2>6, <3>3, <4>1 DEF AtRisk
    <3>4. CASE ~(d = e /\ r = c)
      BY <2>4, <2>5, <2>6, <2>7, <3>1, <3>2, <3>4 DEF AtRisk
    <3>5. QED
      BY <3>3, <3>4
  <2>9. AtRisk(d)' \subseteq Pushable
    BY DEF AtRisk
  <2>10. QED
    BY <2>8, <2>9
<1>3. CASE ReadLine
  <2>1. UNCHANGED <<lines, offset, saved, pushes>> /\ step = "read"
    BY <1>3 DEF ReadLine
  <2>2. ASSUME NEW r \in Pushable PROVE ~InHand(d, r)'
    BY <1>3, <2>1 DEF InHand, ReadLine
  <2>3. QED
    BY <2>1, <2>2 DEF AtRisk, Ahead, InHand
<1>4. CASE Advance
  <2>1. /\ offset' = [offset EXCEPT ![at] = offset[at] + 1] /\ step = "push" /\ todo = {} /\ step' = "save"
        /\ UNCHANGED <<lines, saved, at, pushes>>
    BY <1>4 DEF Advance, Served
  <2>2. \A f \in Files : offset'[f] \in Nat /\ offset[f] \in Nat /\ offset'[f] >= offset[f]
    BY <1>1, <2>1
  <2>3. ASSUME NEW r, Ahead(r)' PROVE Ahead(r)
    <3>1. PICK f \in Files : \E k \in 1..Len(lines[f]) :
              lines[f][k] = r /\ (k > offset'[f] \/ (saved[f] # None /\ k > saved[f]))
      BY <2>1, <2>3 DEF Ahead
    <3>2. PICK k \in 1..Len(lines[f]) :
              lines[f][k] = r /\ (k > offset'[f] \/ (saved[f] # None /\ k > saved[f]))
      BY <3>1
    <3>3. k > offset[f] \/ (saved[f] # None /\ k > saved[f])
      BY <2>2, <3>2
    <3>4. QED
      BY <3>2, <3>3 DEF Ahead
  <2>4. \A r : InHand(d, r) => InHand(d, r)'
    BY <1>1, <2>1 DEF InHand
  <2>5. QED
    BY <2>1, <2>3, <2>4 DEF AtRisk
<1>5. CASE WriteOffset
  <2>1. /\ UNCHANGED <<lines, offset, pushes>> /\ step = "save" /\ step' = "read"
        /\ saved' = [saved EXCEPT ![at] = offset[at]]
    BY <1>5 DEF WriteOffset, SavedNow
  <2>2. ASSUME NEW r \in Pushable, Ahead(r)' PROVE Ahead(r) /\ ~InHand(d, r)
    <3>1. PICK f \in Files : \E k \in 1..Len(lines[f]) :
              lines[f][k] = r /\ (k > offset[f] \/ (saved'[f] # None /\ k > saved'[f]))
      BY <2>1, <2>2 DEF Ahead
    <3>2. PICK k \in 1..Len(lines[f]) :
              lines[f][k] = r /\ (k > offset[f] \/ (saved'[f] # None /\ k > saved'[f]))
      BY <3>1
    <3>3. /\ f = at => saved'[f] = offset[f]
          /\ f # at => saved'[f] = saved[f]
      BY <1>1, <2>1 DEF TypeInv, TypeOK
    <3>4. offset[at] \in 1..Len(lines[at])
      BY <1>1, <2>1 DEF SavesALine
    <3>5. ASSUME r = lines[at][offset[at]] PROVE FALSE
      <4>1. f = at /\ k = offset[at]
        <5>1. lines[f][k] = lines[at][offset[at]]
          BY <3>2, <3>5
        <5>2. QED
          BY <1>1, <3>2, <3>4, <5>1 DEF EachOnce
      <4>2. QED
        BY <1>1, <3>2, <3>3, <4>1
    <3>6. k > offset[f] \/ (saved[f] # None /\ k > saved[f])
      BY <3>2, <3>3
    <3>7. QED
      BY <2>1, <3>2, <3>5, <3>6 DEF Ahead, InHand
  <2>3. QED
    BY <2>1, <2>2 DEF AtRisk
<1>6. CASE UNCHANGED vars
  BY <1>6 DEF vars, AtRisk, Ahead, InHand
<1>7. QED
  BY <1>2, <1>3, <1>4, <1>5, <1>6

(* A post that fails puts the line being served at risk, and no other.     *)
LEMMA RiskFails ==
    ASSUME TypeInv, NEW e \in Devices, PostFails(e), NEW d \in Devices
    PROVE  AtRisk(d)' \subseteq AtRisk(d) \cup {lines[at][offset[at] + 1]}
<1> DEFINE c == lines[at][offset[at] + 1]
<1>1. /\ step = "push" /\ UNCHANGED <<lines, offset, saved>>
      /\ pushes' = pushes \/ pushes' = Pushed(e)
  BY DEF PostFails, Retry, OffsetAfterFailure
<1>2. c \in Records /\ pushes \in [Devices -> [Records -> Nat]]
  BY <1>1, PushedType DEF TypeInv, TypeOK
<1> HIDE DEF c
<1>3. \A r \in Records : r # c => pushes'[d][r] = pushes[d][r]
  BY <1>1, <1>2 DEF Pushed, Current, c
<1>4. \A r : r # c => ~InHand(d, r)
  BY <1>1 DEF InHand, c
<1>5. \A r : Ahead(r)' <=> Ahead(r)
  BY <1>1 DEF Ahead
<1>6. Pushable \subseteq Records
  BY DEF Pushable, Records
<1>7. QED
  BY <1>3, <1>4, <1>5, <1>6 DEF AtRisk, c

(* A call no push can be made of puts nothing at risk.                     *)
LEMMA RiskRaises ==
    ASSUME TypeInv, Untouched, NEW e \in Devices, PostFails(e), Current \in Incomplete,
           NEW d \in Devices
    PROVE  AtRisk(d)' \subseteq AtRisk(d)
<1>1. /\ step = "push" /\ d \in todo /\ step' = "read"
      /\ UNCHANGED <<lines, offset, saved, pushes>>
  BY DEF PostFails, Retry, OffsetAfterFailure, Hopeless, Untouched
<1>2. \A r : ~InHand(d, r)
  BY <1>1 DEF InHand
<1>3. \A r : Ahead(r)' <=> Ahead(r)
  BY <1>1 DEF Ahead
<1>4. QED
  BY <1>1, <1>2, <1>3 DEF AtRisk

(* A write of an offset that fails puts the line it was about at risk.     *)
LEMMA RiskWriteFails ==
    ASSUME TypeInv, WriteFails, NEW d \in Devices
    PROVE  \E c : AtRisk(d)' \subseteq AtRisk(d) \cup {c}
<1> DEFINE c == lines[at][offset[at]]
<1>1. step = "save" /\ UNCHANGED <<lines, offset, saved, pushes>>
  BY DEF WriteFails
<1>2. \A r : r # c => ~InHand(d, r)
  BY <1>1 DEF InHand
<1> HIDE DEF c
<1>3. \A r : Ahead(r)' <=> Ahead(r)
  BY <1>1 DEF Ahead
<1>4. AtRisk(d)' \subseteq AtRisk(d) \cup {c}
  BY <1>1, <1>2, <1>3 DEF AtRisk
<1>5. QED
  BY <1>4

(* So does a restart with the line being served or finished; it goes back   *)
(* to the offset files, and what is behind them was at risk before.         *)
LEMMA RiskRestart ==
    ASSUME TypeInv, Restart, NEW d \in Devices
    PROVE  \E c : AtRisk(d)' \subseteq AtRisk(d) \cup {c}
<1> USE PushAssumption
<1> DEFINE c == IF step = "push" THEN lines[at][offset[at] + 1] ELSE lines[at][offset[at]]
<1>1. /\ UNCHANGED <<lines, saved, pushes>>
      /\ \A f \in Files : /\ lines[f] \in Seq(Records)
                           /\ offset'[f] = IF saved[f] = None THEN Len(lines[f]) ELSE saved[f]
  BY DEF Restart, StartOffset, TypeInv, TypeOK
<1>2. \A r : r # c => ~InHand(d, r)
  BY DEF InHand
<1>3. ASSUME NEW r, Ahead(r)' PROVE Ahead(r)
  <2>1. PICK f \in Files : \E k \in 1..Len(lines[f]) :
            lines[f][k] = r /\ (k > offset'[f] \/ (saved[f] # None /\ k > saved[f]))
    BY <1>1, <1>3 DEF Ahead
  <2>2. PICK k \in 1..Len(lines[f]) :
            lines[f][k] = r /\ (k > offset'[f] \/ (saved[f] # None /\ k > saved[f]))
    BY <2>1
  <2>3. Len(lines[f]) \in Nat
    BY <1>1
  <2>4. saved[f] # None /\ k > saved[f]
    BY <1>1, <2>2, <2>3
  <2>5. QED
    BY <2>2, <2>4 DEF Ahead
<1> HIDE DEF c
<1>4. AtRisk(d)' \subseteq AtRisk(d) \cup {c}
  BY <1>1, <1>2, <1>3 DEF AtRisk
<1>5. QED
  BY <1>4

(* A fault puts one line more at risk.                                     *)
LEMMA RiskStep ==
    ASSUME Rejected = {}, RepeatInv, [Next]_vars
    PROVE  RiskBounded'
<1>1. TypeInv /\ EachOnce /\ OnlyWritten /\ SavesALine /\ Untouched /\ RiskBounded
  BY DEF RepeatInv
<1>2. failures \in Nat /\ restarts \in Nat
  BY <1>1 DEF TypeInv, TypeOK
<1>3. SUFFICES ASSUME NEW d \in Devices
               PROVE  /\ IsFiniteSet(AtRisk(d)')
                      /\ Cardinality(AtRisk(d)') <= failures' + restarts'
  BY DEF RiskBounded
<1> DEFINE T == AtRisk(d)'
<1>4. CASE T \subseteq AtRisk(d) /\ UNCHANGED <<failures, restarts>>
  BY <1>1, <1>4, RiskKept
<1>5. ASSUME NEW c, T \subseteq AtRisk(d) \cup {c}, failures' + restarts' = failures + restarts + 1
      PROVE  IsFiniteSet(T) /\ Cardinality(T) <= failures' + restarts'
  BY <1>1, <1>5, RiskOfOneMore
<1>6. ASSUME NEW r \in Records, AppendRecord(r)
      PROVE  T \subseteq AtRisk(d) /\ UNCHANGED <<failures, restarts>>
  BY <1>1, <1>6, RiskAppend DEF AppendRecord
<1>7. ASSUME \/ ReadLine \/ Advance \/ WriteOffset \/ UNCHANGED vars
             \/ \E e \in Devices : Post(e)
      PROVE  T \subseteq AtRisk(d) /\ UNCHANGED <<failures, restarts>>
  <2>1. UNCHANGED <<failures, restarts>>
    BY <1>7 DEF ReadLine, Advance, WriteOffset, Post, vars
  <2>2. QED
    BY <1>1, <1>7, <2>1, RiskLoop
<1>8. ASSUME NEW e \in Devices, PostFails(e), Current \notin Incomplete
      PROVE  /\ \E c : T \subseteq AtRisk(d) \cup {c}
             /\ failures' + restarts' = failures + restarts + 1
  <2>1. failures' = failures + 1 /\ restarts' = restarts
    BY <1>8 DEF PostFails, Retry, Hopeless
  <2>2. QED
    BY <1>1, <1>2, <1>8, <2>1, RiskFails
<1>9. ASSUME Restart
      PROVE  /\ \E c : T \subseteq AtRisk(d) \cup {c}
             /\ failures' + restarts' = failures + restarts + 1
  <2>1. failures' = failures /\ restarts' = restarts + 1
    BY <1>9 DEF Restart
  <2>2. QED
    BY <1>1, <1>2, <1>9, <2>1, RiskRestart
<1>10. ASSUME NEW e \in Devices, PostFails(e), Current \in Incomplete
       PROVE  T \subseteq AtRisk(d) /\ UNCHANGED <<failures, restarts>>
  BY <1>1, <1>10, RiskRaises DEF PostFails, Retry, Hopeless
<1>11. ASSUME WriteFails
       PROVE  /\ \E c : T \subseteq AtRisk(d) \cup {c}
              /\ failures' + restarts' = failures + restarts + 1
  <2>1. failures' = failures + 1 /\ restarts' = restarts
    BY <1>11 DEF WriteFails
  <2>2. QED
    BY <1>1, <1>2, <1>11, <2>1, RiskWriteFails
<1> HIDE DEF T
<1>12. IsFiniteSet(T) /\ Cardinality(T) <= failures' + restarts'
  BY <1>4, <1>5, <1>6, <1>7, <1>8, <1>9, <1>10, <1>11 DEF Next, Loop, T
<1>13. QED
  BY <1>12 DEF T

(* No fault replays the file: however posts fail and the notifier starts   *)
(* again, there are at most as many lines a device hears of again as there *)
(* were faults, when Skyglow refuses no device for good (a device it       *)
(* refuses has its line pushed to the others again and again).             *)
THEOREM RepeatsBounded ==
    ASSUME Rejected = {}
    PROVE  Spec => []OneLineRepeated
<1>1. Init => RepeatInv
  BY RepeatInit
<1>2. RepeatInv /\ [Next]_vars => RepeatInv'
  BY TypeStep, OnceStep, WrittenStep, SavedStep, RiskStep DEF RepeatInv
<1>3. RepeatInv => OneLineRepeated
  <2>1. SUFFICES ASSUME RepeatInv, NEW d \in Devices
                 PROVE  Cardinality({r \in Pushable : pushes[d][r] > 1}) <= failures + restarts
    BY DEF OneLineRepeated
  <2>2. {r \in Pushable : pushes[d][r] > 1} \subseteq AtRisk(d)
    BY DEF AtRisk
  <2>3. QED
    BY <2>1, <2>2, RiskKept DEF RepeatInv
<1>4. QED
  BY <1>1, <1>2, <1>3, PTL DEF Spec
=============================================================================

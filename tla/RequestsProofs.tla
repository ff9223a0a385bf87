--------------------------- MODULE RequestsProofs ----------------------------
(***************************************************************************)
(* Proofs about Requests: the relay, the commands, the server, and then    *)
(* all of them together.                                                   *)
(***************************************************************************)
EXTENDS Requests, Sequences, FiniteSets, TLAPS

-----------------------------------------------------------------------------
(* The relay: the calls it answers get its reply first and no other call      *)
(* does, for any number of streams and frames and every interleaving of the   *)
(* two threads.  It rests on the order of two writes: a call is noted in the  *)
(* table before its body leaves for LINE.                                     *)

Frame == [call : Calls, what : {"header", "first", "more"}, last : BOOLEAN]

(* The calls the relay puts its reply to.                                   *)
Answers == intercepted \cap (Calls \ nameless)

(* The first frame of the body of call c is still with the phone, or is     *)
(* taken and not noted.                                                     *)
Ahead(c)  == \E i \in 1..Len(phone) : phone[i].what = "first" /\ phone[i].call = c
Noting(c) == taken.steps = R!BodySteps /\ taken.frame.call = c
Unnoted(c) == c \notin opened \/ Ahead(c) \/ Noting(c)

RelayTypes ==
    /\ intercepted \subseteq Calls /\ nameless \subseteq Calls /\ opened \subseteq Calls
    /\ phone \in Seq(Frame) /\ upstream \in Seq(Frame) /\ downstream \in Seq(Calls)
    /\ taken = R!Free \/ (taken.frame \in Frame /\ taken.steps \in {R!BodySteps, <<"forward">>})
    /\ taken = [frame |-> taken.frame, steps |-> taken.steps]
    /\ streams \subseteq Calls /\ heard \subseteq Calls
    /\ found = R!NoFrame \/ found \in [call : Calls, known : BOOLEAN]
    /\ got \in [Calls -> Seq({"real", "synth"})]

(* What waits at the phone: one first frame per call, in front of the rest  *)
(* of its body, and of a call that is not being noted.                      *)
PhoneInv ==
    /\ \A i \in 1..Len(phone) : /\ phone[i].call \in opened
                                /\ phone[i].what = "header" => ~phone[i].last
    /\ \A i, j \in 1..Len(phone) :
          phone[i].what = "first" /\ phone[j].call = phone[i].call =>
              /\ phone[j].what = "first" => i = j
              /\ phone[j].what = "more" => i < j
    /\ \A c \in Calls : Noting(c) => c \in opened /\ ~Ahead(c)

(* Beyond the table there is nothing of a call that is not noted.           *)
NotedInv ==
    /\ taken.steps = <<"forward">> /\ taken.frame.last => ~Unnoted(taken.frame.call)
    /\ \A i \in 1..Len(upstream) : upstream[i].last => ~Unnoted(upstream[i].call)
    /\ \A c \in heard : ~Unnoted(c)
    /\ \A i \in 1..Len(downstream) : ~Unnoted(downstream[i])
    /\ found # R!NoFrame => ~Unnoted(found.call)
    /\ \A c \in Calls : Unnoted(c) => c \notin streams /\ got[c] = <<>>

(* A call to be answered is in the table until it was.                      *)
TableInv ==
    /\ \A c \in Answers : ~Unnoted(c) => (c \in streams <=> got[c] = <<>>)
    /\ nameless \cap streams = {}
    /\ found # R!NoFrame =>
          /\ found.call \in Answers => (found.known <=> got[found.call] = <<>>)
          /\ found.call \in nameless => ~found.known

RelayInv == RelayTypes /\ PhoneInv /\ NotedInv /\ TableInv /\ R!InterceptedIsSynthesized

(* The initial state: nothing was sent.                                     *)
LEMMA RelayInit ==
    ASSUME R!SpdyRelayAssumption, R!Init
    PROVE  RelayInv
<1>1. RelayTypes
  BY DEF R!Init, RelayTypes, R!Free, R!NoFrame
<1>2. PhoneInv /\ \A c \in Calls : Unnoted(c)
  BY DEF R!Init, PhoneInv, Unnoted, Noting, R!Free, R!BodySteps
<1>3. NotedInv /\ TableInv /\ R!InterceptedIsSynthesized
  BY <1>2 DEF R!Init, NotedInv, TableInv, R!InterceptedIsSynthesized, Answers, R!Free, R!NoFrame
<1>4. QED
  BY <1>1, <1>2, <1>3 DEF RelayInv

(* A call is sent: it stays unnoted, and nothing changes for the others.    *)
LEMMA OpenStep ==
    ASSUME R!SpdyRelayAssumption, RelayInv, NEW c \in Calls, R!Open(c)
    PROVE  RelayInv'
<1> USE DEF RelayInv, R!SpdyRelayAssumption
<1> DEFINE h == [call |-> c, what |-> "header", last |-> FALSE]
           L == Len(phone)
<1>1. PICK n \in 1..MaxFrames : phone' = Append(phone, h) \o R!Body(c, n)
  BY DEF R!Open
<1>2. /\ R!Body(c, n) \in Seq(Frame) /\ Len(R!Body(c, n)) = n
      /\ \A i \in 1..n : /\ R!Body(c, n)[i].call = c
                         /\ i = 1 => R!Body(c, n)[i].what = "first"
                         /\ i # 1 => R!Body(c, n)[i].what = "more"
  BY DEF R!Body, Frame
<1>3. h \in Frame /\ phone \in Seq(Frame) /\ L \in Nat /\ n \in Nat
  BY DEF Frame, RelayTypes
<1>4. /\ phone' \in Seq(Frame) /\ Len(phone') = L + 1 + n
      /\ \A i \in 1..L : phone'[i] = phone[i]
      /\ phone'[L + 1] = h
      /\ \A i \in (L + 2)..(L + 1 + n) :
            /\ phone'[i].call = c
            /\ i = L + 2 => phone'[i].what = "first"
            /\ i # L + 2 => phone'[i].what = "more"
  <2>1. /\ Append(phone, h) \in Seq(Frame) /\ Len(Append(phone, h)) = L + 1
        /\ Append(phone, h)[L + 1] = h
        /\ \A i \in 1..L : Append(phone, h)[i] = phone[i]
    BY <1>3
  <2> DEFINE A == Append(phone, h)
             B == R!Body(c, n)
  <2>2. A \in Seq(Frame) /\ Len(A) = L + 1 /\ B \in Seq(Frame) /\ Len(B) = n
    BY <1>2, <2>1
  <2> HIDE DEF A, B, L
  <2>3. /\ A \o B \in Seq(Frame) /\ Len(A \o B) = L + 1 + n
        /\ \A i \in 1..(L + 1) : (A \o B)[i] = A[i]
        /\ \A i \in (L + 2)..(L + 1 + n) : (A \o B)[i] = B[i - (L + 1)]
    BY <1>3, <2>2, SMTT(30)
  <2>4. \A i \in (L + 2)..(L + 1 + n) : i - (L + 1) \in 1..n /\ (i - (L + 1) = 1 <=> i = L + 2)
    BY <1>3
  <2>5. phone' = A \o B
    BY <1>1 DEF A, B
  <2>6. \A i \in 1..L : i \in 1..(L + 1)
    BY <1>3
  <2>7. L + 1 \in 1..(L + 1)
    BY <1>3
  <2>8. \A i \in 1..L : A[i] = phone[i]
    BY <2>1 DEF A
  <2>9. A[L + 1] = h
    BY <2>1 DEF A
  <2>10. \A i \in (L + 2)..(L + 1 + n) :
            /\ B[i - (L + 1)].call = c
            /\ i = L + 2 => B[i - (L + 1)].what = "first"
            /\ i # L + 2 => B[i - (L + 1)].what = "more"
    BY <1>2, <2>4 DEF B
  <2>11. QED
    BY <2>3, <2>5, <2>6, <2>7, <2>8, <2>9, <2>10
<1> DEFINE Old(i) == i \in 1..L /\ phone'[i] = phone[i]
           Head1(i) == /\ i = L + 1 /\ phone'[i].call = c
                       /\ phone'[i].what = "header" /\ ~phone'[i].last
           First(i) == i = L + 2 /\ phone'[i].call = c /\ phone'[i].what = "first"
           More(i) == i > L + 2 /\ phone'[i].call = c /\ phone'[i].what = "more"
<1>4a. \A i \in 1..Len(phone') : Old(i) \/ Head1(i) \/ First(i) \/ More(i)
  <2>1. ASSUME NEW i \in 1..Len(phone')
        PROVE  i \in 1..L \/ i = L + 1 \/ i = L + 2 \/ (i > L + 2 /\ i \in (L + 2)..(L + 1 + n))
    BY <1>3, <1>4
  <2>2. L + 2 \in (L + 2)..(L + 1 + n)
    BY <1>3
  <2>3. First(L + 2)
    BY <1>4, <2>2
  <2>4. ASSUME NEW i \in (L + 2)..(L + 1 + n), i > L + 2 PROVE More(i)
    BY <1>3, <1>4, <2>4
  <2>5. Head1(L + 1)
    BY <1>4
  <2>6. QED
    BY <1>4, <2>1, <2>3, <2>4, <2>5
<1>4b. \A i \in 1..L : i \in 1..Len(phone')
  BY <1>3, <1>4
<1>4c. L + 2 \in 1..Len(phone') /\ phone'[L + 2].call = c /\ phone'[L + 2].what = "first"
  <2>1. L + 2 \in (L + 2)..(L + 1 + n) /\ L + 2 \in 1..Len(phone')
    BY <1>3, <1>4
  <2>2. QED
    BY <1>4, <2>1
<1> HIDE DEF h, L
<1>5. /\ c \notin opened /\ opened' = opened \cup {c}
      /\ UNCHANGED <<intercepted, nameless, taken, streams, upstream, heard, downstream,
                     found, got>>
  BY DEF R!Open
<1>6. \A d \in Calls \ {c} : Ahead(d)' <=> Ahead(d)
  <2>1. L = Len(phone)
    BY DEF L
  <2>2. QED
    BY <1>4, <1>4a, <1>4b, <2>1 DEF Ahead
<1>7. Ahead(c)'
  BY <1>4c DEF Ahead
<1>8. \A d \in Calls : Unnoted(d)' <=> Unnoted(d)
  BY <1>5, <1>6, <1>7 DEF Unnoted, Noting
<1>9. RelayTypes'
  BY <1>4, <1>5 DEF RelayTypes
<1>10. PhoneInv'
  <2>1. L = Len(phone) /\ \A i \in 1..L : phone[i].call # c
    BY <1>5 DEF PhoneInv, L
  <2>2. ASSUME NEW i \in 1..Len(phone')
        PROVE  /\ phone'[i].call \in opened'
               /\ phone'[i].what = "header" => ~phone'[i].last
    <3>1. CASE Old(i)
      BY <1>5, <2>1, <3>1 DEF PhoneInv
    <3>2. CASE Head1(i) \/ First(i) \/ More(i)
      BY <1>5, <3>2
    <3>3. QED
      BY <1>4a, <3>1, <3>2
  <2>3. ASSUME NEW i \in 1..Len(phone'), NEW j \in 1..Len(phone'),
               phone'[i].what = "first", phone'[j].call = phone'[i].call
        PROVE  /\ phone'[j].what = "first" => i = j
               /\ phone'[j].what = "more" => i < j
    <3>1. Old(i) \/ First(i)
      BY <1>4a, <2>3
    <3>2. CASE Old(i)
      <4>1. Old(j)
        BY <1>4a, <2>1, <2>3, <3>2
      <4>2. QED
        BY <2>1, <2>3, <3>2, <4>1 DEF PhoneInv
    <3>3. CASE First(i)
      <4>1. ~Old(j)
        BY <2>1, <2>3, <3>3
      <4>2. QED
        BY <1>3, <1>4a, <2>3, <3>3, <4>1
    <3>4. QED
      BY <3>1, <3>2, <3>3
  <2>4. \A d \in Calls : Noting(d)' => d \in opened' /\ ~Ahead(d)'
    BY <1>5, <1>6 DEF PhoneInv, Noting
  <2>5. QED
    BY <2>2, <2>3, <2>4 DEF PhoneInv
<1>11. NotedInv' /\ TableInv' /\ R!InterceptedIsSynthesized'
  <2>1. NotedInv'
    <3>1. /\ taken.steps = <<"forward">> => taken.frame.call \in Calls
          /\ \A i \in 1..Len(upstream) : upstream[i].call \in Calls
          /\ \A i \in 1..Len(downstream) : downstream[i] \in Calls
          /\ found # R!NoFrame => found.call \in Calls
          /\ heard \subseteq Calls
      <4>1. taken.steps = <<"forward">> => taken.frame \in Frame
        <5>1. R!Free.steps # <<"forward">>
          <6>1. Len(<<>>) = 0 /\ Len(<<"forward">>) = 1
            OBVIOUS
          <6>2. QED
            BY <6>1 DEF R!Free
        <5>2. QED
          BY <5>1 DEF RelayTypes
      <4>2. \A i \in 1..Len(upstream) : upstream[i] \in Frame
        BY DEF RelayTypes
      <4>3. \A f \in Frame : f.call \in Calls
        BY DEF Frame
      <4>4. /\ \A i \in 1..Len(downstream) : downstream[i] \in Calls
            /\ found # R!NoFrame => found.call \in Calls
            /\ heard \subseteq Calls
        BY DEF RelayTypes
      <4>5. QED
        BY <4>1, <4>2, <4>3, <4>4
    <3>2. QED
      BY <1>5, <1>8, <3>1 DEF NotedInv
  <2>2. TableInv'
    BY <1>5, <1>8 DEF TableInv, Answers
  <2>3. R!InterceptedIsSynthesized'
    BY <1>5 DEF R!InterceptedIsSynthesized
  <2>4. QED
    BY <2>1, <2>2, <2>3
<1>12. QED
  BY <1>9, <1>10, <1>11

(* Two lists of steps are told apart by their lengths.                      *)
LEMMA StepsDiffer ==
    /\ R!Free.steps # <<"forward">> /\ R!Free.steps # R!BodySteps /\ R!BodySteps # <<"forward">>
    /\ Head(R!BodySteps) = "note" /\ Tail(R!BodySteps) = <<"forward">> /\ Len(R!BodySteps) = 2
<1>1. Len(<<>>) = 0 /\ Len(<<"forward">>) = 1 /\ Len(R!BodySteps) = 2
  BY DEF R!BodySteps
<1>2. Head(R!BodySteps) = "note" /\ Tail(R!BodySteps) = <<"forward">>
  BY DEF R!BodySteps
<1>3. QED
  BY <1>1, <1>2 DEF R!Free

(* What is in the sets and sequences are frames and calls.                  *)
LEMMA CallsOf ==
    ASSUME RelayTypes
    PROVE  /\ taken.steps # <<>> => taken.frame \in Frame
           /\ \A i \in 1..Len(upstream) : upstream[i] \in Frame
           /\ \A i \in 1..Len(phone) : phone[i] \in Frame
           /\ \A i \in 1..Len(downstream) : downstream[i] \in Calls
           /\ found # R!NoFrame => found.call \in Calls /\ found.known \in BOOLEAN
           /\ \A f \in Frame : f.call \in Calls
<1>1. taken.steps # <<>> => taken.frame \in Frame
  BY DEF RelayTypes, R!Free
<1>2. /\ \A i \in 1..Len(upstream) : upstream[i] \in Frame
      /\ \A i \in 1..Len(phone) : phone[i] \in Frame
      /\ \A i \in 1..Len(downstream) : downstream[i] \in Calls
  BY DEF RelayTypes
<1>3. found # R!NoFrame => found.call \in Calls /\ found.known \in BOOLEAN
  BY DEF RelayTypes
<1>4. \A f \in Frame : f.call \in Calls
  BY DEF Frame
<1>5. QED
  BY <1>1, <1>2, <1>3, <1>4

(* The first thread takes a frame: what was not noted still is not.         *)
LEMMA TakeStep ==
    ASSUME RelayInv, R!Take
    PROVE  RelayInv'
<1> USE DEF RelayInv
<1> DEFINE f == Head(phone)
           L == Len(phone)
           st == IF f.what = "first" THEN R!BodySteps ELSE <<"forward">>
<1>1. /\ phone \in Seq(Frame) /\ phone # <<>> /\ taken = R!Free /\ phone' = Tail(phone)
      /\ taken' = [frame |-> f, steps |-> st]
      /\ UNCHANGED <<intercepted, nameless, opened, streams, upstream, heard, downstream,
                     found, got>>
  BY DEF R!Take, RelayTypes
<1>2. /\ f \in Frame /\ f = phone[1] /\ L \in Nat \ {0} /\ Tail(phone) \in Seq(Frame)
      /\ Len(phone') = L - 1
      /\ \A i \in 1..(L - 1) : phone'[i] = phone[i + 1] /\ i + 1 \in 1..L
      /\ 1 \in 1..L
  BY <1>1
<1>3. /\ f.call \in Calls /\ f.what \in {"header", "first", "more"} /\ f.call \in opened
      /\ f.what = "header" => ~f.last
  BY <1>2 DEF Frame, PhoneInv
<1>4. \A d \in Calls : Noting(d)' <=> (f.what = "first" /\ f.call = d)
  BY <1>1, StepsDiffer DEF Noting
<1>5. \A d \in Calls : ~Noting(d)
  BY <1>1, StepsDiffer DEF Noting
<1>6. \A d \in Calls : Ahead(d)' => Ahead(d)
  BY <1>2 DEF Ahead
<1>7. \A d \in Calls : Ahead(d) => Ahead(d)' \/ Noting(d)'
  <2> SUFFICES ASSUME NEW d \in Calls, Ahead(d) PROVE Ahead(d)' \/ Noting(d)'
    OBVIOUS
  <2>1. PICK i \in 1..L : phone[i].what = "first" /\ phone[i].call = d
    BY DEF Ahead
  <2>2. CASE i = 1
    BY <1>2, <1>4, <2>1, <2>2
  <2>3. CASE i # 1
    <3>1. i - 1 \in 1..Len(phone') /\ phone'[i - 1] = phone[i]
      BY <1>2, <2>3
    <3>2. QED
      BY <2>1, <3>1 DEF Ahead
  <2>4. QED
    BY <2>2, <2>3
<1>8. \A d \in Calls : Noting(d)' => Ahead(d) /\ ~Ahead(d)'
  <2> SUFFICES ASSUME NEW d \in Calls, f.what = "first", f.call = d
               PROVE  Ahead(d) /\ ~Ahead(d)'
    BY <1>4
  <2>1. Ahead(d)
    BY <1>2 DEF Ahead
  <2>2. ASSUME NEW i \in 1..(L - 1), phone'[i].what = "first", phone'[i].call = d PROVE FALSE
    <3>1. phone[i + 1].what = "first" /\ phone[i + 1].call = d /\ i + 1 \in 1..L
      BY <1>2, <2>2
    <3>2. i + 1 = 1
      BY <1>2, <3>1 DEF PhoneInv
    <3>3. QED
      BY <1>2, <3>2
  <2>3. QED
    BY <1>2, <2>1, <2>2 DEF Ahead
<1>9. \A d \in Calls : Unnoted(d)' <=> Unnoted(d)
  BY <1>1, <1>5, <1>6, <1>7, <1>8 DEF Unnoted
<1>10. taken'.steps = <<"forward">> /\ taken'.frame.last => ~Unnoted(f.call)
  <2> SUFFICES ASSUME f.what # "first", f.last PROVE ~Unnoted(f.call)
    BY <1>1, StepsDiffer
  <2>1. f.what = "more"
    BY <1>3
  <2>2. ~Ahead(f.call)
    <3> SUFFICES ASSUME NEW i \in 1..L, phone[i].what = "first", phone[i].call = f.call
                 PROVE  FALSE
      BY DEF Ahead
    <3>1. i < 1
      BY <1>2, <2>1 DEF PhoneInv
    <3>2. QED
      BY <1>2, <3>1
  <2>3. QED
    BY <1>3, <1>5, <2>2 DEF Unnoted
<1>11. RelayTypes'
  <2>1. taken' = [frame |-> taken'.frame, steps |-> taken'.steps]
        /\ taken'.frame \in Frame /\ taken'.steps \in {R!BodySteps, <<"forward">>}
    BY <1>1, <1>2
  <2>2. QED
    BY <1>1, <1>2, <2>1 DEF RelayTypes
<1>12. PhoneInv'
  <2>1. ASSUME NEW i \in 1..Len(phone')
        PROVE  /\ phone'[i].call \in opened'
               /\ phone'[i].what = "header" => ~phone'[i].last
    BY <1>1, <1>2 DEF PhoneInv
  <2>2. ASSUME NEW i \in 1..Len(phone'), NEW j \in 1..Len(phone'),
               phone'[i].what = "first", phone'[j].call = phone'[i].call
        PROVE  /\ phone'[j].what = "first" => i = j
               /\ phone'[j].what = "more" => i < j
    <3>1. /\ phone[j + 1].what = "first" => i + 1 = j + 1
          /\ phone[j + 1].what = "more" => i + 1 < j + 1
      BY <1>2, <2>2 DEF PhoneInv
    <3>2. QED
      BY <1>2, <3>1
  <2>3. \A d \in Calls : Noting(d)' => d \in opened' /\ ~Ahead(d)'
    BY <1>1, <1>3, <1>4, <1>8
  <2>4. QED
    BY <2>1, <2>2, <2>3 DEF PhoneInv
<1>13. NotedInv'
  BY <1>1, <1>3, <1>9, <1>10, CallsOf DEF NotedInv, RelayTypes
<1>14. TableInv' /\ R!InterceptedIsSynthesized'
  BY <1>1, <1>9 DEF TableInv, R!InterceptedIsSynthesized, Answers
<1>15. QED
  BY <1>11, <1>12, <1>13, <1>14

(* The call is noted: from here on it is in the table until it is answered. *)
LEMMA NoteStep ==
    ASSUME RelayInv, R!Note
    PROVE  RelayInv'
<1> USE DEF RelayInv
<1> DEFINE c == taken.frame.call
<1>1. /\ taken.steps = R!BodySteps /\ taken.frame \in Frame /\ c \in Calls
  <2>1. taken.steps # <<>> /\ Head(taken.steps) = "note"
    BY DEF R!Note, R!Doing
  <2>2. Head(<<"forward">>) # "note"
    OBVIOUS
  <2>3. QED
    BY <2>1, <2>2, CallsOf DEF RelayTypes, R!Free
<1>2. taken' = [taken EXCEPT !.steps = <<"forward">>]
  <2>1. Len(taken.steps) # 1 /\ Tail(taken.steps) = <<"forward">>
    BY <1>1, StepsDiffer
  <2>2. taken' = [taken EXCEPT !.steps = Tail(taken.steps)]
    BY <2>1 DEF R!Note, R!Rest
  <2>3. QED
    BY <2>1, <2>2
<1>3. taken' = [frame |-> taken.frame, steps |-> <<"forward">>]
  BY <1>2 DEF RelayTypes
<1>4. /\ UNCHANGED <<intercepted, nameless, phone, opened, upstream, heard, downstream,
                     found, got>>
      /\ streams' = IF c \in nameless THEN streams ELSE streams \cup {c}
  BY DEF R!Note, R!phoneVars
<1>5. \A d \in Calls : (Noting(d) <=> d = c) /\ ~Noting(d)'
  BY <1>1, <1>3, StepsDiffer DEF Noting
<1>6. c \in opened /\ ~Ahead(c) /\ Unnoted(c)
  BY <1>1, <1>5 DEF PhoneInv, Unnoted
<1>7. \A d \in Calls : (Ahead(d)' <=> Ahead(d)) /\ (Unnoted(d)' <=> Unnoted(d) /\ d # c)
  BY <1>4, <1>5, <1>6 DEF Unnoted, Ahead
<1>8. RelayTypes'
  BY <1>1, <1>3, <1>4 DEF RelayTypes
<1>9. PhoneInv'
  BY <1>4, <1>5 DEF PhoneInv
<1>10. NotedInv'
  <2>1. taken'.frame.call = c
    BY <1>3
  <2>2. QED
    BY <1>1, <1>4, <1>7, <2>1, CallsOf DEF NotedInv, RelayTypes
<1>11. TableInv'
  <2>1. \A d \in Answers : ~Unnoted(d)' => (d \in streams' <=> got'[d] = <<>>)
    BY <1>1, <1>4, <1>6, <1>7 DEF TableInv, NotedInv, Answers
  <2>2. QED
    BY <1>4, <2>1 DEF TableInv, Answers
<1>12. R!InterceptedIsSynthesized'
  BY <1>4 DEF R!InterceptedIsSynthesized
<1>13. QED
  BY <1>8, <1>9, <1>10, <1>11, <1>12

(* The frame leaves for LINE.                                               *)
LEMMA ForwardStep ==
    ASSUME RelayInv, R!Forward
    PROVE  RelayInv'
<1> USE DEF RelayInv
<1>1. taken.steps = <<"forward">> /\ taken.frame \in Frame
  <2>1. taken.steps # <<>> /\ Head(taken.steps) = "forward"
    BY DEF R!Forward, R!Doing
  <2>2. QED
    BY <2>1, StepsDiffer, CallsOf DEF RelayTypes, R!Free
<1>2. taken' = R!Free
  BY <1>1 DEF R!Forward, R!Rest
<1>3. /\ UNCHANGED <<intercepted, nameless, phone, opened, streams, heard, downstream,
                     found, got>>
      /\ upstream' = Append(upstream, taken.frame)
  BY DEF R!Forward, R!phoneVars
<1>4. \A d \in Calls : ~Noting(d) /\ ~Noting(d)'
  BY <1>1, <1>2, StepsDiffer DEF Noting
<1>5. \A d \in Calls : (Ahead(d)' <=> Ahead(d)) /\ (Unnoted(d)' <=> Unnoted(d))
  BY <1>3, <1>4 DEF Unnoted, Ahead
<1>6. /\ upstream' \in Seq(Frame)
      /\ \A i \in 1..Len(upstream') : \/ i \in 1..Len(upstream) /\ upstream'[i] = upstream[i]
                                      \/ upstream'[i] = taken.frame
  BY <1>1, <1>3 DEF RelayTypes
<1>7. RelayTypes'
  BY <1>2, <1>3, <1>6 DEF RelayTypes, R!Free
<1>8. PhoneInv'
  BY <1>3, <1>4 DEF PhoneInv
<1>9. NotedInv'
  <2>1. \A i \in 1..Len(upstream') : upstream'[i].last => ~Unnoted(upstream'[i].call)
    BY <1>1, <1>6 DEF NotedInv
  <2>2. \A i \in 1..Len(upstream') : upstream'[i].call \in Calls
    BY <1>1, <1>6, CallsOf
  <2>3. taken'.steps # <<"forward">>
    BY <1>2, StepsDiffer
  <2>4. QED
    BY <1>3, <1>5, <2>1, <2>2, <2>3, CallsOf DEF NotedInv, RelayTypes
<1>10. TableInv' /\ R!InterceptedIsSynthesized'
  BY <1>3, <1>5 DEF TableInv, R!InterceptedIsSynthesized, Answers
<1>11. QED
  BY <1>7, <1>8, <1>9, <1>10

(* Where the phone's side does not move, a call stays noted or not.         *)
LEMMA SameSide ==
    ASSUME RelayInv, UNCHANGED <<R!phoneVars, taken>>
    PROVE  PhoneInv' /\ \A d : Unnoted(d)' <=> Unnoted(d)
<1>1. \A d : (Ahead(d)' <=> Ahead(d)) /\ (Noting(d)' <=> Noting(d))
  BY DEF R!phoneVars, Ahead, Noting
<1>2. \A d : Unnoted(d)' <=> Unnoted(d)
  BY <1>1 DEF Unnoted, R!phoneVars
<1>3. PhoneInv'
  BY <1>1 DEF RelayInv, PhoneInv, R!phoneVars
<1>4. QED
  BY <1>2, <1>3

(* There, what is new beyond the table must be of calls that were noted.    *)
LEMMA NotedKept ==
    ASSUME RelayInv, UNCHANGED <<R!phoneVars, taken>>,
           \A i \in 1..Len(upstream') : upstream'[i].last => ~Unnoted(upstream'[i].call),
           \A c \in heard' : ~Unnoted(c),
           \A i \in 1..Len(downstream') : ~Unnoted(downstream'[i]),
           found' # R!NoFrame => ~Unnoted(found'.call),
           \A c \in Calls : Unnoted(c) => c \notin streams' /\ got'[c] = <<>>
    PROVE  NotedInv'
<1>1. \A d : Unnoted(d)' <=> Unnoted(d)
  BY SameSide
<1>2. taken.steps = <<"forward">> /\ taken.frame.last => ~Unnoted(taken.frame.call)
  BY DEF RelayInv, NotedInv
<1>3. taken'.steps = <<"forward">> /\ taken'.frame.last => ~Unnoted(taken'.frame.call)
  BY <1>2
<1>4. QED
  BY <1>1, <1>3 DEF NotedInv

(* The other thread puts the relay's reply in the place of a frame.         *)
LEMMA PassOnStep ==
    ASSUME RelayInv, R!PassOn
    PROVE  RelayInv'
<1> USE DEF RelayInv
<1> DEFINE c == found.call
           synth == found.known /\ c \in intercepted
           frame == IF synth THEN "synth" ELSE "real"
<1>1. /\ found # R!NoFrame /\ found' = R!NoFrame
      /\ got' = [got EXCEPT ![c] = Append(got[c], frame)]
      /\ streams' = IF synth THEN streams \ {c} ELSE streams
      /\ UNCHANGED <<R!phoneVars, taken, upstream, heard, downstream>>
  BY DEF R!PassOn
<1>2. c \in Calls /\ found.known \in BOOLEAN
  BY <1>1, CallsOf
<1>3. got[c] \in Seq({"real", "synth"}) /\ frame \in {"real", "synth"}
  BY <1>2 DEF RelayTypes
<1>4. /\ got'[c] = Append(got[c], frame) /\ got'[c] # <<>>
      /\ \A d \in Calls \ {c} : got'[d] = got[d]
      /\ got' \in [Calls -> Seq({"real", "synth"})]
  <2>1. got \in [Calls -> Seq({"real", "synth"})]
    BY DEF RelayTypes
  <2>2. Append(got[c], frame) \in Seq({"real", "synth"}) /\ Append(got[c], frame) # <<>>
    BY <1>3
  <2> HIDE DEF frame
  <2>3. got'[c] = Append(got[c], frame) /\ \A d \in Calls \ {c} : got'[d] = got[d]
    BY <1>1, <1>2, <2>1
  <2>4. got' \in [Calls -> Seq({"real", "synth"})]
    BY <1>1, <1>2, <2>1, <2>2
  <2>5. QED
    BY <2>2, <2>3, <2>4
<1>5. ~Unnoted(c)
  BY <1>1, <1>2 DEF NotedInv
<1>6. synth <=> c \in Answers /\ got[c] = <<>>
  BY <1>1, <1>2 DEF TableInv, Answers
<1>7. RelayTypes'
  BY <1>1, <1>4 DEF RelayTypes, R!phoneVars
<1>8. NotedInv'
  <2>1. \A d \in Calls : Unnoted(d) => d \notin streams' /\ got'[d] = <<>>
    BY <1>1, <1>4, <1>5 DEF NotedInv
  <2>2. /\ \A i \in 1..Len(upstream) : upstream[i].last => ~Unnoted(upstream[i].call)
        /\ \A d \in heard : ~Unnoted(d)
        /\ \A i \in 1..Len(downstream) : ~Unnoted(downstream[i])
    BY DEF NotedInv
  <2>3. QED
    BY <1>1, <2>1, <2>2, NotedKept
<1>9. TableInv'
  <2>1. \A d \in Answers : ~Unnoted(d)' => (d \in streams' <=> got'[d] = <<>>)
    BY <1>1, <1>4, <1>5, <1>6, SameSide DEF TableInv, Answers
  <2>2. QED
    BY <1>1, <2>1 DEF TableInv, Answers, R!phoneVars
<1>10. R!InterceptedIsSynthesized'
  <2> SUFFICES ASSUME NEW d \in Calls, NEW i \in 1..Len(got'[d])
               PROVE  (got'[d][i] = "synth") <=> (i = 1 /\ d \in Answers)
    BY <1>1 DEF R!InterceptedIsSynthesized, Answers, R!phoneVars
  <2>1. CASE d # c
    BY <1>4, <2>1 DEF R!InterceptedIsSynthesized, Answers
  <2>2. CASE d = c /\ i \in 1..Len(got[c])
    <3> HIDE DEF frame
    <3>1. got'[d][i] = got[c][i]
      <4>1. \A q \in Seq({"real", "synth"}), e \in {"real", "synth"} :
                \A j \in 1..Len(q) : Append(q, e)[j] = q[j]
        OBVIOUS
      <4>2. got'[d] = Append(got[c], frame) /\ i \in 1..Len(got[c])
        BY <1>4, <2>2
      <4>3. QED
        BY <1>3, <4>1, <4>2
    <3>2. QED
      BY <2>2, <3>1, <1>2 DEF R!InterceptedIsSynthesized, Answers
  <2>3. CASE d = c /\ i \notin 1..Len(got[c])
    <3>1. i = Len(got[c]) + 1 /\ got'[d][i] = frame
      BY <1>3, <1>4, <2>3
    <3>2. i = 1 <=> got[c] = <<>>
      BY <1>3, <3>1
    <3>3. QED
      BY <1>6, <2>3, <3>1, <3>2
  <2>4. QED
    BY <2>1, <2>2, <2>3
<1>11. QED
  BY <1>1, <1>7, <1>8, <1>9, <1>10, SameSide

(* LINE takes frames and replies to what it heard; a frame is looked up.    *)
LEMMA LineStep ==
    ASSUME RelayInv, R!Arrive \/ R!Lookup \/ \E c \in Calls : R!Reply(c)
    PROVE  RelayInv'
<1> USE DEF RelayInv
<1>1. UNCHANGED <<R!phoneVars, taken, streams, got>>
  BY DEF R!Arrive, R!Lookup, R!Reply
<1>2. R!InterceptedIsSynthesized' /\ \A d \in Answers : ~Unnoted(d)' => (d \in streams' <=> got'[d] = <<>>)
  BY <1>1, SameSide DEF TableInv, R!InterceptedIsSynthesized, Answers, R!phoneVars
<1>3. CASE R!Arrive
  <2>1. /\ upstream # <<>> /\ upstream' = Tail(upstream)
        /\ UNCHANGED <<downstream, found>>
        /\ heard' = IF Head(upstream).last THEN heard \cup {Head(upstream).call} ELSE heard
    BY <1>3 DEF R!Arrive
  <2>2. /\ upstream' \in Seq(Frame) /\ Head(upstream) = upstream[1] /\ 1 \in 1..Len(upstream)
        /\ \A i \in 1..Len(upstream') : i + 1 \in 1..Len(upstream) /\ upstream'[i] = upstream[i + 1]
    BY <2>1 DEF RelayTypes
  <2>3. \A d \in heard' : d \in Calls /\ ~Unnoted(d)
    <3> DEFINE f == Head(upstream)
    <3>1. f.call \in Calls /\ (f.last => ~Unnoted(f.call))
      BY <2>2, CallsOf DEF NotedInv
    <3>2. \A d \in heard : d \in Calls /\ ~Unnoted(d)
      BY DEF NotedInv, RelayTypes
    <3>3. heard' = IF f.last THEN heard \cup {f.call} ELSE heard
      BY <2>1
    <3> HIDE DEF f
    <3>4. QED
      BY <3>1, <3>2, <3>3
  <2>4. \A i \in 1..Len(upstream') : /\ upstream'[i].call \in Calls
                                     /\ upstream'[i].last => ~Unnoted(upstream'[i].call)
    BY <2>2, CallsOf DEF NotedInv
  <2>5. RelayTypes'
    BY <1>1, <2>1, <2>2, <2>3 DEF RelayTypes, R!phoneVars
  <2>6. NotedInv'
    <3>1. /\ \A i \in 1..Len(downstream) : ~Unnoted(downstream[i])
          /\ found # R!NoFrame => ~Unnoted(found.call)
          /\ \A d \in Calls : Unnoted(d) => d \notin streams /\ got[d] = <<>>
      BY DEF NotedInv
    <3>2. QED
      BY <1>1, <2>1, <2>3, <2>4, <3>1, NotedKept
  <2>7. TableInv'
    BY <1>1, <1>2, <2>1 DEF TableInv, Answers, R!phoneVars
  <2>8. QED
    BY <1>1, <1>2, <2>5, <2>6, <2>7, SameSide
<1>4. CASE R!Lookup
  <2>1. /\ found = R!NoFrame /\ downstream # <<>> /\ downstream' = Tail(downstream)
        /\ UNCHANGED <<upstream, heard>>
        /\ found' = [call |-> Head(downstream), known |-> Head(downstream) \in streams]
    BY <1>4 DEF R!Lookup
  <2>2. /\ downstream' \in Seq(Calls) /\ Head(downstream) = downstream[1]
        /\ 1 \in 1..Len(downstream)
        /\ \A i \in 1..Len(downstream') : /\ i + 1 \in 1..Len(downstream)
                                          /\ downstream'[i] = downstream[i + 1]
    BY <2>1 DEF RelayTypes
  <2>3. /\ found'.call \in Calls /\ ~Unnoted(found'.call)
        /\ found'.known <=> found'.call \in streams
        /\ found' \in [call : Calls, known : BOOLEAN]
    <3>1. Head(downstream) \in Calls /\ ~Unnoted(Head(downstream))
      BY <2>2, CallsOf DEF NotedInv
    <3>2. found'.call = Head(downstream) /\ found'.known = (Head(downstream) \in streams)
      BY <2>1
    <3>3. found' \in [call : Calls, known : BOOLEAN]
      BY <2>1, <3>1
    <3>4. QED
      BY <3>1, <3>2, <3>3
  <2>4. \A i \in 1..Len(downstream') : downstream'[i] \in Calls /\ ~Unnoted(downstream'[i])
    BY <2>2, CallsOf DEF NotedInv
  <2>5. RelayTypes'
    BY <1>1, <2>1, <2>2, <2>3 DEF RelayTypes, R!phoneVars
  <2>6. NotedInv'
    <3>1. /\ \A i \in 1..Len(upstream) : upstream[i].last => ~Unnoted(upstream[i].call)
          /\ \A d \in heard : ~Unnoted(d)
          /\ \A d \in Calls : Unnoted(d) => d \notin streams /\ got[d] = <<>>
      BY DEF NotedInv
    <3>2. QED
      BY <1>1, <2>1, <2>3, <2>4, <3>1, NotedKept
  <2>7. TableInv'
    BY <1>1, <1>2, <2>3 DEF TableInv, Answers, R!phoneVars
  <2>8. QED
    BY <1>1, <1>2, <2>5, <2>6, <2>7, SameSide
<1>5. ASSUME NEW c \in Calls, R!Reply(c) PROVE RelayInv'
  <2>1. c \in heard /\ downstream' = Append(downstream, c) /\ UNCHANGED <<upstream, heard,
  found>>
    BY <1>5 DEF R!Reply
  <2>2. /\ downstream' \in Seq(Calls)
        /\ \A i \in 1..Len(downstream') :
              \/ i \in 1..Len(downstream) /\ downstream'[i] = downstream[i]
              \/ downstream'[i] = c
    BY <2>1 DEF RelayTypes
  <2>3. \A i \in 1..Len(downstream') : downstream'[i] \in Calls /\ ~Unnoted(downstream'[i])
    BY <2>1, <2>2, CallsOf DEF NotedInv
  <2>4. RelayTypes'
    BY <1>1, <2>1, <2>2 DEF RelayTypes, R!phoneVars
  <2>5. NotedInv'
    <3>1. /\ \A i \in 1..Len(upstream) : upstream[i].last => ~Unnoted(upstream[i].call)
          /\ \A d \in heard : ~Unnoted(d)
          /\ found # R!NoFrame => ~Unnoted(found.call)
          /\ \A d \in Calls : Unnoted(d) => d \notin streams /\ got[d] = <<>>
      BY DEF NotedInv
    <3>2. QED
      BY <1>1, <2>1, <2>3, <3>1, NotedKept
  <2>6. TableInv'
    BY <1>1, <1>2, <2>1 DEF TableInv, Answers, R!phoneVars
  <2>7. QED
    BY <1>1, <1>2, <2>4, <2>5, <2>6, SameSide
<1>6. QED
  BY <1>3, <1>4, <1>5

(* Every step keeps all this.                                               *)
LEMMA RelayStep ==
    ASSUME R!SpdyRelayAssumption, RelayInv, [R!Next]_(R!vars)
    PROVE  RelayInv'
<1>1. CASE UNCHANGED R!vars
  <2>1. /\ UNCHANGED <<R!phoneVars, taken, streams, upstream, heard, downstream, found, got>>
    BY <1>1 DEF R!vars
  <2>2. PhoneInv' /\ \A d : Unnoted(d)' <=> Unnoted(d)
    BY <2>1, SameSide
  <2>3. RelayTypes'
    BY <2>1 DEF R!phoneVars, RelayInv, RelayTypes
  <2>4. NotedInv'
    BY <2>1, <2>2 DEF RelayInv, NotedInv
  <2>5. TableInv' /\ R!InterceptedIsSynthesized'
    BY <2>1, <2>2 DEF R!phoneVars, RelayInv, TableInv, Answers, R!InterceptedIsSynthesized
  <2>6. QED
    BY <2>2, <2>3, <2>4, <2>5 DEF RelayInv
<1>2. CASE R!Next
  BY <1>2, OpenStep, TakeStep, NoteStep, ForwardStep, PassOnStep, LineStep DEF R!Next
<1>3. QED
  BY <1>1, <1>2

-----------------------------------------------------------------------------
(* The commands: the queue keeps the order of the requests of a task, so the *)
(* result of the last one comes when none of the earlier ones is left.       *)

Attempts == [task : Tasks, try : Nat]
Outcomes == [request : Attempts, ok : BOOLEAN, fields : SUBSET {"chatMid"}]

GroupTypes ==
    /\ phone \in [Tasks -> {"idle", "waiting", "done", "failed"}] /\ tries \in [Tasks -> Nat]
    /\ queue \in Seq(Attempts) /\ results \subseteq Outcomes
    /\ performed \in [Tasks -> Nat] /\ errors \in Nat /\ timeouts \in Nat

(* Requests of a task are queued and answered in the order they were made.   *)
InOrder ==
    /\ \A i \in 1..Len(queue) : queue[i].try <= tries[queue[i].task]
    /\ \A i, j \in 1..Len(queue) :
          i < j /\ queue[i].task = queue[j].task => queue[i].try < queue[j].try
    /\ \A x \in results : \A i \in 1..Len(queue) :
          queue[i].task = x.request.task => x.request.try < queue[i].try
    /\ \A x \in results : x.request.try <= tries[x.request.task]

(* What succeeded was done; while LINE refuses nothing, only what the bridge *)
(* does not know fails, and that is not done.                                *)
Known(t) == G!CommandOf(t) \in G!Supported
NoCreation == \A t \in Tasks : MethodOf[t] # "createGroup"
OutcomesTrue ==
    /\ \A x \in results : x.ok => performed[x.request.task] > 0
    /\ \A t \in Tasks : ~Known(t) => performed[t] = 0
    /\ errors = 0 => \A x \in results : Known(x.request.task) => x.ok
    /\ NoCreation /\ errors = 0 /\ timeouts = 0 =>
          \A t \in Tasks : phone[t] = "failed" => ~Known(t)

GroupInv == GroupTypes /\ InOrder /\ OutcomesTrue /\ G!DoneMeansPerformed

LEMMA GroupInit ==
    ASSUME G!Init
    PROVE  GroupInv
<1> USE DEF G!Init
<1>1. GroupTypes
  BY DEF GroupTypes
<1>2. Len(queue) = 0
  OBVIOUS
<1>3. InOrder /\ OutcomesTrue /\ G!DoneMeansPerformed
  BY <1>2 DEF InOrder, OutcomesTrue, G!DoneMeansPerformed
<1>4. QED
  BY <1>1, <1>3 DEF GroupInv

(* A new request is the last of the queue, and the last of its task.         *)
LEMMA DispatchStep ==
    ASSUME GroupInv, NEW t \in Tasks, G!Dispatch(t)
    PROVE  GroupInv'
<1> DEFINE q == [task |-> t, try |-> tries[t] + 1]
<1>1. /\ tries' = [tries EXCEPT ![t] = tries[t] + 1] /\ queue' = Append(queue, q)
      /\ phone' = [phone EXCEPT ![t] = "waiting"]
      /\ UNCHANGED <<results, performed, errors, timeouts>>
  BY DEF G!Dispatch
<1>2. /\ phone \in [Tasks -> {"idle", "waiting", "done", "failed"}] /\ tries \in [Tasks -> Nat]
      /\ queue \in Seq(Attempts) /\ results \subseteq Outcomes
  BY DEF GroupInv, GroupTypes
<1>3. tries[t] \in Nat /\ q \in Attempts /\ q.task = t /\ q.try = tries[t] + 1
  BY <1>2 DEF Attempts
<1> HIDE DEF q
<1>4. /\ queue' \in Seq(Attempts) /\ Len(queue') = Len(queue) + 1 /\ Len(queue) \in Nat
      /\ \A i \in 1..Len(queue) : queue'[i] = queue[i] /\ queue[i] \in Attempts
      /\ queue'[Len(queue) + 1] = q
  BY <1>1, <1>2, <1>3
<1>5. \A i \in 1..Len(queue') : i \in 1..Len(queue) \/ (i = Len(queue) + 1 /\ queue'[i] = q)
  BY <1>4
<1>6. /\ tries'[t] = tries[t] + 1
      /\ \A u \in Tasks : tries'[u] \in Nat /\ tries[u] \in Nat /\ tries[u] <= tries'[u]
  BY <1>1, <1>2
<1>7. /\ phone'[t] = "waiting" /\ phone[t] # "done"
      /\ \A u \in Tasks \ {t} : phone'[u] = phone[u]
  BY <1>1, <1>2 DEF G!Dispatch
<1>8. \A a \in Attempts : a.task \in Tasks /\ a.try \in Nat
  BY DEF Attempts
<1>9. \A x \in results : x.request.task \in Tasks /\ x.request.try \in Nat
  BY <1>2 DEF Outcomes, Attempts
<1>10. GroupTypes'
  <2>1. tries' \in [Tasks -> Nat] /\ phone' \in [Tasks -> {"idle", "waiting", "done", "failed"}]
    BY <1>1, <1>2
  <2>2. QED
    BY <1>1, <1>4, <2>1 DEF GroupInv, GroupTypes
<1>11. /\ \A i \in 1..Len(queue) : queue[i].try <= tries[queue[i].task]
       /\ \A x \in results : x.request.try <= tries[x.request.task]
  BY DEF GroupInv, InOrder
<1>12. InOrder'
  <2>1. \A i \in 1..Len(queue') : queue'[i].try <= tries'[queue'[i].task]
    BY <1>3, <1>4, <1>5, <1>6, <1>8, <1>11
  <2>2. ASSUME NEW i \in 1..Len(queue'), NEW j \in 1..Len(queue'), i < j,
               queue'[i].task = queue'[j].task
        PROVE  queue'[i].try < queue'[j].try
    <3>1. i \in 1..Len(queue) /\ queue'[i] = queue[i]
      BY <1>4, <1>5, <2>2
    <3>2. CASE j \in 1..Len(queue)
      BY <1>4, <2>2, <3>1, <3>2 DEF GroupInv, InOrder
    <3>3. CASE queue'[j] = q
      <4>1. queue[i].task = t /\ queue[i].try <= tries[t] /\ queue[i].try \in Nat
        BY <1>3, <1>4, <1>8, <1>11, <2>2, <3>1, <3>3
      <4>2. QED
        BY <1>3, <3>1, <3>3, <4>1
    <3>4. QED
      BY <1>5, <3>2, <3>3
  <2>3. ASSUME NEW x \in results, NEW i \in 1..Len(queue'), queue'[i].task = x.request.task
        PROVE  x.request.try < queue'[i].try
    <3>1. CASE i \in 1..Len(queue)
      BY <1>4, <2>3, <3>1 DEF GroupInv, InOrder
    <3>2. CASE queue'[i] = q
      BY <1>3, <1>9, <1>11, <2>3, <3>2
    <3>3. QED
      BY <1>5, <3>1, <3>2
  <2>4. \A x \in results : x.request.try <= tries'[x.request.task]
    BY <1>6, <1>9, <1>11
  <2>5. QED
    BY <1>1, <2>1, <2>2, <2>3, <2>4 DEF InOrder
<1>13. OutcomesTrue'
  BY <1>1, <1>7 DEF GroupInv, OutcomesTrue, Known, G!CommandOf
<1>14. G!DoneMeansPerformed'
  <2> SUFFICES ASSUME NEW u \in Tasks, phone'[u] = "done"
               PROVE  performed[u] > 0 /\ \A i \in 1..Len(queue') : queue'[i].task # u
    BY <1>1 DEF G!DoneMeansPerformed
  <2>1. u # t /\ phone[u] = "done"
    BY <1>7
  <2>2. QED
    BY <1>3, <1>4, <1>5, <2>1 DEF GroupInv, G!DoneMeansPerformed
<1>15. QED
  BY <1>10, <1>12, <1>13, <1>14 DEF GroupInv

(* The bridge takes the first request.                                       *)
LEMMA HandleStep ==
    ASSUME GroupInv, G!HandleCommand
    PROVE  GroupInv'
<1> DEFINE r == Head(queue)
<1>1. /\ queue # <<>> /\ queue' = Tail(queue) /\ UNCHANGED <<phone, tries, timeouts>>
      /\ phone \in [Tasks -> {"idle", "waiting", "done", "failed"}] /\ tries \in [Tasks -> Nat]
      /\ queue \in Seq(Attempts) /\ results \subseteq Outcomes
      /\ performed \in [Tasks -> Nat] /\ errors \in Nat /\ timeouts \in Nat
  BY DEF G!HandleCommand, GroupInv, GroupTypes
<1>2. /\ r \in Attempts /\ r = queue[1] /\ 1 \in 1..Len(queue) /\ Len(queue) \in Nat
      /\ queue' \in Seq(Attempts) /\ Len(queue') = Len(queue) - 1
      /\ \A i \in 1..Len(queue') : i + 1 \in 1..Len(queue) /\ queue'[i] = queue[i + 1]
      /\ \A i \in 1..Len(queue) : queue[i] \in Attempts
  BY <1>1
<1>3. r.task \in Tasks /\ r.try \in Nat
  BY <1>2 DEF Attempts
<1>4. PICK does \in BOOLEAN, tells \in BOOLEAN :
         /\ Known(r.task) \/ ~(does \/ tells)
         /\ results' = results \cup {G!Result(r, does /\ tells)}
         /\ performed' = IF does THEN [performed EXCEPT ![r.task] = performed[r.task] + 1]
                         ELSE performed
         /\ errors' = IF Known(r.task) /\ ~(does /\ tells) THEN errors + 1 ELSE errors
  BY DEF G!HandleCommand, Known
<1> DEFINE y == G!Result(r, does /\ tells)
<1>5. /\ y \in Outcomes /\ y.request = r /\ y.ok = (does /\ tells) /\ results' = results \cup {y}
  BY <1>2, <1>4 DEF Outcomes, G!Result
<1> HIDE DEF r, y
<1>6. /\ \A u \in Tasks : /\ performed'[u] >= performed[u] /\ performed[u] \in Nat
                          /\ performed'[u] \in Nat
                          /\ u # r.task => performed'[u] = performed[u]
      /\ does => performed'[r.task] > 0
      /\ ~does => performed' = performed
      /\ performed' \in [Tasks -> Nat]
  BY <1>1, <1>3, <1>4
<1>7. errors' \in Nat /\ (errors' = 0 => errors = 0 /\ (Known(r.task) => y.ok))
  BY <1>1, <1>4, <1>5
<1>8. \A x \in results : x.request \in Attempts /\ x.request.task \in Tasks
                        /\ x.request.try \in Nat /\ x.ok \in BOOLEAN
  BY <1>1 DEF Outcomes, Attempts
<1>9. GroupTypes'
  BY <1>1, <1>2, <1>5, <1>6, <1>7 DEF GroupTypes
<1>10. InOrder'
  <2>1. \A i \in 1..Len(queue') : queue'[i].try <= tries[queue'[i].task]
    BY <1>2 DEF GroupInv, InOrder
  <2>2. ASSUME NEW i \in 1..Len(queue'), NEW j \in 1..Len(queue'), i < j,
               queue'[i].task = queue'[j].task
        PROVE  queue'[i].try < queue'[j].try
    <3>1. i + 1 < j + 1 /\ i + 1 \in 1..Len(queue) /\ j + 1 \in 1..Len(queue)
      BY <1>2, <2>2
    <3>2. QED
      BY <1>2, <2>2, <3>1 DEF GroupInv, InOrder
  <2>3. ASSUME NEW x \in results', NEW i \in 1..Len(queue'), queue'[i].task = x.request.task
        PROVE  x.request.try < queue'[i].try
    <3>1. CASE x \in results
      BY <1>2, <2>3, <3>1 DEF GroupInv, InOrder
    <3>2. CASE x = y
      <4>1. queue[1].task = queue[i + 1].task /\ 1 < i + 1 /\ i + 1 \in 1..Len(queue)
        BY <1>2, <1>5, <2>3, <3>2
      <4>2. queue[1].try < queue[i + 1].try
        BY <1>2, <4>1 DEF GroupInv, InOrder
      <4>3. QED
        BY <1>2, <1>5, <3>2, <4>2
    <3>3. QED
      BY <1>5, <2>3, <3>1, <3>2
  <2>4. ASSUME NEW x \in results' PROVE x.request.try <= tries[x.request.task]
    BY <1>2, <1>5 DEF GroupInv, InOrder
  <2>5. QED
    BY <1>1, <2>1, <2>2, <2>3, <2>4 DEF InOrder
<1>11. OutcomesTrue'
  <2>1. \A u \in Tasks : (Known(u)' <=> Known(u))
    BY DEF Known, G!CommandOf
  <2>2. ASSUME NEW x \in results', x.ok PROVE performed'[x.request.task] > 0
    <3>1. CASE x \in results
      <4>1. performed[x.request.task] > 0 /\ x.request.task \in Tasks
        BY <1>8, <2>2, <3>1 DEF GroupInv, OutcomesTrue
      <4>2. QED
        BY <1>6, <4>1
    <3>2. CASE x = y
      <4>1. does
        BY <1>5, <2>2, <3>2
      <4>2. QED
        BY <1>5, <1>6, <3>2, <4>1
    <3>3. QED
      BY <1>5, <2>2, <3>1, <3>2
  <2>3. ASSUME NEW u \in Tasks, ~Known(u) PROVE performed'[u] = 0
    <3>1. performed[u] = 0
      BY <2>3 DEF GroupInv, OutcomesTrue
    <3>2. CASE u # r.task
      BY <1>6, <3>1, <3>2
    <3>3. CASE u = r.task
      <4>1. ~does
        BY <1>4, <2>3, <3>3
      <4>2. QED
        BY <1>6, <3>1, <4>1
    <3>4. QED
      BY <3>2, <3>3
  <2>4. ASSUME errors' = 0, NEW x \in results', Known(x.request.task) PROVE x.ok
    BY <1>5, <1>7, <2>4 DEF GroupInv, OutcomesTrue
  <2>5. QED
    BY <1>1, <1>7, <2>1, <2>2, <2>3, <2>4 DEF GroupInv, OutcomesTrue, NoCreation
<1>12. G!DoneMeansPerformed'
  <2> SUFFICES ASSUME NEW u \in Tasks, phone[u] = "done"
               PROVE  performed'[u] > 0 /\ \A i \in 1..Len(queue') : queue'[i].task # u
    BY <1>1 DEF G!DoneMeansPerformed
  <2>1. performed[u] > 0 /\ \A i \in 1..Len(queue) : queue[i].task # u
    BY DEF GroupInv, G!DoneMeansPerformed
  <2>2. QED
    BY <1>2, <1>6, <2>1
<1>13. QED
  BY <1>9, <1>10, <1>11, <1>12 DEF GroupInv

(* Only createGroup makes the command create.                                *)
LEMMA OthersCreateNothing ==
    ASSUME G!GroupAssumption, NEW t \in Tasks, MethodOf[t] # "createGroup"
    PROVE  G!CommandOf(t) # "create"
BY DEF G!GroupAssumption, G!CommandOf, G!Command

(* The phone takes the answer to its last request.                           *)
LEMMA GroupAnswerStep ==
    ASSUME G!GroupAssumption, GroupInv, NEW t \in Tasks, G!Answer(t)
    PROVE  GroupInv'
<1>1. PICK x \in G!ResultsOf(t) :
         phone' = [phone EXCEPT ![t] = IF G!Good(x) THEN "done" ELSE "failed"]
  BY DEF G!Answer
<1>2. /\ UNCHANGED <<tries, queue, results, performed, errors, timeouts>>
      /\ phone \in [Tasks -> {"idle", "waiting", "done", "failed"}] /\ tries \in [Tasks -> Nat]
      /\ queue \in Seq(Attempts) /\ results \subseteq Outcomes
  BY DEF G!Answer, GroupInv, GroupTypes
<1>3. x \in results /\ x.request.task = t /\ x.request.try = tries[t]
  BY DEF G!ResultsOf, G!Request
<1>4. /\ phone'[t] = (IF G!Good(x) THEN "done" ELSE "failed")
      /\ \A u \in Tasks \ {t} : phone'[u] = phone[u]
      /\ phone' \in [Tasks -> {"idle", "waiting", "done", "failed"}]
  BY <1>1, <1>2
<1>5. GroupTypes' /\ InOrder'
  BY <1>2, <1>4 DEF GroupInv, GroupTypes, InOrder
<1>6. OutcomesTrue'
  <2>1. \A u \in Tasks : (Known(u)' <=> Known(u))
    BY DEF Known, G!CommandOf
  <2>2. ASSUME NoCreation, errors = 0, timeouts = 0, NEW u \in Tasks, phone'[u] = "failed"
        PROVE  ~Known(u)
    <3>1. CASE u # t
      BY <1>4, <2>2, <3>1 DEF GroupInv, OutcomesTrue
    <3>2. CASE u = t
      <4>1. G!CommandOf(t) # "create"
        BY <2>2, OthersCreateNothing DEF NoCreation
      <4>2. ~x.ok
        BY <1>3, <1>4, <2>2, <3>2, <4>1 DEF G!Good
      <4>3. QED
        BY <1>3, <2>2, <3>2, <4>2 DEF GroupInv, OutcomesTrue
    <3>3. QED
      BY <3>1, <3>2
  <2>3. QED
    BY <1>2, <2>1, <2>2 DEF GroupInv, OutcomesTrue, NoCreation
<1>7. G!DoneMeansPerformed'
  <2> SUFFICES ASSUME NEW u \in Tasks, phone'[u] = "done"
               PROVE  performed[u] > 0 /\ \A i \in 1..Len(queue) : queue[i].task # u
    BY <1>2 DEF G!DoneMeansPerformed
  <2>1. CASE u # t
    BY <1>4, <2>1 DEF GroupInv, G!DoneMeansPerformed
  <2>2. CASE u = t
    <3>1. x.ok
      BY <1>4, <2>2 DEF G!Good
    <3>2. performed[u] > 0
      BY <1>3, <2>2, <3>1 DEF GroupInv, OutcomesTrue
    <3>3. ASSUME NEW i \in 1..Len(queue), queue[i].task = t PROVE FALSE
      <4>1. tries[t] < queue[i].try /\ queue[i].try <= tries[t]
        BY <1>3, <3>3 DEF GroupInv, InOrder
      <4>2. queue[i].try \in Nat /\ tries[t] \in Nat
        <5>1. queue[i] \in Attempts
          BY <1>2
        <5>2. QED
          BY <1>2, <5>1 DEF Attempts
      <4>3. QED
        BY <4>1, <4>2
    <3>4. QED
      BY <2>2, <3>2, <3>3
  <2>3. QED
    BY <2>1, <2>2
<1>8. QED
  BY <1>5, <1>6, <1>7 DEF GroupInv

LEMMA GroupTimeoutStep ==
    ASSUME GroupInv, NEW t \in Tasks, G!Timeout(t)
    PROVE  GroupInv'
<1>1. /\ timeouts' = timeouts + 1 /\ timeouts \in Nat /\ phone[t] = "waiting"
      /\ phone' = [phone EXCEPT ![t] = "failed"]
      /\ UNCHANGED <<tries, queue, results, performed, errors>>
      /\ phone \in [Tasks -> {"idle", "waiting", "done", "failed"}]
  BY DEF G!Timeout, GroupInv, GroupTypes
<1>2. timeouts' \in Nat /\ timeouts' # 0
      /\ phone' \in [Tasks -> {"idle", "waiting", "done", "failed"}]
      /\ \A u \in Tasks : phone'[u] = "done" => phone[u] = "done"
  BY <1>1
<1>3. GroupTypes' /\ InOrder' /\ G!DoneMeansPerformed'
  BY <1>1, <1>2 DEF GroupInv, GroupTypes, InOrder, G!DoneMeansPerformed
<1>4. OutcomesTrue'
  BY <1>1, <1>2 DEF GroupInv, OutcomesTrue, Known, G!CommandOf
<1>5. QED
  BY <1>3, <1>4 DEF GroupInv

LEMMA GroupStep ==
    ASSUME G!GroupAssumption, GroupInv, [G!Next]_(G!vars)
    PROVE  GroupInv'
<1>1. CASE G!Next
  BY <1>1, DispatchStep, HandleStep, GroupAnswerStep, GroupTimeoutStep DEF G!Next
<1>2. CASE UNCHANGED G!vars
  <2>1. \A u \in Tasks : (Known(u)' <=> Known(u))
    BY DEF Known, G!CommandOf
  <2>2. QED
    BY <1>2, <2>1 DEF G!vars, GroupInv, GroupTypes, InOrder, OutcomesTrue, NoCreation,
       G!DoneMeansPerformed
<1>3. QED
  BY <1>1, <1>2

LEMMA GroupTold ==
    ASSUME GroupInv
    PROVE  G!DoneMeansPerformed /\ (NoCreation => G!FailedMeansNotPerformed)
<1>1. errors \in Nat /\ timeouts \in Nat
  BY DEF GroupInv, GroupTypes
<1>2. errors + timeouts = 0 => errors = 0 /\ timeouts = 0
  BY <1>1
<1>3. QED
  BY <1>2 DEF GroupInv, OutcomesTrue, G!FailedMeansNotPerformed
-----------------------------------------------------------------------------
(* The server: every line of the send queue has a job id of its kind, and    *)
(* who was acknowledged without a failure has a line.                        *)

WireFrames == [what : {"header", "call", "rest", "ping"}, call : Calls \cup {None}]

ServerTypes ==
    /\ method \in [Calls -> S!Methods]
    /\ wire \in Seq(WireFrames)
    /\ \A i \in 1..Len(wire) : wire[i].what # "ping" => wire[i].call \in Calls
    /\ millis \in 0..MaxMillis

LineOf(c, m) == [call |-> c, id |-> IF method[c] = "c5" THEN <<c, m>> ELSE <<m, m>>]
Sends == {c \in Calls : method[c] \in {"sendMessage", "c5"}}

ServerInv ==
    /\ ServerTypes
    /\ \A line \in queue : \E c \in Sends, m \in 0..MaxMillis : line = LineOf(c, m)
    /\ \A c \in acked \ unwritten : \E line \in queue : line.call = c

LEMMA ServerInit ==
    ASSUME S!SpdyServerAssumption, S!Init
    PROVE  ServerInv
BY DEF S!SpdyServerAssumption, S!Init, ServerInv, ServerTypes

(* The frames that are left when the first is taken.                         *)
LEMMA WireTail ==
    ASSUME ServerTypes, wire # <<>>
    PROVE  /\ Tail(wire) \in Seq(WireFrames)
           /\ \A i \in 1..Len(Tail(wire)) :
                 Tail(wire)[i].what # "ping" => Tail(wire)[i].call \in Calls
           /\ Head(wire).what # "ping" => Head(wire).call \in Calls
<1>1. wire \in Seq(WireFrames)
  BY DEF ServerTypes
<1>2. /\ Tail(wire) \in Seq(WireFrames) /\ Head(wire) = wire[1] /\ 1 \in 1..Len(wire)
      /\ \A i \in 1..Len(Tail(wire)) : i + 1 \in 1..Len(wire) /\ Tail(wire)[i] = wire[i + 1]
  BY <1>1
<1>3. QED
  BY <1>2 DEF ServerTypes

(* Frames of a call, or a PING, at the end of what the phone sent.           *)
Framed(W) == /\ W \in Seq(WireFrames)
             /\ \A i \in 1..Len(W) : W[i].what # "ping" => W[i].call \in Calls

LEMMA WireGrows ==
    ASSUME NEW W, NEW T, Framed(W), Framed(T)
    PROVE  Framed(W \o T)
<1>1. /\ W \o T \in Seq(WireFrames) /\ Len(W \o T) = Len(W) + Len(T)
      /\ Len(W) \in Nat /\ Len(T) \in Nat
      /\ \A i \in 1..Len(W) : (W \o T)[i] = W[i]
      /\ \A i \in (Len(W) + 1)..(Len(W) + Len(T)) : (W \o T)[i] = T[i - Len(W)]
  BY SMTT(30) DEF Framed
<1>2. ASSUME NEW i \in 1..Len(W \o T), (W \o T)[i].what # "ping"
      PROVE  (W \o T)[i].call \in Calls
  <2>1. CASE i \in 1..Len(W)
    BY <1>1, <1>2, <2>1 DEF Framed
  <2>2. CASE i \notin 1..Len(W)
    <3>1. i \in (Len(W) + 1)..(Len(W) + Len(T)) /\ i - Len(W) \in 1..Len(T)
      BY <1>1, <2>2
    <3>2. QED
      BY <1>1, <1>2, <3>1 DEF Framed
  <2>3. QED
    BY <2>1, <2>2
<1>3. QED
  BY <1>1, <1>2 DEF Framed

LEMMA WireGetsOne ==
    ASSUME NEW W, NEW f \in WireFrames, Framed(W), f.what # "ping" => f.call \in Calls
    PROVE  Framed(Append(W, f))
<1>1. /\ Append(W, f) \in Seq(WireFrames)
      /\ \A i \in 1..Len(Append(W, f)) : \/ i \in 1..Len(W) /\ Append(W, f)[i] = W[i]
                                        \/ Append(W, f)[i] = f
  BY DEF Framed
<1>2. QED
  BY <1>1 DEF Framed

LEMMA ServerSendStep ==
    ASSUME ServerInv, NEW c \in Calls, S!Send(c)
    PROVE  ServerInv'
<1> DEFINE fh == S!Frame("header", c)
           fc == S!Frame("call", c)
           fr == S!Frame("rest", c)
<1>1. PICK body \in {<<fc>>, <<fc, fr>>} : wire' = Append(wire, fh) \o body
  BY DEF S!Send
<1>2. UNCHANGED <<method, millis, queue, acked, unwritten>>
  BY DEF S!Send
<1>3. fh \in WireFrames /\ fc \in WireFrames /\ fr \in WireFrames
      /\ fh.call = c /\ fc.call = c /\ fr.call = c
  BY DEF S!Frame, WireFrames
<1> HIDE DEF fh, fc, fr
<1>4. Framed(body)
  BY <1>1, <1>3 DEF Framed
<1>5. Framed(wire)
  BY DEF ServerInv, ServerTypes, Framed
<1>6. Framed(wire')
  BY <1>1, <1>3, <1>4, <1>5, WireGrows, WireGetsOne
<1>7. QED
  BY <1>2, <1>6 DEF Framed, ServerInv, ServerTypes, LineOf, Sends

LEMMA ServerPingStep ==
    ASSUME ServerInv, S!Ping
    PROVE  ServerInv'
<1> DEFINE f == S!Frame("ping", None)
<1>1. wire' = Append(wire, f) /\ UNCHANGED <<method, millis, queue, acked, unwritten>>
  BY DEF S!Ping
<1>2. f \in WireFrames /\ f.what = "ping"
  BY DEF S!Frame, WireFrames
<1> HIDE DEF f
<1>3. Framed(wire')
  BY <1>1, <1>2, WireGetsOne DEF ServerInv, ServerTypes, Framed
<1>4. QED
  BY <1>1, <1>3 DEF Framed, ServerInv, ServerTypes, LineOf, Sends

(* A message to a friend: if it was not written it is known as unwritten.    *)
LEMMA ServerQueueStep ==
    ASSUME ServerInv, S!AnswerSend
    PROVE  ServerInv'
<1> DEFINE c == Head(wire).call
           line == [call |-> c, id |-> S!JobId(c)]
<1>1. /\ wire # <<>> /\ Head(wire).what = "call" /\ wire' = Tail(wire)
      /\ method[c] \in {"sendMessage", "c5"} /\ UNCHANGED <<method, millis>>
      /\ \/ queue' = queue \cup {line} /\ unwritten' = unwritten
         \/ unwritten' = unwritten \cup {c} /\ queue' = queue
      /\ acked' = acked \/ acked' = acked \cup {c}
  BY DEF S!AnswerSend, S!Now, S!Subject
<1>2. c \in Sends
  BY <1>1, WireTail DEF ServerInv, Sends
<1>3. line = LineOf(c, millis) /\ line.call = c /\ millis \in 0..MaxMillis
  BY DEF LineOf, S!JobId, ServerInv, ServerTypes
<1> HIDE DEF c, line
<1>4. ServerTypes'
  BY <1>1, WireTail DEF ServerInv, ServerTypes
<1>5. ASSUME NEW z \in queue' PROVE \E d \in Sends, m \in 0..MaxMillis : z = LineOf(d, m)
  BY <1>1, <1>2, <1>3 DEF ServerInv
<1>6. ASSUME NEW d \in acked' \ unwritten' PROVE \E z \in queue' : z.call = d
  BY <1>1, <1>3 DEF ServerInv
<1>7. QED
  BY <1>1, <1>4, <1>5, <1>6 DEF ServerInv, LineOf, Sends

LEMMA ServerStep ==
    ASSUME S!SpdyServerAssumption, ServerInv, [S!Next]_(S!vars)
    PROVE  ServerInv'
<1>1. CASE UNCHANGED <<method, queue, acked, unwritten>> /\ millis' \in 0..MaxMillis
           /\ \/ wire' = wire \/ wire' = <<>> \/ (wire # <<>> /\ wire' = Tail(wire))
  <2>1. Framed(wire) /\ Framed(<<>>) /\ (wire # <<>> => Framed(Tail(wire)))
    BY WireTail DEF ServerInv, ServerTypes, Framed
  <2>2. Framed(wire')
    BY <1>1, <2>1
  <2>3. QED
    BY <1>1, <2>2 DEF Framed, ServerInv, ServerTypes, LineOf, Sends
<1>2. CASE UNCHANGED S!vars
  BY <1>1, <1>2 DEF S!vars, ServerInv, ServerTypes
<1>3. CASE S!Tick
  <2>1. millis' \in 0..MaxMillis
    BY <1>3 DEF S!Tick, ServerInv, ServerTypes, S!SpdyServerAssumption
  <2>2. QED
    BY <1>1, <1>3, <2>1 DEF S!Tick
<1>4. CASE S!TakeHeader \/ S!Answer \/ S!Poll
  <2>1. UNCHANGED <<method, queue, acked, unwritten, millis>>
    BY <1>4 DEF S!TakeHeader, S!Answer, S!Poll
  <2>2. wire # <<>> /\ wire' = Tail(wire)
    BY <1>4 DEF S!TakeHeader, S!Answer, S!Poll, S!Now
  <2>3. QED
    BY <1>1, <2>1, <2>2 DEF ServerInv, ServerTypes
<1>5. CASE S!Echo \/ S!Hold \/ S!NewItem \/ S!Close
  <2>1. UNCHANGED <<method, queue, acked, unwritten, millis>>
    BY <1>5 DEF S!Echo, S!Hold, S!NewItem, S!Close
  <2>2. wire' = wire \/ wire' = <<>> \/ (wire # <<>> /\ wire' = Tail(wire))
    BY <1>5 DEF S!Echo, S!Hold, S!NewItem, S!Close
  <2>3. QED
    BY <1>1, <2>1, <2>2 DEF ServerInv, ServerTypes
<1>6. QED
  BY <1>2, <1>3, <1>4, <1>5, ServerSendStep, ServerPingStep, ServerQueueStep
     DEF S!Next, S!Serve

(* A number of the phone is no time of the clock, so ids of the two kinds    *)
(* differ.                                                                   *)
LEMMA ServerTold ==
    ASSUME S!SpdyServerAssumption, ServerInv
    PROVE  S!AnswerIsTrue
<1> SUFFICES ASSUME NEW c \in acked \ unwritten
             PROVE  \E line \in queue :
                       /\ line.call = c
                       /\ \A other \in queue :
                             other.id = line.id => other.call = c \/ S!SameKind(c, other.call)
  BY DEF S!AnswerIsTrue
<1>1. PICK line \in queue : line.call = c
  BY DEF ServerInv
<1>2. PICK cc \in Sends, m \in 0..MaxMillis : line = LineOf(cc, m)
  BY DEF ServerInv
<1>3. cc = c
  BY <1>1, <1>2 DEF LineOf
<1>4. ASSUME NEW other \in queue, other.id = line.id
      PROVE  other.call = c \/ S!SameKind(c, other.call)
  <2>1. PICK d \in Sends, n \in 0..MaxMillis : other = LineOf(d, n)
    BY DEF ServerInv
  <2>2. /\ other.call = d
        /\ line.id = (IF method[c] = "c5" THEN <<c, m>> ELSE <<m, m>>)
        /\ other.id = (IF method[d] = "c5" THEN <<d, n>> ELSE <<n, n>>)
    BY <1>2, <1>3, <2>1 DEF LineOf
  <2>3. c \notin 0..MaxMillis /\ d \notin 0..MaxMillis
    BY <1>2, <1>3 DEF S!SpdyServerAssumption, Sends
  <2>4. CASE method[c] = "c5" /\ method[d] = "c5"
    BY <1>4, <2>2, <2>4
  <2>5. CASE method[c] # "c5" /\ method[d] = "c5"
    BY <1>4, <2>2, <2>3, <2>5
  <2>6. CASE method[c] = "c5" /\ method[d] # "c5"
    BY <1>4, <2>2, <2>3, <2>6
  <2>7. CASE method[c] # "c5" /\ method[d] # "c5"
    BY <1>2, <1>3, <2>2, <2>7 DEF Sends, S!SameKind
  <2>8. QED
    BY <2>4, <2>5, <2>6, <2>7
<1>5. QED
  BY <1>1, <1>4

-----------------------------------------------------------------------------
(* All of them *)

(* A step of the requests is one of the component a behaviour is about.      *)
LEMMA RequestsSceneStep ==
    ASSUME [Next]_vars
    PROVE  /\ scene' = scene
           /\ scene = "group"  => [G!Next]_(G!vars)
           /\ scene = "relay"  => [R!Next]_(R!vars)
           /\ scene = "server" => [S!Next]_(S!vars)
<1>1. CASE Next
  BY <1>1 DEF Next, Group, Relay, Server
<1>2. CASE UNCHANGED vars
  BY <1>2 DEF vars, groupVars, relayVars, serverVars, G!vars, R!vars, R!phoneVars, S!vars
<1>3. QED
  BY <1>1, <1>2

(* The invariant of that component.                                          *)
RequestsInv ==
    /\ scene = "group"  => GroupInv
    /\ scene = "relay"  => RelayInv
    /\ scene = "server" => ServerInv

LEMMA RequestsInit == Init => RequestsInv
BY GroupInit, RelayInit, ServerInit, RequestsAssumption DEF Init, RequestsInv

LEMMA RequestsStep == RequestsInv /\ [Next]_vars => RequestsInv'
<1> SUFFICES ASSUME RequestsInv, [Next]_vars PROVE RequestsInv'
  OBVIOUS
<1>1. scene' = scene
  BY RequestsSceneStep
<1>2. ASSUME scene = "group" PROVE GroupInv'
  BY <1>2, RequestsSceneStep, GroupStep, RequestsAssumption DEF RequestsInv
<1>3. ASSUME scene = "relay" PROVE RelayInv'
  BY <1>3, RequestsSceneStep, RelayStep, RequestsAssumption DEF RequestsInv
<1>4. ASSUME scene = "server" PROVE ServerInv'
  BY <1>4, RequestsSceneStep, ServerStep, RequestsAssumption DEF RequestsInv
<1>5. QED
  BY <1>1, <1>2, <1>3, <1>4 DEF RequestsInv

LEMMA RequestsAlways == Spec => []RequestsInv
<1>1. Init => RequestsInv
  BY RequestsInit
<1>2. RequestsInv /\ [Next]_vars => RequestsInv'
  BY RequestsStep
<1>3. QED
  BY <1>1, <1>2, PTL DEF Spec

(* What the phone is told is true: a command that succeeded was carried out  *)
(* and no request of an earlier try will do it again; while LINE answers,    *)
(* one that failed was not; a message acknowledged is in the send queue      *)
(* under an id of its own.                                                   *)
THEOREM TheAnswersAreTrue == Spec => []AnswerIsTrue
<1>1. RequestsInv => AnswerIsTrue
  BY GroupTold, ServerTold, RequestsAssumption DEF RequestsInv, AnswerIsTrue, NoCreation
<1>2. QED
  BY <1>1, RequestsAlways, PTL

(* Whatever the two threads of the relay and LINE do in whatever order, the  *)
(* calls the relay answers get its reply in the place of the first body      *)
(* frame and no other call does.                                             *)
THEOREM RepliesReplaced == Spec => []InterceptedIsSynthesized
<1>1. RequestsInv => InterceptedIsSynthesized
  BY DEF RequestsInv, RelayInv, InterceptedIsSynthesized
<1>2. QED
  BY <1>1, RequestsAlways, PTL
=============================================================================

-------------------------- MODULE ReadReceiptsProofs --------------------------
(***************************************************************************)
(* Proofs about ReadReceipts, for any messages, readers, cap on the pending *)
(* ids, and restarts: types, that the phone is told once and in time that a *)
(* message was read, that messages of other devices are reported exactly,   *)
(* and that a group receipt leaves out none of the messages it covers.      *)
(***************************************************************************)
EXTENDS ReadReceipts, TLAPS

Sent(i) == outbox[i].kind = "sent"
Receipt(i) == outbox[i].kind = "read"

\* A direct chat has one other member.
Chat == (group => members = Readers) /\ (~group => \E r \in Readers : members = {r})

\* Positions come after the start of the handler, and nothing lies ahead.
Sending ==
    /\ \A m \in Msgs : /\ kind[m] = "none" => pos[m] = 0
                       /\ kind[m] = "other" => pos[m] = born[m] /\ pos[m] > 0
                       /\ pos[m] > 0 => born[m] <= pos[m]
                       /\ pos[m] <= clock /\ born[m] <= clock
    /\ \A m \in waiting : kind[m] = "local"
    /\ \A m \in held : kind[m] = "other"
    /\ \A i \in 1..Len(outbox) :
          Sent(i) => kind[outbox[i].msg] = "other" /\ outbox[i].msg \notin held

SameEntry(i, k) ==
    \/ Sent(i) /\ Sent(k) /\ outbox[i].msg = outbox[k].msg
    \/ /\ Receipt(i) /\ Receipt(k)
       /\ outbox[i].reader = outbox[k].reader /\ outbox[i].position = outbox[k].position

\* A message of another device, and a reader's position, enter outbox.json once.
OneEntry == \A i, k \in 1..Len(outbox) : SameEntry(i, k) => i = k

\* What a receipt says was so when it entered the outbox, and it is newer than
\* everything in front of it.
InTime ==
    /\ \A k \in 1..Len(outbox) : Receipt(k) =>
          /\ outbox[k].reader \in members
          /\ outbox[k].position <= readTo[outbox[k].reader]
          /\ outbox[k].position <= outbox[k].created /\ outbox[k].created <= clock
    /\ \A i, k \in 1..Len(outbox) : i < k /\ Receipt(k) =>
          /\ Receipt(i) => outbox[i].created <= outbox[k].created
          /\ Sent(i) => /\ born[outbox[i].msg] <= outbox[k].created
                        /\ ~group => pos[outbox[i].msg] <= outbox[k].position

\* Its id may still be noted.
Unnoted(m) ==
    \/ kind[m] = "none" \/ m \in waiting \/ m \in held
    \/ \E i \in 1..Len(outbox) : i > next /\ Sent(i) /\ outbox[i].msg = m

Unique(s) == \A i, k \in 1..Len(s) : s[i] = s[k] => i = k

Pending == ToSet(pending)

\* An id is noted once, a message of another device when its entry is drained.
NotedOnce ==
    /\ \A m \in Msgs : Unnoted(m) =>
          m \notin Pending /\ m \notin tracked /\ \A r \in Readers : notified[m][r] = 0
    /\ \A m \in Msgs : kind[m] = "other" /\ (m \in Pending \/ m \in tracked) =>
          \E i \in 1..next : Sent(i) /\ outbox[i].msg = m
    /\ Unique(pending)

\* While an id is pending, seen knows whom it has been reported for.
ToldOnce ==
    \A m \in Msgs, r \in Readers :
        /\ notified[m][r] <= 1
        /\ r \in seen[m] => notified[m][r] = 1
        /\ m \in Pending /\ r \notin seen[m] => notified[m][r] = 0
        /\ ~group => r \notin seen[m]

\* Receipts of a reader are drained in the order of their creation.
ToldInTime ==
    /\ \A r \in Readers : heardAt[r] <= clock
    /\ \A k \in 1..Len(outbox) : k > next /\ Receipt(k) => heardAt[outbox[k].reader] <= outbox[k].created
    /\ group => \A m \in Msgs, r \in members : notified[m][r] > 0 => born[m] <= heardAt[r]

\* In a direct chat a message of another device has been reported, or waits
\* among the pending ids for a receipt that has not come.
DirectBooks ==
    ~group => \A r \in members :
        /\ lastPos[r] <= readTo[r]
        /\ \A m \in Msgs : kind[m] = "other" =>
              /\ notified[m][r] > 0 => pos[m] <= readTo[r]
              /\ m \in tracked => notified[m][r] = 1 \/ (m \in Pending /\ lastPos[r] < pos[m])

\* In a group ids leave only by expiring, and a watermark was drained.
GroupBooks ==
    group => /\ tracked \subseteq Pending
             /\ \A r \in members :
                   /\ mark[r] <= newest[r]
                   /\ mark[r] > 0 => \E i \in 1..next : /\ Receipt(i) /\ outbox[i].reader = r
                                                        /\ outbox[i].position = mark[r]

ReadInv ==
    /\ TypeOK /\ Chat /\ Sending /\ OneEntry /\ InTime
    /\ NotedOnce /\ ToldOnce /\ ToldInTime /\ DirectBooks /\ GroupBooks

-----------------------------------------------------------------------------
(* A sequence and one id more.                                               *)
LEMMA AppendParts ==
    ASSUME NEW S, NEW a \in Seq(S), NEW u \in S
    PROVE  /\ Append(a, u) \in Seq(S)
           /\ Len(Append(a, u)) = Len(a) + 1 /\ Len(a) \in Nat
           /\ \A i \in 1..Len(a) : Append(a, u)[i] = a[i]
           /\ Append(a, u)[Len(a) + 1] = u
OBVIOUS

(* The ids kept and the ids that expire.                                     *)
LEMMA KeptAndExpired ==
    ASSUME NEW p \in Seq(Msgs), Unique(p)
    PROVE  /\ Kept(p) \in Seq(Msgs) /\ Len(Kept(p)) <= PendingMax /\ Unique(Kept(p))
           /\ ToSet(Kept(p)) = ToSet(p) \ Expired(p)
           /\ \A i \in 1..Len(p) : i > Len(p) - PendingMax => p[i] \notin Expired(p)
<1> USE ReadAssumption
<1>1. Len(p) \in Nat /\ PendingMax \in Nat /\ \A i \in 1..Len(p) : p[i] \in Msgs
  OBVIOUS
<1>2. CASE Len(p) > PendingMax
  <2> DEFINE n == Len(p) - PendingMax
             q == SubSeq(p, n + 1, Len(p))
  <2>1. n \in 1..Len(p) /\ n \in Nat
    BY <1>1, <1>2
  <2>2. q \in Seq(Msgs) /\ Len(q) = PendingMax /\ \A i \in 1..PendingMax : q[i] = p[n + i]
    BY <1>1, <2>1
  <2>3. Kept(p) = q /\ Expired(p) = {p[i] : i \in 1..n}
    BY <1>2 DEF Kept, Expired
  <2> HIDE DEF q
  <2>4. \A i \in 1..PendingMax : n + i \in 1..Len(p) /\ n + i > n
    BY <1>1, <2>1
  <2>5. \A i \in 1..Len(p) : i > n => i - n \in 1..PendingMax /\ n + (i - n) = i
    BY <1>1, <2>1
  <2>6. \A i \in 1..n : i \in 1..Len(p)
    BY <1>1, <2>1
  <2> HIDE DEF n
  <2>7. Unique(q)
    <3>1. ASSUME NEW i \in 1..PendingMax, NEW k \in 1..PendingMax, q[i] = q[k] PROVE i = k
      <4>1. n + i = n + k
        BY <2>2, <2>4, <3>1 DEF Unique
      <4>2. n \in Int
        BY <1>1 DEF n
      <4>3. QED
        BY <4>1, <4>2
    <3>2. QED
      BY <2>2, <3>1 DEF Unique
  <2>8. ASSUME NEW i \in 1..Len(p), i > n PROVE p[i] \notin Expired(p)
    <3>1. SUFFICES ASSUME NEW k \in 1..n, p[k] = p[i] PROVE FALSE
      BY <2>3
    <3>2. k = i
      BY <2>6, <3>1 DEF Unique
    <3>3. QED
      BY <2>1, <2>8, <3>2
  <2>9. ASSUME NEW x PROVE x \in ToSet(q) <=> x \in ToSet(p) /\ x \notin Expired(p)
    <3>1. ASSUME NEW i \in 1..PendingMax, x = q[i] PROVE x \in ToSet(p) /\ x \notin Expired(p)
      <4>1. x = p[n + i]
        BY <2>2, <3>1
      <4>2. QED
        BY <2>4, <2>8, <4>1 DEF ToSet
    <3>2. ASSUME NEW i \in 1..Len(p), x = p[i], x \notin Expired(p) PROVE x \in ToSet(q)
      <4>1. i \notin 1..n
        BY <2>3, <3>2
      <4>2. i > n
        BY <1>1, <4>1 DEF n
      <4>3. q[i - n] = x /\ i - n \in 1..PendingMax
        BY <2>2, <2>5, <3>2, <4>2
      <4>4. QED
        BY <2>2, <4>3 DEF ToSet
    <3>3. QED
      BY <2>2, <3>1, <3>2 DEF ToSet
  <2>10. QED
    BY <1>1, <2>2, <2>3, <2>7, <2>8, <2>9 DEF n
<1>3. CASE ~(Len(p) > PendingMax)
  BY <1>1, <1>3 DEF Kept, Expired
<1>4. QED
  BY <1>2, <1>3

(* pending.remove, of an id that is there once.                              *)
LEMMA RemoveOne ==
    ASSUME NEW p \in Seq(Msgs), Unique(p), NEW m, m \in ToSet(p)
    PROVE  /\ RemoveFirst(p, m) \in Seq(Msgs) /\ Len(RemoveFirst(p, m)) <= Len(p)
           /\ Unique(RemoveFirst(p, m)) /\ ToSet(RemoveFirst(p, m)) = ToSet(p) \ {m}
<1>1. PICK i \in 1..Len(p) : p[i] = m
  BY DEF ToSet
<1>2. {k \in 1..Len(p) : p[k] = m} = {i}
  BY <1>1 DEF Unique
<1>3. Min({i}) = i
  BY DEF Min
<1>4. RemoveFirst(p, m) = SubSeq(p, 1, i - 1) \o SubSeq(p, i + 1, Len(p))
  BY <1>2, <1>3 DEF RemoveFirst, RemoveAt, SelectInSeq
<1> DEFINE a == SubSeq(p, 1, i - 1)
           b == SubSeq(p, i + 1, Len(p))
           q == a \o b
<1>5. Len(p) \in Nat /\ i \in Nat /\ \A k \in 1..Len(p) : p[k] \in Msgs
  OBVIOUS
<1>6. /\ a \in Seq(Msgs) /\ Len(a) = i - 1 /\ \A k \in 1..(i - 1) : a[k] = p[k]
      /\ b \in Seq(Msgs) /\ Len(b) = Len(p) - i /\ \A k \in 1..(Len(p) - i) : b[k] = p[i + k]
  BY <1>5
<1> HIDE DEF a, b
<1>7. /\ q \in Seq(Msgs) /\ Len(q) = Len(p) - 1
      /\ \A k \in 1..Len(q) : q[k] = IF k < i THEN p[k] ELSE p[k + 1]
  <2>1. q \in Seq(Msgs) /\ Len(q) = Len(p) - 1
    <3>1. a \in Seq(Msgs) /\ b \in Seq(Msgs)
      BY <1>6
    <3>2. q \in Seq(Msgs) /\ Len(q) = Len(a) + Len(b)
      BY <3>1
    <3>3. QED
      BY <1>5, <1>6, <3>2
  <2>2. \A k \in 1..Len(q) : q[k] = IF k <= Len(a) THEN a[k] ELSE b[k - Len(a)]
    BY <1>6
  <2>3. ASSUME NEW k \in 1..Len(q) PROVE q[k] = IF k < i THEN p[k] ELSE p[k + 1]
    <3>1. CASE k < i
      BY <1>5, <1>6, <2>1, <2>2, <3>1
    <3>2. CASE ~(k < i)
      <4>1. k - (i - 1) \in 1..(Len(p) - i) /\ i + (k - (i - 1)) = k + 1 /\ ~(k <= Len(a))
        BY <1>5, <1>6, <2>1, <3>2
      <4>2. QED
        BY <1>6, <2>2, <3>2, <4>1
    <3>3. QED
      BY <3>1, <3>2
  <2>4. QED
    BY <2>1, <2>3
<1> HIDE DEF q
<1>8. Unique(q)
  <2>1. ASSUME NEW k \in 1..Len(q), NEW l \in 1..Len(q), q[k] = q[l] PROVE k = l
    BY <1>5, <1>7, <2>1 DEF Unique
  <2>2. QED
    BY <2>1 DEF Unique
<1>9. ASSUME NEW x PROVE x \in ToSet(q) <=> x \in ToSet(p) /\ x # m
  <2>1. ASSUME NEW k \in 1..Len(q), x = q[k] PROVE x \in ToSet(p) /\ x # m
    <3>1. PICK l \in 1..Len(p) : l # i /\ x = p[l]
      BY <1>5, <1>7, <2>1
    <3>2. QED
      BY <1>1, <3>1 DEF Unique, ToSet
  <2>2. ASSUME NEW l \in 1..Len(p), x = p[l], x # m PROVE x \in ToSet(q)
    <3>1. PICK k \in 1..Len(q) : q[k] = p[l]
      <4>1. l # i
        BY <1>1, <2>2
      <4>2. CASE l < i
        <5>1. l \in 1..Len(q) /\ q[l] = p[l]
          BY <1>5, <1>7, <4>2
        <5>2. QED
          BY <5>1
      <4>3. CASE l > i
        <5>1. l - 1 \in 1..Len(q) /\ ~(l - 1 < i) /\ (l - 1) + 1 = l
          BY <1>5, <1>7, <4>3
        <5>2. q[l - 1] = p[l]
          BY <1>7, <5>1
        <5>3. QED
          BY <5>1, <5>2
      <4>4. QED
        BY <1>5, <4>1, <4>2, <4>3
    <3>2. QED
      BY <2>2, <3>1 DEF ToSet
  <2>3. QED
    BY <2>1, <2>2 DEF ToSet
<1>10. QED
  <2>1. RemoveFirst(p, m) = q
    BY <1>4 DEF q, a, b
  <2>2. ToSet(q) = ToSet(p) \ {m}
    BY <1>9
  <2>3. Len(q) <= Len(p)
    BY <1>5, <1>7
  <2>4. QED
    BY <1>7, <1>8, <2>1, <2>2, <2>3

-----------------------------------------------------------------------------
(* An entry is a message of another device or a receipt.                     *)
LEMMA EntryFields ==
    /\ \A e \in Entries : \/ e.kind = "sent" /\ e.msg \in Msgs
                          \/ /\ e.kind = "read" /\ e.reader \in Readers
                             /\ e.position \in Nat /\ e.created \in Nat
    /\ \A m \in Msgs : /\ SentEntry(m) \in Entries
                       /\ SentEntry(m).kind = "sent" /\ SentEntry(m).msg = m
    /\ \A r \in Readers, p \in Nat, t \in Nat :
          /\ ReadEntry(r, p, t) \in Entries /\ ReadEntry(r, p, t).kind = "read"
          /\ ReadEntry(r, p, t).reader = r /\ ReadEntry(r, p, t).position = p
          /\ ReadEntry(r, p, t).created = t
BY DEF Entries, SentEntry, ReadEntry

(* outbox.json with an entry more.                                           *)
LEMMA NewEntry ==
    ASSUME TypeOK, NEW e \in Entries, outbox' = Append(outbox, e)
    PROVE  /\ outbox' \in Seq(Entries) /\ Len(outbox) \in Nat /\ Len(outbox') = Len(outbox) + 1
           /\ outbox'[Len(outbox) + 1] = e
           /\ \A i \in 1..Len(outbox) : i \in 1..Len(outbox') /\ outbox'[i] = outbox[i]
           /\ \A i \in 1..Len(outbox') : i \in 1..Len(outbox) \/ i = Len(outbox) + 1
<1>1. outbox \in Seq(Entries)
  BY DEF TypeOK
<1>2. /\ outbox' \in Seq(Entries) /\ Len(outbox) \in Nat /\ Len(outbox') = Len(outbox) + 1
      /\ outbox'[Len(outbox) + 1] = e
      /\ \A i \in 1..Len(outbox) : outbox'[i] = outbox[i]
  BY <1>1, AppendParts
<1>3. \A i \in 1..Len(outbox) : i \in 1..Len(outbox')
  BY <1>2
<1>4. \A i \in 1..Len(outbox') : i \in 1..Len(outbox) \/ i = Len(outbox) + 1
  BY <1>2
<1>5. QED
  BY <1>2, <1>3, <1>4

\* What noting m does when X expires.
NotedAs(m, caughtUp, X) ==
    /\ m \notin X
    /\ pending' \in Seq(Msgs) /\ Len(pending') <= PendingMax /\ Unique(pending')
    /\ Pending' = IF caughtUp THEN Pending \ X ELSE (Pending \cup {m}) \ X
    /\ seen' = [x \in Msgs |-> IF x \in X THEN {} ELSE seen[x]]
    /\ tracked' = (tracked \cup {m}) \ X
    /\ UNCHANGED <<mark, lastPos>>

(* Noting an id for the first time.                                          *)
LEMMA NoteBooks ==
    ASSUME TypeOK, Unique(pending), NEW m \in Msgs, m \notin Pending,
           NEW caughtUp \in BOOLEAN, Note(m, caughtUp)
    PROVE  \E X : NotedAs(m, caughtUp, X)
<1> USE ReadAssumption
<1> DEFINE p == Append(pending, m)
<1>1. pending \in Seq(Msgs) /\ Len(pending) \in Nat /\ PendingMax \in Nat /\ PendingMax > 0
  BY DEF TypeOK
<1>2. Noted(m) = p
  BY DEF Noted, Pending
<1>3. /\ p \in Seq(Msgs) /\ Len(p) = Len(pending) + 1 /\ p[Len(pending) + 1] = m
      /\ \A i \in 1..Len(pending) : p[i] = pending[i]
  BY <1>1, AppendParts
<1> HIDE DEF p
<1>4. \A i \in 1..Len(p) : i \in 1..Len(pending) \/ i = Len(pending) + 1
  BY <1>1, <1>3
<1>5. \A i \in 1..Len(pending) : pending[i] # m
  BY DEF Pending, ToSet
<1>6. Unique(p)
  BY <1>3, <1>4, <1>5 DEF Unique
<1>7. ToSet(p) = Pending \cup {m}
  <2>1. \A i \in 1..Len(pending) : i \in 1..Len(p)
    BY <1>1, <1>3
  <2>2. Len(pending) + 1 \in 1..Len(p)
    BY <1>1, <1>3
  <2>3. ASSUME NEW x PROVE x \in ToSet(p) <=> x \in Pending \/ x = m
    BY <1>3, <1>4, <2>1, <2>2 DEF ToSet, Pending
  <2>4. QED
    BY <2>3
<1>8. /\ Kept(p) \in Seq(Msgs) /\ Len(Kept(p)) <= PendingMax /\ Unique(Kept(p))
      /\ ToSet(Kept(p)) = ToSet(p) \ Expired(p)
      /\ \A i \in 1..Len(p) : i > Len(p) - PendingMax => p[i] \notin Expired(p)
  BY <1>3, <1>6, KeptAndExpired
<1>9. m \notin Expired(p)
  <2>1. Len(p) \in 1..Len(p) /\ Len(p) > Len(p) - PendingMax /\ p[Len(p)] = m
    BY <1>1, <1>3
  <2>2. QED
    BY <1>8, <2>1
<1>10. m \in ToSet(Kept(p))
  BY <1>7, <1>8, <1>9
<1>11. /\ pending' = IF caughtUp THEN RemoveFirst(Kept(p), m) ELSE Kept(p)
       /\ seen' = [x \in Msgs |-> IF x \in Expired(p) THEN {} ELSE seen[x]]
       /\ tracked' = (tracked \cup {m}) \ Expired(p)
       /\ UNCHANGED <<mark, lastPos>>
  BY <1>2 DEF Note
<1>12. CASE caughtUp
  <2>1. /\ pending' \in Seq(Msgs) /\ Len(pending') <= Len(Kept(p)) /\ Unique(pending')
        /\ ToSet(pending') = ToSet(Kept(p)) \ {m}
    BY <1>8, <1>10, <1>11, <1>12, RemoveOne
  <2>2. Len(pending') <= PendingMax
    <3>1. Len(pending') \in Nat /\ Len(Kept(p)) \in Nat
      BY <1>8, <2>1
    <3>2. QED
      BY <1>1, <1>8, <2>1, <3>1
  <2>3. Pending' = Pending \ Expired(p)
    BY <1>7, <1>8, <2>1 DEF Pending
  <2>4. NotedAs(m, caughtUp, Expired(p))
    BY <1>9, <1>11, <1>12, <2>1, <2>2, <2>3 DEF NotedAs
  <2>5. QED
    BY <2>4
<1>13. CASE ~caughtUp
  <2>1. pending' = Kept(p)
    BY <1>11, <1>13
  <2>2. Pending' = (Pending \cup {m}) \ Expired(p)
    BY <1>7, <1>8, <2>1 DEF Pending
  <2>3. Unique(pending') /\ pending' \in Seq(Msgs) /\ Len(pending') <= PendingMax
    BY <1>8, <2>1
  <2>4. NotedAs(m, caughtUp, Expired(p))
    BY <1>9, <1>11, <1>13, <2>2, <2>3 DEF NotedAs
  <2>5. QED
    BY <2>4
<1>14. QED
  BY <1>12, <1>13

(* The entry the drain has before it.                                        *)
LEMMA NextEntry ==
    ASSUME TypeOK, next < Len(outbox)
    PROVE  /\ next \in Nat /\ next + 1 \in 1..Len(outbox) /\ next + 1 > next
           /\ outbox[next + 1] \in Entries
<1>1. outbox \in Seq(Entries) /\ next \in 0..Len(outbox) /\ Len(outbox) \in Nat
  BY DEF TypeOK
<1>2. next \in Nat /\ next + 1 \in 1..Len(outbox) /\ next + 1 > next
  BY <1>1
<1>3. QED
  BY <1>1, <1>2

(* The four places where an id is noted, always for the first time.          *)
LEMMA NoteSteps ==
    ASSUME TypeOK, NotedOnce
    PROVE  /\ \A m \in Msgs : StartS4(m) \/ NoteC5(m) => Unnoted(m) /\ \E X : NotedAs(m, FALSE, X)
           /\ DrainSent => /\ outbox[next + 1].msg \in Msgs
                           /\ Unnoted(outbox[next + 1].msg)
                           /\ \E X : NotedAs(outbox[next + 1].msg, CatchUp(outbox[next + 1].msg) # {}, X)
<1>1. \A m \in Msgs : Unnoted(m) => m \notin Pending
  BY DEF NotedOnce
<1>2. Unique(pending)
  BY DEF NotedOnce
<1>3. ASSUME NEW m \in Msgs, StartS4(m) \/ NoteC5(m)
      PROVE  Unnoted(m) /\ \E X : NotedAs(m, FALSE, X)
  <2>1. Unnoted(m) /\ Note(m, FALSE)
    BY <1>3 DEF StartS4, NoteC5, Unnoted
  <2>2. QED
    BY <1>1, <1>2, <2>1, NoteBooks
<1>4. ASSUME DrainSent
      PROVE  /\ outbox[next + 1].msg \in Msgs
             /\ Unnoted(outbox[next + 1].msg)
             /\ \E X : NotedAs(outbox[next + 1].msg, CatchUp(outbox[next + 1].msg) # {}, X)
  <2> DEFINE m == outbox[next + 1].msg
  <2>1. /\ next < Len(outbox) /\ outbox[next + 1].kind = "sent"
        /\ Note(m, CatchUp(m) # {})
    BY <1>4 DEF DrainSent
  <2>2. m \in Msgs
    BY <2>1, NextEntry, EntryFields
  <2>3. Unnoted(m)
    BY <2>1, NextEntry DEF Unnoted, Sent
  <2> HIDE DEF m
  <2>4. \E X : NotedAs(m, CatchUp(m) # {}, X)
    <3>1. (CatchUp(m) # {}) \in BOOLEAN
      OBVIOUS
    <3>2. QED
      BY <1>1, <1>2, <2>1, <2>2, <2>3, <3>1, NoteBooks
  <2>5. QED
    BY <2>2, <2>3, <2>4 DEF m
<1>5. QED
  BY <1>3, <1>4

-----------------------------------------------------------------------------
(* What the ids taken by a receipt do to the books.                          *)
LEMMA DrainType ==
    ASSUME TypeOK, DrainRead
    PROVE  /\ seen' \in [Msgs -> SUBSET Readers] /\ mark' \in [Readers -> Nat]
           /\ lastPos' \in [Readers -> Nat] /\ pending' \in Seq(Msgs) /\ Len(pending') <= PendingMax
           /\ notified' \in [Msgs -> [Readers -> Nat]]
           /\ newest' \in [Readers -> Nat] /\ heardAt' \in [Readers -> Nat]
<1> USE ReadAssumption
<1> DEFINE e == outbox[next + 1]  r == e.reader  ids == Taken(e)
<1>1. /\ pending \in Seq(Msgs) /\ Len(pending) <= PendingMax /\ seen \in [Msgs -> SUBSET Readers]
      /\ mark \in [Readers -> Nat] /\ lastPos \in [Readers -> Nat]
      /\ notified \in [Msgs -> [Readers -> Nat]]
      /\ newest \in [Readers -> Nat] /\ heardAt \in [Readers -> Nat]
  BY DEF TypeOK
<1>2. e.kind = "read" /\ next < Len(outbox)
  BY DEF DrainRead
<1>3. r \in Readers /\ e.position \in Nat /\ e.created \in Nat
  BY <1>2, NextEntry, EntryFields
<1>4. /\ IF group THEN /\ seen' = SeenAfter(ids, r)
                       /\ mark' = [mark EXCEPT ![r] = IF ids = {} THEN @ ELSE e.position]
                       /\ UNCHANGED <<pending, lastPos>>
                  ELSE /\ lastPos' = [lastPos EXCEPT ![r] = e.position] /\ pending' = <<>>
                       /\ UNCHANGED <<seen, mark>>
      /\ notified' = [m \in Msgs |-> IF m \in ids THEN [notified[m] EXCEPT ![r] = @ + 1] ELSE notified[m]]
      /\ newest' = [newest EXCEPT ![r] = IF e.position > @ THEN e.position ELSE @]
      /\ heardAt' = [heardAt EXCEPT ![r] = e.created]
  BY DEF DrainRead
<1> HIDE DEF e, r, ids
<1>5. /\ seen' \in [Msgs -> SUBSET Readers] /\ mark' \in [Readers -> Nat] /\ lastPos' \in [Readers -> Nat]
  <2>1. seen' \in [Msgs -> SUBSET Readers]
    <3>1. \A m \in Msgs : seen[m] \cup {r} \in SUBSET Readers
      BY <1>1, <1>3
    <3>2. SeenAfter(ids, r) \in [Msgs -> SUBSET Readers]
      BY <1>1, <3>1 DEF SeenAfter
    <3>3. QED
      BY <1>1, <1>4, <3>2
  <2>2. mark' \in [Readers -> Nat]
    <3>1. mark[r] \in Nat
      BY <1>1, <1>3
    <3>2. QED
      BY <1>1, <1>3, <1>4, <3>1
  <2>3. lastPos' \in [Readers -> Nat]
    BY <1>1, <1>3, <1>4
  <2>4. QED
    BY <2>1, <2>2, <2>3
<1>6. pending' \in Seq(Msgs) /\ Len(pending') <= PendingMax
  <2>1. <<>> \in Seq(Msgs)
    OBVIOUS
  <2>2. Len(<<>>) = 0 /\ 0 <= PendingMax
    OBVIOUS
  <2>3. QED
    BY <1>1, <1>4, <2>1, <2>2
<1>7. notified' \in [Msgs -> [Readers -> Nat]]
  <2>1. ASSUME NEW m \in Msgs PROVE notified'[m] \in [Readers -> Nat]
    <3>1. notified[m] \in [Readers -> Nat] /\ notified[m][r] + 1 \in Nat
      BY <1>1, <1>3
    <3>2. QED
      BY <1>3, <1>4, <3>1
  <2>2. QED
    BY <1>4, <2>1
<1>8. newest' \in [Readers -> Nat] /\ heardAt' \in [Readers -> Nat]
  BY <1>1, <1>3, <1>4
<1>9. QED
  BY <1>5, <1>6, <1>7, <1>8

(* A catch-up tells the phone of one reader.                                 *)
LEMMA CatchUpType ==
    ASSUME TypeOK, DrainSent, outbox[next + 1].msg \in Msgs
    PROVE  notified' \in [Msgs -> [Readers -> Nat]]
<1> DEFINE m == outbox[next + 1].msg  r == CHOOSE x \in CatchUp(m) : TRUE
<1>1. notified' = IF CatchUp(m) = {} THEN notified ELSE [notified EXCEPT ![m][r] = @ + 1]
  BY DEF DrainSent
<1>2. notified \in [Msgs -> [Readers -> Nat]] /\ members \subseteq Readers /\ m \in Msgs
  BY DEF TypeOK
<1>3. CatchUp(m) # {} => r \in Readers
  BY <1>2 DEF CatchUp
<1> HIDE DEF m, r
<1>4. CASE CatchUp(m) # {}
  <2>1. notified[m] \in [Readers -> Nat] /\ notified[m][r] + 1 \in Nat
    BY <1>2, <1>3, <1>4
  <2>2. notified' = [notified EXCEPT ![m] = [notified[m] EXCEPT ![r] = notified[m][r] + 1]]
    BY <1>1, <1>4
  <2>3. QED
    BY <1>2, <1>3, <1>4, <2>1, <2>2
<1>5. QED
  BY <1>1, <1>2, <1>4

(* A step keeps the types.                                                   *)
LEMMA TypeStep ==
    ASSUME TypeOK, NotedOnce, [Next]_vars
    PROVE  TypeOK'
<1> USE ReadAssumption DEF chatVars, timeVars, bookVars, heardVars
<1>1. /\ clock \in Nat /\ next \in 0..Len(outbox) /\ outbox \in Seq(Entries) /\ Len(outbox) \in Nat
  BY DEF TypeOK
<1>2. ASSUME NEW m, NEW b, NEW X, NotedAs(m, b, X), m \in Msgs
      PROVE  /\ pending' \in Seq(Msgs) /\ Len(pending') <= PendingMax
             /\ seen' \in [Msgs -> SUBSET Readers] /\ tracked' \subseteq Msgs
             /\ mark' \in [Readers -> Nat] /\ lastPos' \in [Readers -> Nat]
  BY <1>2 DEF TypeOK, NotedAs
<1>3. ASSUME NEW m \in Msgs, StartC5(m) PROVE TypeOK'
  BY <1>3 DEF StartC5, Tick, TypeOK
<1>4. ASSUME NEW m \in Msgs, StartS4(m) PROVE TypeOK'
  <2>1. PICK X : NotedAs(m, FALSE, X)
    BY <1>4, NoteSteps
  <2>2. QED
    <3>1. /\ pending' \in Seq(Msgs) /\ Len(pending') <= PendingMax
          /\ seen' \in [Msgs -> SUBSET Readers] /\ tracked' \subseteq Msgs
          /\ mark' \in [Readers -> Nat] /\ lastPos' \in [Readers -> Nat]
      BY <1>2, <2>1
    <3>2. /\ kind' \in [Msgs -> {"none", "local", "other"}] /\ born' \in [Msgs -> Nat]
          /\ clock' \in Nat
      BY <1>4 DEF StartS4, Tick, TypeOK
    <3>3. UNCHANGED <<chatVars, pos, waiting, held, readTo, outbox, next, notified, heardVars, restarts>>
      BY <1>4 DEF StartS4
    <3>4. QED
      BY <3>1, <3>2, <3>3 DEF TypeOK
<1>5. ASSUME NEW m \in Msgs, Accept(m) PROVE TypeOK'
  BY <1>5 DEF Accept, Tick, TypeOK
<1>6. ASSUME NEW m \in Msgs, NoteC5(m) PROVE TypeOK'
  <2>1. PICK X : NotedAs(m, FALSE, X)
    BY <1>6, NoteSteps
  <2>2. QED
    BY <1>2, <1>6, <2>1 DEF NoteC5, TypeOK
<1>7. ASSUME NEW m \in Msgs, TimeoutC5(m) PROVE TypeOK'
  BY <1>7 DEF TimeoutC5, TypeOK
<1>8. ASSUME NEW m \in Msgs, OtherSend(m) PROVE TypeOK'
  BY <1>8 DEF OtherSend, Tick, TypeOK
<1>9. ASSUME NEW m \in Msgs, PostSent(m) PROVE TypeOK'
  <2>1. outbox' \in Seq(Entries) /\ Len(outbox') = Len(outbox) + 1
    BY <1>9, NewEntry, EntryFields DEF PostSent
  <2>2. next \in 0..Len(outbox')
    BY <1>1, <2>1
  <2>3. QED
    BY <1>9, <2>1, <2>2 DEF PostSent, TypeOK
<1>10. ASSUME NEW r \in members, NEW m \in Msgs, Read(r, m) PROVE TypeOK'
  <2>1. r \in Readers /\ pos[m] \in Nat /\ clock + 1 \in Nat
    BY <1>1 DEF TypeOK
  <2>2. outbox' \in Seq(Entries) /\ next \in 0..Len(outbox')
    <3>1. CASE outbox' = Append(outbox, ReadEntry(r, pos[m], clock + 1))
      <4>1. outbox' \in Seq(Entries) /\ Len(outbox') = Len(outbox) + 1
        BY <2>1, <3>1, NewEntry, EntryFields
      <4>2. QED
        BY <1>1, <4>1
    <3>2. CASE outbox' = outbox
      BY <1>1, <3>2
    <3>3. QED
      BY <1>10, <3>1, <3>2 DEF Read
  <2>3. readTo' \in [Readers -> Nat] /\ clock' \in Nat
    BY <1>10, <2>1 DEF Read, Tick, TypeOK
  <2>4. QED
    BY <1>10, <2>2, <2>3 DEF Read, TypeOK
<1>11. CASE DrainSent
  <2> DEFINE m == outbox[next + 1].msg
  <2>1. m \in Msgs /\ \E X : NotedAs(m, CatchUp(m) # {}, X)
    BY <1>11, NoteSteps
  <2>2. notified' \in [Msgs -> [Readers -> Nat]]
    BY <1>11, <2>1, CatchUpType
  <2>3. next' \in 0..Len(outbox) /\ UNCHANGED <<timeVars, outbox, heardVars, restarts>>
    BY <1>1, <1>11 DEF DrainSent
  <2> HIDE DEF m
  <2>4. QED
    BY <1>2, <2>1, <2>2, <2>3 DEF TypeOK
<1>12. CASE DrainRead
  <2>1. next' \in 0..Len(outbox) /\ UNCHANGED <<timeVars, outbox, tracked, restarts>>
    BY <1>1, <1>12 DEF DrainRead
  <2>2. QED
    BY <1>12, <2>1, DrainType DEF TypeOK
<1>13. CASE Restart
  BY <1>13 DEF Restart, TypeOK
<1>14. CASE UNCHANGED vars
  BY <1>14 DEF vars, TypeOK
<1>15. QED
  BY <1>3, <1>4, <1>5, <1>6, <1>7, <1>8, <1>9, <1>10, <1>11, <1>12, <1>13, <1>14 DEF Next

(* The chat stays what it is.                                                *)
LEMMA ChatStep ==
    ASSUME Chat, [Next]_vars
    PROVE  Chat' /\ UNCHANGED chatVars
<1> USE DEF chatVars, timeVars, bookVars, heardVars
<1>1. UNCHANGED chatVars
  BY DEF Next, StartC5, StartS4, Accept, NoteC5, TimeoutC5, OtherSend, PostSent, Read, DrainSent,
         DrainRead, Restart, vars
<1>2. QED
  BY <1>1 DEF Chat

-----------------------------------------------------------------------------
(* Read puts one receipt behind the others, or none.                         *)
LEMMA ReadEntries ==
    ASSUME TypeOK, NEW r \in members, NEW m \in Msgs, Read(r, m)
    PROVE  /\ r \in Readers /\ pos[m] \in Nat /\ clock \in Nat /\ clock' = clock + 1
           /\ \/ outbox' = outbox
              \/ /\ outbox' = Append(outbox, ReadEntry(r, pos[m], clock + 1))
                 /\ ReadEntry(r, pos[m], clock + 1) \in Entries
                 /\ \A i \in 1..Len(outbox) :
                       ~(Receipt(i) /\ outbox[i].reader = r /\ outbox[i].position = pos[m])
<1>1. r \in Readers /\ pos[m] \in Nat /\ clock \in Nat /\ clock + 1 \in Nat
  BY DEF TypeOK
<1>2. clock' = clock + 1
  BY DEF Read, Tick
<1>3. ReadEntry(r, pos[m], clock + 1) \in Entries
  BY <1>1, EntryFields
<1>4. \/ outbox' = outbox
      \/ /\ outbox' = Append(outbox, ReadEntry(r, pos[m], clock + 1))
         /\ \A i \in 1..Len(outbox) :
               ~(Receipt(i) /\ outbox[i].reader = r /\ outbox[i].position = pos[m])
  BY DEF Read, SameReceipt, Receipt
<1>5. QED
  BY <1>1, <1>2, <1>3, <1>4

(* Positions and the places of a message in sending.                         *)
LEMMA SendingStep ==
    ASSUME TypeOK, Sending, [Next]_vars
    PROVE  Sending'
<1> USE DEF chatVars, timeVars, bookVars, heardVars
<1>1. /\ kind \in [Msgs -> {"none", "local", "other"}] /\ born \in [Msgs -> Nat]
      /\ pos \in [Msgs -> Nat] /\ clock \in Nat /\ waiting \subseteq Msgs /\ held \subseteq Msgs
      /\ outbox \in Seq(Entries)
  BY DEF TypeOK
<1>2. \A i \in 1..Len(outbox) : Sent(i) => outbox[i].msg \in Msgs
  BY <1>1, EntryFields DEF Sent
<1>3. CASE UNCHANGED <<clock, kind, born, pos, held, outbox>> /\ waiting' \subseteq waiting
  BY <1>3 DEF Sending, Sent
<1>4. ASSUME NEW m \in Msgs, StartC5(m) \/ StartS4(m) PROVE Sending'
  <2>1. /\ kind[m] = "none" /\ clock' = clock + 1 /\ kind' = [kind EXCEPT ![m] = "local"]
        /\ born' = [born EXCEPT ![m] = clock + 1] /\ waiting' \subseteq waiting \cup {m}
        /\ UNCHANGED <<pos, held, outbox>>
    BY <1>4 DEF StartC5, StartS4, Tick
  <2>2. m \notin held /\ pos[m] = 0 /\ \A i \in 1..Len(outbox) : Sent(i) => outbox[i].msg # m
    BY <2>1 DEF Sending
  <2>3. \A x \in Msgs : /\ kind'[x] = "none" => pos'[x] = 0
                        /\ kind'[x] = "other" => pos'[x] = born'[x] /\ pos'[x] > 0
                        /\ pos'[x] > 0 => born'[x] <= pos'[x]
                        /\ pos'[x] <= clock' /\ born'[x] <= clock'
    BY <1>1, <2>1, <2>2 DEF Sending
  <2>4. \A x \in waiting' : kind'[x] = "local"
    BY <1>1, <2>1 DEF Sending
  <2>5. \A x \in held' : kind'[x] = "other"
    BY <1>1, <2>1, <2>2 DEF Sending
  <2>6. \A i \in 1..Len(outbox') : Sent(i)' => kind'[outbox'[i].msg] = "other" /\ outbox'[i].msg \notin held'
    BY <1>1, <1>2, <2>1, <2>2 DEF Sending, Sent
  <2>7. QED
    BY <2>3, <2>4, <2>5, <2>6 DEF Sending
<1>5. ASSUME NEW m \in Msgs, Accept(m) PROVE Sending'
  <2>1. /\ kind[m] = "local" /\ pos[m] = 0 /\ clock' = clock + 1 /\ pos' = [pos EXCEPT ![m] = clock + 1]
        /\ UNCHANGED <<kind, born, waiting, held, outbox>>
    BY <1>5 DEF Accept, Tick
  <2>2. \A x \in Msgs : /\ kind[x] = "none" => pos'[x] = 0
                        /\ kind[x] = "other" => pos'[x] = born[x] /\ pos'[x] > 0
                        /\ pos'[x] > 0 => born[x] <= pos'[x]
                        /\ pos'[x] <= clock' /\ born[x] <= clock'
    BY <1>1, <2>1 DEF Sending
  <2>3. QED
    BY <2>1, <2>2 DEF Sending, Sent
<1>6. ASSUME NEW m \in Msgs, OtherSend(m) PROVE Sending'
  <2>1. /\ kind[m] = "none" /\ clock' = clock + 1 /\ kind' = [kind EXCEPT ![m] = "other"]
        /\ born' = [born EXCEPT ![m] = clock + 1] /\ pos' = [pos EXCEPT ![m] = clock + 1]
        /\ held' = held \cup {m} /\ UNCHANGED <<waiting, outbox>>
    BY <1>6 DEF OtherSend, Tick
  <2>2. m \notin waiting /\ \A i \in 1..Len(outbox) : Sent(i) => outbox[i].msg # m
    BY <2>1 DEF Sending
  <2>3. \A x \in Msgs : /\ kind'[x] = "none" => pos'[x] = 0
                        /\ kind'[x] = "other" => pos'[x] = born'[x] /\ pos'[x] > 0
                        /\ pos'[x] > 0 => born'[x] <= pos'[x]
                        /\ pos'[x] <= clock' /\ born'[x] <= clock'
    BY <1>1, <2>1 DEF Sending
  <2>4. \A x \in waiting' : kind'[x] = "local"
    BY <1>1, <2>1, <2>2 DEF Sending
  <2>5. \A x \in held' : kind'[x] = "other"
    BY <1>1, <2>1 DEF Sending
  <2>6. \A i \in 1..Len(outbox') : Sent(i)' => kind'[outbox'[i].msg] = "other" /\ outbox'[i].msg \notin held'
    BY <1>1, <1>2, <2>1, <2>2 DEF Sending, Sent
  <2>7. QED
    BY <2>3, <2>4, <2>5, <2>6 DEF Sending
<1>7. ASSUME NEW m \in Msgs, PostSent(m) PROVE Sending'
  <2>1. /\ m \in held /\ held' = held \ {m} /\ outbox' = Append(outbox, SentEntry(m))
        /\ UNCHANGED <<clock, kind, born, pos, waiting>>
    BY <1>7 DEF PostSent
  <2>2. /\ outbox'[Len(outbox) + 1] = SentEntry(m)
        /\ \A i \in 1..Len(outbox) : outbox'[i] = outbox[i]
        /\ \A i \in 1..Len(outbox') : i \in 1..Len(outbox) \/ i = Len(outbox) + 1
    BY <2>1, NewEntry, EntryFields
  <2>3. SentEntry(m).msg = m
    BY EntryFields
  <2>4. \A i \in 1..Len(outbox') : Sent(i)' => kind[outbox'[i].msg] = "other" /\ outbox'[i].msg \notin held'
    BY <2>1, <2>2, <2>3 DEF Sending, Sent
  <2>5. QED
    BY <2>1, <2>4 DEF Sending
<1>8. ASSUME NEW r \in members, NEW m \in Msgs, Read(r, m) PROVE Sending'
  <2>1. UNCHANGED <<kind, born, pos, waiting, held>> /\ clock' = clock + 1
    BY <1>8 DEF Read, Tick
  <2>2. \A x \in Msgs : pos[x] <= clock' /\ born[x] <= clock'
    BY <1>1, <2>1 DEF Sending
  <2>3. \A i \in 1..Len(outbox') : Sent(i)' => i \in 1..Len(outbox) /\ outbox'[i] = outbox[i] /\ Sent(i)
    <3>1. CASE outbox' = outbox
      BY <3>1 DEF Sent
    <3>2. CASE /\ outbox' = Append(outbox, ReadEntry(r, pos[m], clock + 1))
               /\ ReadEntry(r, pos[m], clock + 1) \in Entries
      <4>1. /\ outbox'[Len(outbox) + 1] = ReadEntry(r, pos[m], clock + 1)
            /\ \A i \in 1..Len(outbox) : outbox'[i] = outbox[i]
            /\ \A i \in 1..Len(outbox') : i \in 1..Len(outbox) \/ i = Len(outbox) + 1
        BY <3>2, NewEntry
      <4>2. ReadEntry(r, pos[m], clock + 1).kind = "read"
        BY DEF ReadEntry
      <4>3. QED
        BY <4>1, <4>2 DEF Sent
    <3>3. QED
      BY <1>8, <3>1, <3>2, ReadEntries
  <2>4. QED
    BY <2>1, <2>2, <2>3 DEF Sending
<1>9. ASSUME NEW m \in Msgs, NoteC5(m) \/ TimeoutC5(m) PROVE Sending'
  BY <1>3, <1>9 DEF NoteC5, TimeoutC5
<1>10. CASE DrainSent \/ DrainRead \/ Restart \/ UNCHANGED vars
  BY <1>3, <1>10 DEF DrainSent, DrainRead, Restart, vars
<1>11. QED
  BY <1>4, <1>5, <1>6, <1>7, <1>8, <1>9, <1>10 DEF Next

(* append_outbox takes an entry once.                                        *)
LEMMA OneEntryStep ==
    ASSUME TypeOK, Sending, OneEntry, [Next]_vars
    PROVE  OneEntry'
<1> USE DEF chatVars, timeVars, bookVars, heardVars
<1>1. CASE UNCHANGED outbox
  BY <1>1 DEF OneEntry, SameEntry, Sent, Receipt
<1>2. ASSUME NEW e \in Entries, outbox' = Append(outbox, e),
             \A i \in 1..Len(outbox) :
                /\ ~(Sent(i) /\ e.kind = "sent" /\ outbox[i].msg = e.msg)
                /\ ~(Receipt(i) /\ e.kind = "read" /\ outbox[i].reader = e.reader
                     /\ outbox[i].position = e.position)
      PROVE  OneEntry'
  <2>1. /\ outbox'[Len(outbox) + 1] = e
        /\ \A i \in 1..Len(outbox) : outbox'[i] = outbox[i]
        /\ \A i \in 1..Len(outbox') : i \in 1..Len(outbox) \/ i = Len(outbox) + 1
    BY <1>2, NewEntry
  <2>2. ASSUME NEW i \in 1..Len(outbox'), NEW k \in 1..Len(outbox'), SameEntry(i, k)' PROVE i = k
    <3>1. CASE i \in 1..Len(outbox) /\ k \in 1..Len(outbox)
      <4>1. SameEntry(i, k)
        BY <2>1, <2>2, <3>1 DEF SameEntry, Sent, Receipt
      <4>2. QED
        BY <3>1, <4>1 DEF OneEntry
    <3>2. CASE i \in 1..Len(outbox) /\ k = Len(outbox) + 1
      BY <1>2, <2>1, <2>2, <3>2 DEF SameEntry, Sent, Receipt
    <3>3. CASE i = Len(outbox) + 1 /\ k \in 1..Len(outbox)
      BY <1>2, <2>1, <2>2, <3>3 DEF SameEntry, Sent, Receipt
    <3>4. QED
      BY <2>1, <3>1, <3>2, <3>3
  <2>3. QED
    BY <2>2 DEF OneEntry
<1>3. ASSUME NEW m \in Msgs, PostSent(m) PROVE OneEntry'
  <2>1. m \in held /\ outbox' = Append(outbox, SentEntry(m))
    BY <1>3 DEF PostSent
  <2>2. SentEntry(m) \in Entries /\ SentEntry(m).kind = "sent" /\ SentEntry(m).msg = m
    BY EntryFields
  <2>3. \A i \in 1..Len(outbox) : ~(Sent(i) /\ outbox[i].msg = m)
    BY <2>1 DEF Sending
  <2>4. QED
    BY <1>2, <2>1, <2>2, <2>3
<1>4. ASSUME NEW r \in members, NEW m \in Msgs, Read(r, m) PROVE OneEntry'
  <2> DEFINE e == ReadEntry(r, pos[m], clock + 1)
  <2>1. e.kind = "read" /\ e.reader = r /\ e.position = pos[m]
    BY DEF ReadEntry
  <2>2. \/ outbox' = outbox
        \/ /\ outbox' = Append(outbox, e) /\ e \in Entries
           /\ \A i \in 1..Len(outbox) :
                 ~(Receipt(i) /\ outbox[i].reader = r /\ outbox[i].position = pos[m])
    BY <1>4, ReadEntries
  <2> HIDE DEF e
  <2>3. QED
    BY <1>1, <1>2, <2>1, <2>2
<1>5. ASSUME NEW m \in Msgs, \/ StartC5(m) \/ StartS4(m) \/ Accept(m) \/ NoteC5(m)
                             \/ TimeoutC5(m) \/ OtherSend(m)
      PROVE  UNCHANGED outbox
  BY <1>5 DEF StartC5, StartS4, Accept, NoteC5, TimeoutC5, OtherSend
<1>6. ASSUME DrainSent \/ DrainRead \/ Restart \/ UNCHANGED vars PROVE UNCHANGED outbox
  BY <1>6 DEF DrainSent, DrainRead, Restart, vars
<1>7. QED
  BY <1>1, <1>3, <1>4, <1>5, <1>6 DEF Next

(* What an entry says of a message no longer changes.                        *)
LEMMA SentIsFixed ==
    ASSUME TypeOK, Sending, [Next]_vars, NEW i \in 1..Len(outbox), Sent(i)
    PROVE  /\ outbox[i].msg \in Msgs
           /\ born'[outbox[i].msg] = born[outbox[i].msg] /\ pos'[outbox[i].msg] = pos[outbox[i].msg]
<1> USE DEF chatVars, timeVars, bookVars, heardVars
<1> DEFINE x == outbox[i].msg
<1>1. outbox[i] \in Entries
  BY DEF TypeOK
<1>2. x \in Msgs /\ kind[x] = "other"
  BY <1>1, EntryFields DEF Sent, Sending
<1> HIDE DEF x
<1>3. born \in [Msgs -> Nat] /\ pos \in [Msgs -> Nat]
  BY DEF TypeOK
<1>4. ASSUME NEW m \in Msgs, StartC5(m) \/ StartS4(m) \/ OtherSend(m)
      PROVE  born'[x] = born[x] /\ pos'[x] = pos[x]
  BY <1>2, <1>3, <1>4 DEF StartC5, StartS4, OtherSend
<1>5. ASSUME NEW m \in Msgs, Accept(m) PROVE born'[x] = born[x] /\ pos'[x] = pos[x]
  BY <1>2, <1>3, <1>5 DEF Accept
<1>6. ASSUME NEW m \in Msgs, NoteC5(m) \/ TimeoutC5(m) \/ PostSent(m) \/ \E r \in members : Read(r, m)
      PROVE  UNCHANGED <<born, pos>>
  BY <1>6 DEF NoteC5, TimeoutC5, PostSent, Read
<1>7. ASSUME DrainSent \/ DrainRead \/ Restart \/ UNCHANGED vars PROVE UNCHANGED <<born, pos>>
  BY <1>7 DEF DrainSent, DrainRead, Restart, vars
<1>8. born'[x] = born[x] /\ pos'[x] = pos[x]
  BY <1>4, <1>5, <1>6, <1>7 DEF Next
<1>9. QED
  BY <1>2, <1>8 DEF x

(* Only Read moves what a reader has read, and only forward.                 *)
LEMMA ReadToGrows ==
    ASSUME TypeOK, [Next]_vars
    PROVE  /\ \A r \in Readers : readTo[r] \in Nat /\ readTo'[r] \in Nat /\ readTo[r] <= readTo'[r]
           /\ clock \in Nat /\ clock' \in Nat /\ clock <= clock'
           /\ \A r \in members, m \in Msgs : Read(r, m) => pos[m] <= readTo'[r]
<1> USE DEF chatVars, timeVars, bookVars, heardVars
<1>1. readTo \in [Readers -> Nat] /\ pos \in [Msgs -> Nat] /\ members \subseteq Readers /\ clock \in Nat
  BY DEF TypeOK
<1>2. ASSUME NEW r \in members, NEW m \in Msgs, Read(r, m)
      PROVE  /\ \A q \in Readers : readTo[q] \in Nat /\ readTo'[q] \in Nat /\ readTo[q] <= readTo'[q]
             /\ pos[m] <= readTo'[r] /\ clock' = clock + 1
  <2>1. readTo' = [readTo EXCEPT ![r] = IF pos[m] > readTo[r] THEN pos[m] ELSE readTo[r]]
    BY <1>2 DEF Read
  <2>2. pos[m] \in Nat /\ readTo[r] \in Nat /\ r \in Readers
    BY <1>1
  <2>3. QED
    BY <1>1, <1>2, <2>1, <2>2 DEF Read, Tick
<1>3. ASSUME NEW m \in Msgs, \/ StartC5(m) \/ StartS4(m) \/ Accept(m) \/ NoteC5(m)
                             \/ TimeoutC5(m) \/ OtherSend(m) \/ PostSent(m)
      PROVE  UNCHANGED readTo /\ (clock' = clock \/ clock' = clock + 1)
  BY <1>3 DEF StartC5, StartS4, Accept, NoteC5, TimeoutC5, OtherSend, PostSent, Tick
<1>4. ASSUME DrainSent \/ DrainRead \/ Restart \/ UNCHANGED vars
      PROVE  UNCHANGED <<readTo, clock>>
  BY <1>4 DEF DrainSent, DrainRead, Restart, vars
<1>5. (UNCHANGED readTo /\ (clock' = clock \/ clock' = clock + 1)) \/ \E r \in members, m \in Msgs : Read(r, m)
  BY <1>3, <1>4 DEF Next
<1>6. CASE \E r \in members, m \in Msgs : Read(r, m)
  BY <1>1, <1>2, <1>6
<1>7. CASE UNCHANGED readTo /\ (clock' = clock \/ clock' = clock + 1)
  <2>1. \A r \in Readers : readTo[r] \in Nat /\ readTo'[r] \in Nat /\ readTo[r] <= readTo'[r]
    BY <1>1, <1>7
  <2>2. QED
    BY <1>1, <1>2, <1>7, <2>1
<1>8. QED
  BY <1>5, <1>6, <1>7

(* Receipts are true and in order.                                           *)
LEMMA InTimeStep ==
    ASSUME TypeOK, Chat, Sending, InTime, [Next]_vars
    PROVE  InTime'
<1> USE DEF chatVars, timeVars, bookVars, heardVars
<1>1. outbox \in Seq(Entries) /\ pos \in [Msgs -> Nat] /\ born \in [Msgs -> Nat] /\ members \subseteq Readers
  BY DEF TypeOK
<1>2. \A i \in 1..Len(outbox) :
         /\ Receipt(i) => /\ outbox[i].reader \in members /\ outbox[i].reader \in Readers
                          /\ outbox[i].position \in Nat /\ outbox[i].created \in Nat
                          /\ outbox[i].position <= readTo[outbox[i].reader]
                          /\ outbox[i].position <= outbox[i].created /\ outbox[i].created <= clock
         /\ Sent(i) => outbox[i].msg \in Msgs
  BY <1>1, EntryFields DEF InTime, Receipt, Sent
<1>3. /\ \A r \in Readers : readTo[r] \in Nat /\ readTo'[r] \in Nat /\ readTo[r] <= readTo'[r]
      /\ clock \in Nat /\ clock' \in Nat /\ clock <= clock'
  BY ReadToGrows
<1>4. /\ \A i \in 1..Len(outbox) : Sent(i) =>
            born'[outbox[i].msg] = born[outbox[i].msg] /\ pos'[outbox[i].msg] = pos[outbox[i].msg]
      /\ members' = members /\ group' = group
  BY SentIsFixed, ChatStep
<1>5. \A k \in 1..Len(outbox) : Receipt(k) =>
         /\ outbox[k].position <= readTo'[outbox[k].reader] /\ outbox[k].created <= clock'
  BY <1>2, <1>3
<1>6. CASE UNCHANGED outbox
  BY <1>2, <1>4, <1>5, <1>6 DEF InTime, Receipt, Sent
<1>7. ASSUME NEW e \in Entries, outbox' = Append(outbox, e),
             e.kind = "read" => /\ e.reader \in members /\ e.position <= readTo'[e.reader]
                                /\ e.position <= e.created /\ e.created <= clock'
                                /\ \A i \in 1..Len(outbox) :
                                      /\ Receipt(i) => outbox[i].created <= e.created
                                      /\ Sent(i) => /\ born[outbox[i].msg] <= e.created
                                                    /\ ~group => pos[outbox[i].msg] <= e.position
      PROVE  InTime'
  <2>1. /\ outbox'[Len(outbox) + 1] = e /\ Len(outbox) \in Nat
        /\ \A i \in 1..Len(outbox) : outbox'[i] = outbox[i]
        /\ \A i \in 1..Len(outbox') : i \in 1..Len(outbox) \/ i = Len(outbox) + 1
    BY <1>7, NewEntry
  <2>2. ASSUME NEW k \in 1..Len(outbox'), Receipt(k)'
        PROVE  /\ outbox'[k].reader \in members' /\ outbox'[k].position <= readTo'[outbox'[k].reader]
               /\ outbox'[k].position <= outbox'[k].created /\ outbox'[k].created <= clock'
    <3>1. CASE k \in 1..Len(outbox)
      BY <1>2, <1>4, <1>5, <2>1, <2>2, <3>1 DEF Receipt
    <3>2. CASE k = Len(outbox) + 1
      BY <1>4, <1>7, <2>1, <2>2, <3>2 DEF Receipt
    <3>3. QED
      BY <2>1, <3>1, <3>2
  <2>3. ASSUME NEW i \in 1..Len(outbox'), NEW k \in 1..Len(outbox'), i < k, Receipt(k)'
        PROVE  /\ Receipt(i)' => outbox'[i].created <= outbox'[k].created
               /\ Sent(i)' => /\ born'[outbox'[i].msg] <= outbox'[k].created
                              /\ ~group' => pos'[outbox'[i].msg] <= outbox'[k].position
    <3>1. i \in 1..Len(outbox)
      BY <2>1, <2>3
    <3>2. CASE k \in 1..Len(outbox)
      BY <1>4, <2>1, <2>3, <3>1, <3>2 DEF InTime, Receipt, Sent
    <3>3. CASE k = Len(outbox) + 1
      BY <1>4, <1>7, <2>1, <2>3, <3>1, <3>3 DEF Receipt, Sent
    <3>4. QED
      BY <2>1, <3>2, <3>3
  <2>4. QED
    BY <2>2, <2>3 DEF InTime
<1>8. ASSUME NEW m \in Msgs, PostSent(m) PROVE InTime'
  BY <1>7, <1>8, EntryFields DEF PostSent
<1>9. ASSUME NEW r \in members, NEW m \in Msgs, Read(r, m) PROVE InTime'
  <2> DEFINE e == ReadEntry(r, pos[m], clock + 1)
  <2>1. e.kind = "read" /\ e.reader = r /\ e.position = pos[m] /\ e.created = clock + 1
    BY DEF ReadEntry
  <2>2. pos[m] <= readTo'[r] /\ pos[m] <= clock /\ clock' = clock + 1 /\ pos[m] \in Nat
    BY <1>1, <1>9, ReadToGrows, ReadEntries DEF Sending
  <2>3. ~group => \A x \in Msgs : pos[x] <= pos[m]
    BY <1>9 DEF Read
  <2>4. ASSUME NEW i \in 1..Len(outbox)
        PROVE  /\ Receipt(i) => outbox[i].created <= clock + 1
               /\ Sent(i) => /\ born[outbox[i].msg] <= clock + 1
                             /\ ~group => pos[outbox[i].msg] <= pos[m]
    <3>1. Receipt(i) => outbox[i].created <= clock + 1
      BY <1>2, <1>3
    <3>2. Sent(i) => outbox[i].msg \in Msgs /\ born[outbox[i].msg] \in Nat /\ born[outbox[i].msg] <= clock
      BY <1>1, <1>2 DEF Sending
    <3>3. QED
      BY <1>3, <2>3, <3>1, <3>2
  <2>5. pos[m] <= clock + 1 /\ clock + 1 <= clock'
    BY <1>3, <2>2
  <2>6. outbox' = outbox \/ (outbox' = Append(outbox, e) /\ e \in Entries)
    BY <1>9, ReadEntries
  <2> HIDE DEF e
  <2>7. QED
    BY <1>6, <1>7, <2>1, <2>2, <2>4, <2>5, <2>6
<1>10. ASSUME NEW m \in Msgs, \/ StartC5(m) \/ StartS4(m) \/ Accept(m) \/ NoteC5(m)
                              \/ TimeoutC5(m) \/ OtherSend(m)
       PROVE  UNCHANGED outbox
  BY <1>10 DEF StartC5, StartS4, Accept, NoteC5, TimeoutC5, OtherSend
<1>11. ASSUME DrainSent \/ DrainRead \/ Restart \/ UNCHANGED vars PROVE UNCHANGED outbox
  BY <1>11 DEF DrainSent, DrainRead, Restart, vars
<1>12. QED
  BY <1>6, <1>8, <1>9, <1>10, <1>11 DEF Next

-----------------------------------------------------------------------------
(* NotedOnce where the ids of S are noted.                                   *)
LEMMA NotedKeep ==
    ASSUME NotedOnce, NEW S,
           Pending' \subseteq Pending \cup S, tracked' \subseteq tracked \cup S, Unique(pending'),
           \A x \in Msgs : Unnoted(x)' => Unnoted(x) /\ x \notin S /\ notified'[x] = notified[x],
           \A x \in Msgs : kind'[x] = "other" => kind[x] = "other" \/ Unnoted(x) \/ x \in S,
           \A x \in S : kind'[x] = "other" => \E i \in 1..next' : Sent(i)' /\ outbox'[i].msg = x,
           \A i \in 1..next : i \in 1..next' /\ outbox'[i] = outbox[i]
    PROVE  NotedOnce'
<1>1. ASSUME NEW x \in Msgs, Unnoted(x)'
      PROVE  x \notin Pending' /\ x \notin tracked' /\ \A r \in Readers : notified'[x][r] = 0
  BY <1>1 DEF NotedOnce
<1>2. ASSUME NEW x \in Msgs, kind'[x] = "other", x \in Pending' \/ x \in tracked'
      PROVE  \E i \in 1..next' : Sent(i)' /\ outbox'[i].msg = x
  <2>1. CASE x \in S
    BY <1>2, <2>1
  <2>2. CASE x \notin S
    <3>1. x \in Pending \/ x \in tracked
      BY <1>2, <2>2
    <3>2. kind[x] = "other"
      BY <1>2, <2>2, <3>1 DEF NotedOnce
    <3>3. PICK i \in 1..next : Sent(i) /\ outbox[i].msg = x
      BY <3>1, <3>2 DEF NotedOnce
    <3>4. QED
      BY <3>3 DEF Sent
  <2>3. QED
    BY <2>1, <2>2
<1>3. QED
  BY <1>1, <1>2 DEF NotedOnce

(* NotedOnce where no id is noted.                                           *)
LEMMA NotedSame ==
    ASSUME NotedOnce,
           Pending' \subseteq Pending, tracked' \subseteq tracked, Unique(pending'),
           \A x \in Msgs : Unnoted(x)' => Unnoted(x) /\ notified'[x] = notified[x],
           \A x \in Msgs : kind'[x] = "other" => kind[x] = "other" \/ Unnoted(x),
           \A i \in 1..next : i \in 1..next' /\ outbox'[i] = outbox[i]
    PROVE  NotedOnce'
<1>1. SUFFICES ASSUME NEW S, S = {} PROVE NotedOnce'
  OBVIOUS
<1>2. Pending' \subseteq Pending \cup S /\ tracked' \subseteq tracked \cup S
  OBVIOUS
<1>3. \A x \in Msgs : Unnoted(x)' => Unnoted(x) /\ x \notin S /\ notified'[x] = notified[x]
  BY <1>1
<1>4. \A x \in Msgs : kind'[x] = "other" => kind[x] = "other" \/ Unnoted(x) \/ x \in S
  OBVIOUS
<1>5. \A x \in S : kind'[x] = "other" => \E i \in 1..next' : Sent(i)' /\ outbox'[i].msg = x
  BY <1>1
<1>6. QED
  BY <1>2, <1>3, <1>4, <1>5, NotedKeep

(* Ids are noted once.                                                       *)
LEMMA NotedStep ==
    ASSUME TypeOK, Sending, OneEntry, NotedOnce, [Next]_vars
    PROVE  NotedOnce'
<1> USE DEF chatVars, timeVars, bookVars, heardVars
<1>1. /\ kind \in [Msgs -> {"none", "local", "other"}] /\ next \in Nat /\ outbox \in Seq(Entries)
      /\ next \in 0..Len(outbox) /\ Len(outbox) \in Nat
  BY DEF TypeOK
<1>2. Unique(pending) /\ pending \in Seq(Msgs)
  BY DEF NotedOnce, TypeOK
<1>3. ASSUME UNCHANGED <<outbox, next>> PROVE \A i \in 1..next : i \in 1..next' /\ outbox'[i] = outbox[i]
  BY <1>3
<1>4. ASSUME NEW x \in Msgs, UNCHANGED <<outbox, next>>, kind'[x] = kind[x], x \in waiting' => x \in waiting,
             x \in held' => x \in held, Unnoted(x)'
      PROVE  Unnoted(x)
  BY <1>4 DEF Unnoted, Sent
<1>5. CASE /\ UNCHANGED <<kind, held, outbox, next, notified>> /\ waiting' \subseteq waiting
           /\ pending' \in {pending, <<>>} /\ tracked' \in {tracked, {}}
  <2>1. Pending' \subseteq Pending /\ tracked' \subseteq tracked /\ Unique(pending')
    BY <1>2, <1>5 DEF Pending, Unique, ToSet
  <2>2. \A x \in Msgs : Unnoted(x)' => Unnoted(x) /\ notified'[x] = notified[x]
    BY <1>4, <1>5
  <2>3. \A x \in Msgs : kind'[x] = "other" => kind[x] = "other" \/ Unnoted(x)
    BY <1>5
  <2>4. QED
    BY <1>3, <1>5, <2>1, <2>2, <2>3, NotedSame
<1>6. ASSUME NEW m \in Msgs, StartC5(m) \/ OtherSend(m) PROVE NotedOnce'
  <2>1. /\ kind[m] = "none" /\ kind' \in {[kind EXCEPT ![m] = "local"], [kind EXCEPT ![m] = "other"]}
        /\ waiting' \subseteq waiting \cup {m} /\ held' \subseteq held \cup {m}
        /\ UNCHANGED <<outbox, next, pending, tracked, notified>>
    BY <1>6 DEF StartC5, OtherSend
  <2>2. Unnoted(m) /\ \A x \in Msgs : x # m => kind'[x] = kind[x]
    BY <1>1, <2>1 DEF Unnoted
  <2>3. \A x \in Msgs : Unnoted(x)' => Unnoted(x) /\ notified'[x] = notified[x]
    BY <1>4, <2>1, <2>2
  <2>4. \A x \in Msgs : kind'[x] = "other" => kind[x] = "other" \/ Unnoted(x)
    BY <2>2
  <2>5. Pending' \subseteq Pending /\ tracked' \subseteq tracked /\ Unique(pending')
    BY <1>2, <2>1 DEF Pending
  <2>6. QED
    BY <1>3, <2>1, <2>3, <2>4, <2>5, NotedSame
<1>7. ASSUME NEW m \in Msgs, NEW b \in BOOLEAN, NEW X, NotedAs(m, b, X)
      PROVE  Pending' \subseteq Pending \cup {m} /\ tracked' \subseteq tracked \cup {m} /\ Unique(pending')
  BY <1>7 DEF NotedAs
<1>8. ASSUME NEW m \in Msgs, StartS4(m) \/ NoteC5(m) PROVE NotedOnce'
  <2>1. PICK X : NotedAs(m, FALSE, X)
    BY <1>8, NoteSteps
  <2>2. Pending' \subseteq Pending \cup {m} /\ tracked' \subseteq tracked \cup {m} /\ Unique(pending')
    BY <1>7, <2>1
  <2>3. /\ kind[m] # "other" /\ kind'[m] = "local" /\ (\A x \in Msgs : x # m => kind'[x] = kind[x])
        /\ m \notin waiting' /\ waiting' \subseteq waiting
        /\ UNCHANGED <<held, outbox, next, notified>>
    <3>1. CASE StartS4(m)
      BY <1>1, <3>1 DEF StartS4, Sending
    <3>2. CASE NoteC5(m)
      BY <1>1, <3>2 DEF NoteC5, Sending
    <3>3. QED
      BY <1>8, <3>1, <3>2
  <2>4. m \notin held /\ \A i \in 1..Len(outbox) : ~(Sent(i) /\ outbox[i].msg = m)
    BY <2>3 DEF Sending
  <2>5. ~Unnoted(m)'
    BY <2>3, <2>4 DEF Unnoted, Sent
  <2>6. \A x \in Msgs : Unnoted(x)' => Unnoted(x) /\ x \notin {m} /\ notified'[x] = notified[x]
    BY <1>4, <2>3, <2>5
  <2>7. \A x \in Msgs : kind'[x] = "other" => kind[x] = "other" \/ Unnoted(x) \/ x \in {m}
    BY <2>3
  <2>8. \A x \in {m} : kind'[x] = "other" => \E i \in 1..next' : Sent(i)' /\ outbox'[i].msg = x
    BY <2>3
  <2>9. QED
    BY <1>3, <2>2, <2>3, <2>6, <2>7, <2>8, NotedKeep
<1>9. ASSUME NEW e \in Entries, outbox' = Append(outbox, e),
             e.kind = "sent" => e.msg \in held, held' \subseteq held,
             UNCHANGED <<kind, waiting, next, pending, tracked, notified>>
      PROVE  NotedOnce'
  <2>1. /\ outbox'[Len(outbox) + 1] = e
        /\ \A i \in 1..Len(outbox) : outbox'[i] = outbox[i]
        /\ \A i \in 1..Len(outbox') : i \in 1..Len(outbox) \/ i = Len(outbox) + 1
    BY <1>9, NewEntry
  <2>2. ASSUME NEW x \in Msgs, Unnoted(x)' PROVE Unnoted(x)
    <3>1. ASSUME NEW i \in 1..Len(outbox'), i > next', Sent(i)', outbox'[i].msg = x PROVE Unnoted(x)
      <4>1. CASE i \in 1..Len(outbox)
        BY <1>9, <2>1, <3>1, <4>1 DEF Unnoted, Sent
      <4>2. CASE i = Len(outbox) + 1
        BY <1>9, <2>1, <3>1, <4>2 DEF Unnoted, Sent
      <4>3. QED
        BY <2>1, <4>1, <4>2
    <3>2. QED
      BY <1>9, <2>2, <3>1 DEF Unnoted
  <2>3. \A i \in 1..next : i \in 1..next' /\ outbox'[i] = outbox[i]
    BY <1>1, <1>9, <2>1
  <2>4. Pending' \subseteq Pending /\ tracked' \subseteq tracked /\ Unique(pending')
    BY <1>2, <1>9 DEF Pending
  <2>5. \A x \in Msgs : Unnoted(x)' => Unnoted(x) /\ notified'[x] = notified[x]
    BY <1>9, <2>2
  <2>6. \A x \in Msgs : kind'[x] = "other" => kind[x] = "other" \/ Unnoted(x)
    BY <1>9
  <2>7. QED
    BY <2>3, <2>4, <2>5, <2>6, NotedSame
<1>10. ASSUME NEW m \in Msgs, PostSent(m) PROVE NotedOnce'
  <2>1. SentEntry(m) \in Entries /\ SentEntry(m).msg = m
    BY EntryFields
  <2>2. QED
    BY <1>9, <1>10, <2>1 DEF PostSent
<1>11. ASSUME NEW r \in members, NEW m \in Msgs, Read(r, m) PROVE NotedOnce'
  <2>1. UNCHANGED <<kind, waiting, held, next, pending, tracked, notified>>
    BY <1>11 DEF Read
  <2>2. ReadEntry(r, pos[m], clock + 1).kind = "read"
    BY DEF ReadEntry
  <2>3. CASE outbox' = outbox
    BY <1>5, <2>1, <2>3
  <2>4. QED
    BY <1>9, <1>11, <2>1, <2>2, <2>3, ReadEntries
<1>12. CASE DrainSent
  <2>0. SUFFICES ASSUME NEW m, m = outbox[next + 1].msg PROVE NotedOnce'
    OBVIOUS
  <2> DEFINE r == CHOOSE x \in CatchUp(m) : TRUE
  <2>1. next + 1 \in 1..Len(outbox) /\ Sent(next + 1) /\ m \in Msgs /\ next' = next + 1
    BY <1>12, <2>0, NextEntry, NoteSteps DEF DrainSent, Sent
  <2>2. PICK X : NotedAs(m, CatchUp(m) # {}, X)
    BY <1>12, <2>0, NoteSteps
  <2>3. /\ UNCHANGED <<kind, waiting, held, outbox>>
        /\ notified' = IF CatchUp(m) = {} THEN notified ELSE [notified EXCEPT ![m][r] = @ + 1]
    BY <1>12, <2>0 DEF DrainSent
  <2>4. kind[m] = "other" /\ m \notin held /\ m \notin waiting
    BY <2>0, <2>1 DEF Sending
  <2>5. \A i \in 1..Len(outbox) : Sent(i) /\ outbox[i].msg = m => i = next + 1
    BY <2>0, <2>1 DEF OneEntry, SameEntry
  <2>6. next + 1 \in 1..next' /\ \A i \in 1..next : i \in 1..next'
    BY <1>1, <2>1
  <2>7. ASSUME NEW i \in 1..Len(outbox), i > next' PROVE i > next /\ i # next + 1
    BY <1>1, <2>1, <2>7
  <2> HIDE DEF r
  <2>8. \A x \in Msgs : x # m => notified'[x] = notified[x]
    <3>1. notified \in [Msgs -> [Readers -> Nat]]
      BY DEF TypeOK
    <3>2. QED
      BY <2>3, <3>1
  <2>9. Pending' \subseteq Pending \cup {m} /\ tracked' \subseteq tracked \cup {m} /\ Unique(pending')
    BY <2>2 DEF NotedAs
  <2>10. \E i \in 1..next' : Sent(i)' /\ outbox'[i].msg = m
    BY <2>0, <2>1, <2>3, <2>6 DEF Sent
  <2>11. ~Unnoted(m)'
    <3>1. Unnoted(m)' => \E i \in 1..Len(outbox) : i > next' /\ Sent(i) /\ outbox[i].msg = m
      BY <2>3, <2>4 DEF Unnoted, Sent
    <3>2. QED
      BY <2>5, <2>7, <3>1
  <2>12. \A x \in Msgs : Unnoted(x)' => Unnoted(x)
    BY <2>3, <2>7 DEF Unnoted, Sent
  <2>13. \A x \in Msgs : Unnoted(x)' => Unnoted(x) /\ x \notin {m} /\ notified'[x] = notified[x]
    BY <2>8, <2>11, <2>12
  <2>14. \A x \in Msgs : kind'[x] = "other" => kind[x] = "other" \/ Unnoted(x) \/ x \in {m}
    BY <2>3
  <2>15. \A x \in {m} : kind'[x] = "other" => \E i \in 1..next' : Sent(i)' /\ outbox'[i].msg = x
    BY <2>10
  <2>16. \A i \in 1..next : i \in 1..next' /\ outbox'[i] = outbox[i]
    BY <2>3, <2>6
  <2>17. QED
    BY <2>9, <2>13, <2>14, <2>15, <2>16, NotedKeep
<1>13. CASE DrainRead
  <2> DEFINE ids == Taken(outbox[next + 1])
             r == outbox[next + 1].reader
  <2>1. /\ UNCHANGED <<kind, waiting, held, outbox, tracked>> /\ next' = next + 1
        /\ pending' \in {pending, <<>>}
        /\ notified' = [x \in Msgs |-> IF x \in ids THEN [notified[x] EXCEPT ![r] = @ + 1] ELSE notified[x]]
    BY <1>13 DEF DrainRead
  <2>2. ids \subseteq Pending
    BY DEF Taken, Pending
  <2> HIDE DEF ids, r
  <2>3. Pending' \subseteq Pending /\ tracked' \subseteq tracked /\ Unique(pending')
    BY <1>2, <2>1 DEF Pending, Unique, ToSet
  <2>4. /\ \A i \in 1..next : i \in 1..next' /\ outbox'[i] = outbox[i]
        /\ \A i \in 1..Len(outbox) : i > next' => i > next
    BY <1>1, <2>1
  <2>5. \A x \in Msgs : Unnoted(x)' => Unnoted(x)
    BY <2>1, <2>4 DEF Unnoted, Sent
  <2>6. \A x \in Msgs : Unnoted(x) => notified'[x] = notified[x]
    BY <2>1, <2>2 DEF NotedOnce
  <2>7. \A x \in Msgs : Unnoted(x)' => Unnoted(x) /\ notified'[x] = notified[x]
    BY <2>5, <2>6
  <2>8. \A x \in Msgs : kind'[x] = "other" => kind[x] = "other" \/ Unnoted(x)
    BY <2>1
  <2>9. QED
    BY <2>3, <2>4, <2>7, <2>8, NotedSame
<1>14. ASSUME \/ (\E m \in Msgs : Accept(m) \/ TimeoutC5(m)) \/ Restart \/ UNCHANGED vars
       PROVE  /\ UNCHANGED <<kind, held, outbox, next, notified>> /\ waiting' \subseteq waiting
              /\ pending' \in {pending, <<>>} /\ tracked' \in {tracked, {}}
  BY <1>14 DEF Accept, TimeoutC5, Restart, vars
<1>15. QED
  BY <1>5, <1>6, <1>8, <1>10, <1>11, <1>12, <1>13, <1>14 DEF Next

-----------------------------------------------------------------------------
\* A receipt e is drained, and ids are what it takes.
Drained(e, ids) ==
    /\ e = outbox[next + 1] /\ Receipt(next + 1) /\ ids = Taken(e)
    /\ \A m \in Msgs, q \in Readers :
          notified'[m][q] = IF m \in ids /\ q = e.reader THEN notified[m][q] + 1 ELSE notified[m][q]
    /\ group => /\ \A m \in Msgs, q \in Readers :
                      q \in seen'[m] <=> q \in seen[m] \/ (m \in ids /\ q = e.reader)
                /\ \A q \in Readers :
                      mark'[q] = IF q = e.reader /\ ids # {} THEN e.position ELSE mark[q]
                /\ UNCHANGED pending
    /\ ~group => /\ ids = Pending /\ Pending' = {} /\ UNCHANGED seen
                 /\ \A q \in Readers : lastPos'[q] = IF q = e.reader THEN e.position ELSE lastPos[q]
    /\ \A q \in Readers :
          /\ newest'[q] = IF q = e.reader /\ e.position > newest[q] THEN e.position ELSE newest[q]
          /\ heardAt'[q] = IF q = e.reader THEN e.created ELSE heardAt[q]
    /\ next' = next + 1
    /\ UNCHANGED <<timeVars, outbox, tracked, restarts>>

(* What draining a receipt does, for each message and each reader.           *)
LEMMA DrainFacts ==
    ASSUME TypeOK, InTime, DrainRead
    PROVE  \E e, ids :
              /\ Drained(e, ids) /\ next + 1 \in 1..Len(outbox) /\ next \in Nat
              /\ e.reader \in members /\ e.reader \in Readers /\ ids \subseteq Pending
              /\ e.position \in Nat /\ e.created \in Nat
<1>1. SUFFICES ASSUME NEW e, e = outbox[next + 1], NEW ids, ids = Taken(e)
               PROVE  /\ Drained(e, ids) /\ next + 1 \in 1..Len(outbox) /\ next \in Nat
                      /\ e.reader \in members /\ e.reader \in Readers /\ ids \subseteq Pending
                      /\ e.position \in Nat /\ e.created \in Nat
  OBVIOUS
<1>2. next + 1 \in 1..Len(outbox) /\ next \in Nat /\ e \in Entries /\ Receipt(next + 1)
  BY <1>1, NextEntry DEF DrainRead, Receipt
<1>3. /\ e.reader \in members /\ e.reader \in Readers
      /\ e.position \in Nat /\ e.created \in Nat
  BY <1>1, <1>2, EntryFields DEF InTime, Receipt
<1>4. ids \subseteq Pending /\ (~group => ids = Pending)
  BY <1>1 DEF Taken, Pending
<1>5. /\ IF group THEN /\ seen' = SeenAfter(ids, e.reader)
                       /\ mark' = [mark EXCEPT ![e.reader] = IF ids = {} THEN @ ELSE e.position]
                       /\ UNCHANGED <<pending, lastPos>>
                  ELSE /\ lastPos' = [lastPos EXCEPT ![e.reader] = e.position] /\ pending' = <<>>
                       /\ UNCHANGED <<seen, mark>>
      /\ notified' = [m \in Msgs |-> IF m \in ids THEN [notified[m] EXCEPT ![e.reader] = @ + 1]
                                                  ELSE notified[m]]
      /\ newest' = [newest EXCEPT ![e.reader] = IF e.position > @ THEN e.position ELSE @]
      /\ heardAt' = [heardAt EXCEPT ![e.reader] = e.created]
      /\ next' = next + 1
      /\ UNCHANGED <<timeVars, outbox, tracked, restarts>>
  BY <1>1 DEF DrainRead
<1>6. /\ seen \in [Msgs -> SUBSET Readers]
      /\ mark \in [Readers -> Nat] /\ lastPos \in [Readers -> Nat]
      /\ notified \in [Msgs -> [Readers -> Nat]]
      /\ newest \in [Readers -> Nat] /\ heardAt \in [Readers -> Nat]
  BY DEF TypeOK
<1>7. \A m \in Msgs, q \in Readers :
         notified'[m][q] = IF m \in ids /\ q = e.reader THEN notified[m][q] + 1 ELSE notified[m][q]
  <2>1. ASSUME NEW m \in Msgs, NEW q \in Readers
        PROVE  notified'[m][q] = IF m \in ids /\ q = e.reader THEN notified[m][q] + 1 ELSE notified[m][q]
    <3>1. notified[m] \in [Readers -> Nat]
      BY <1>6
    <3>2. notified'[m] = IF m \in ids THEN [notified[m] EXCEPT ![e.reader] = notified[m][e.reader] + 1]
                                      ELSE notified[m]
      BY <1>5
    <3>3. QED
      BY <3>1, <3>2
  <2>2. QED
    BY <2>1
<1>8. group => /\ \A m \in Msgs, q \in Readers :
                     q \in seen'[m] <=> q \in seen[m] \/ (m \in ids /\ q = e.reader)
               /\ \A q \in Readers :
                     mark'[q] = IF q = e.reader /\ ids # {} THEN e.position ELSE mark[q]
               /\ UNCHANGED pending
  BY <1>5, <1>6 DEF SeenAfter
<1>9. ~group => /\ ids = Pending /\ Pending' = {} /\ UNCHANGED seen
                /\ \A q \in Readers : lastPos'[q] = IF q = e.reader THEN e.position ELSE lastPos[q]
  BY <1>4, <1>5, <1>6 DEF Pending, ToSet
<1>10. \A q \in Readers :
          /\ newest'[q] = IF q = e.reader /\ e.position > newest[q] THEN e.position ELSE newest[q]
          /\ heardAt'[q] = IF q = e.reader THEN e.created ELSE heardAt[q]
  BY <1>5, <1>6
<1>11. Drained(e, ids)
  BY <1>1, <1>2, <1>5, <1>7, <1>8, <1>9, <1>10 DEF Drained
<1>12. QED
  BY <1>2, <1>3, <1>4, <1>11

\* The message m of another device is drained, and the readers C are told of.
Arrived(m, C, X) ==
    /\ m \in Msgs /\ m = outbox[next + 1].msg /\ Unnoted(m) /\ kind[m] = "other"
    /\ NotedAs(m, C # {}, X)
    /\ C \subseteq CatchUp(m) /\ (C = {} => CatchUp(m) = {})
    /\ \A x \in Msgs, q \in Readers :
          notified'[x][q] = IF x = m /\ q \in C THEN notified[x][q] + 1 ELSE notified[x][q]
    /\ next' = next + 1
    /\ UNCHANGED <<timeVars, outbox, heardVars, restarts>>

(* What draining a message of another device does.                           *)
LEMMA ArrivedFacts ==
    ASSUME TypeOK, Sending, NotedOnce, DrainSent
    PROVE  next \in Nat /\ \E m, C, X : Arrived(m, C, X)
<1>1. SUFFICES ASSUME NEW m, m = outbox[next + 1].msg, NEW r, r = CHOOSE x \in CatchUp(m) : TRUE,
                      NEW C, C = IF CatchUp(m) = {} THEN {} ELSE {r}
               PROVE  next \in Nat /\ m \in Msgs /\ \E X : Arrived(m, C, X)
  OBVIOUS
<1>2. /\ next \in Nat /\ next + 1 \in 1..Len(outbox) /\ Sent(next + 1)
      /\ next' = next + 1
      /\ UNCHANGED <<timeVars, outbox, heardVars, restarts>>
  BY NextEntry DEF DrainSent, Sent
<1>3. notified' = IF CatchUp(m) = {} THEN notified ELSE [notified EXCEPT ![m][r] = @ + 1]
  BY <1>1 DEF DrainSent
<1>4. m \in Msgs /\ Unnoted(m) /\ \E X : NotedAs(m, CatchUp(m) # {}, X)
  BY <1>1, NoteSteps
<1>5. kind[m] = "other"
  BY <1>1, <1>2 DEF Sending
<1>6. CatchUp(m) # {} => r \in CatchUp(m) /\ r \in Readers
  BY <1>1 DEF CatchUp, TypeOK
<1>7. C \subseteq CatchUp(m) /\ (C = {} <=> CatchUp(m) = {})
  BY <1>1, <1>6
<1>8. ASSUME NEW x \in Msgs, NEW q \in Readers
      PROVE  notified'[x][q] = IF x = m /\ q \in C THEN notified[x][q] + 1 ELSE notified[x][q]
  <2>1. notified \in [Msgs -> [Readers -> Nat]] /\ notified[m] \in [Readers -> Nat]
    BY <1>4 DEF TypeOK
  <2>2. CASE CatchUp(m) = {}
    BY <1>1, <1>3, <2>2
  <2>3. CASE CatchUp(m) # {}
    <3>1. notified' = [notified EXCEPT ![m] = [notified[m] EXCEPT ![r] = notified[m][r] + 1]]
      BY <1>3, <2>3
    <3>2. CASE x = m
      BY <1>1, <1>4, <1>6, <2>1, <2>3, <3>1, <3>2
    <3>3. CASE x # m
      BY <2>1, <3>1, <3>3
    <3>4. QED
      BY <3>2, <3>3
  <2>4. QED
    BY <2>2, <2>3
<1>9. PICK X : NotedAs(m, C # {}, X)
  <2>1. PICK X : NotedAs(m, CatchUp(m) # {}, X)
    BY <1>4
  <2>2. NotedAs(m, C # {}, X)
    BY <1>7, <2>1 DEF NotedAs
  <2>3. QED
    BY <2>2
<1>10. Arrived(m, C, X)
  BY <1>1, <1>2, <1>4, <1>5, <1>7, <1>8, <1>9 DEF Arrived
<1>11. QED
  BY <1>2, <1>4, <1>10

(* The other steps leave what the phone was told; those that start a message *)
(* start one that is not known.                                              *)
LEMMA OtherSteps ==
    ASSUME TypeOK, Sending, NotedOnce, Next, ~DrainSent, ~DrainRead, ~Restart
    PROVE  /\ UNCHANGED <<chatVars, next, mark, lastPos, heardVars, notified>>
           /\ \A x \in Msgs : \/ kind'[x] = kind[x] /\ born'[x] = born[x]
                              \/ kind[x] = "none" /\ Unnoted(x)
           /\ \A x \in Msgs : kind[x] = "other" => pos'[x] = pos[x]
           /\ \/ UNCHANGED <<pending, seen, tracked>>
              \/ \E m \in Msgs : \E X : Unnoted(m) /\ kind'[m] = "local" /\ NotedAs(m, FALSE, X)
<1> USE DEF chatVars, timeVars, bookVars, heardVars
<1>1. /\ kind \in [Msgs -> {"none", "local", "other"}]
      /\ born \in [Msgs -> Nat] /\ pos \in [Msgs -> Nat]
  BY DEF TypeOK
<1>2. ASSUME NEW m \in Msgs, StartS4(m) \/ NoteC5(m)
      PROVE  \E x \in Msgs : \E X : Unnoted(x) /\ kind'[x] = "local" /\ NotedAs(x, FALSE, X)
  <2>1. kind'[m] = "local"
    <3>1. CASE StartS4(m)
      BY <1>1, <3>1 DEF StartS4
    <3>2. CASE NoteC5(m)
      BY <3>2 DEF NoteC5, Sending
    <3>3. QED
      BY <1>2, <3>1, <3>2
  <2>2. QED
    BY <1>2, <2>1, NoteSteps
<1>3. ASSUME NEW m \in Msgs, StartC5(m) \/ StartS4(m) \/ OtherSend(m)
      PROVE  /\ UNCHANGED <<chatVars, next, heardVars, notified, mark, lastPos>>
             /\ \A x \in Msgs : \/ kind'[x] = kind[x] /\ born'[x] = born[x]
                                \/ kind[x] = "none" /\ Unnoted(x)
             /\ \A x \in Msgs : kind[x] = "other" => pos'[x] = pos[x]
  <2>1. kind[m] = "none" /\ Unnoted(m)
    BY <1>3 DEF StartC5, StartS4, OtherSend, Unnoted
  <2>2. \A x \in Msgs : x # m => kind'[x] = kind[x] /\ born'[x] = born[x] /\ pos'[x] = pos[x]
    BY <1>1, <1>3 DEF StartC5, StartS4, OtherSend
  <2>3. UNCHANGED <<chatVars, next, heardVars, notified, mark, lastPos>>
    BY <1>3 DEF StartC5, StartS4, OtherSend, Note
  <2>4. QED
    BY <2>1, <2>2, <2>3
<1>4. ASSUME NEW m \in Msgs, Accept(m)
      PROVE  /\ UNCHANGED <<chatVars, next, heardVars, notified, kind, born, bookVars>>
             /\ \A x \in Msgs : kind[x] = "other" => pos'[x] = pos[x]
  BY <1>1, <1>4 DEF Accept
<1>5. ASSUME NEW m \in Msgs, NoteC5(m) \/ TimeoutC5(m) \/ PostSent(m) \/ \E r \in members : Read(r, m)
      PROVE  UNCHANGED <<chatVars, next, heardVars, notified, kind, born, pos, mark, lastPos>>
  BY <1>5 DEF NoteC5, TimeoutC5, PostSent, Read, Note
<1>6. ASSUME NEW m \in Msgs, \/ StartC5(m) \/ OtherSend(m) \/ Accept(m) \/ TimeoutC5(m)
                             \/ PostSent(m) \/ \E r \in members : Read(r, m)
      PROVE  UNCHANGED <<pending, seen, tracked>>
  BY <1>6 DEF StartC5, OtherSend, Accept, TimeoutC5, PostSent, Read
<1>7. PICK m \in Msgs : \/ StartC5(m) \/ StartS4(m) \/ Accept(m) \/ NoteC5(m) \/ TimeoutC5(m)
                        \/ OtherSend(m) \/ PostSent(m) \/ \E r \in members : Read(r, m)
  BY DEF Next
<1>8. /\ UNCHANGED <<chatVars, next, mark, lastPos, heardVars, notified>>
      /\ \A x \in Msgs : \/ kind'[x] = kind[x] /\ born'[x] = born[x]
                         \/ kind[x] = "none" /\ Unnoted(x)
      /\ \A x \in Msgs : kind[x] = "other" => pos'[x] = pos[x]
  BY <1>3, <1>4, <1>5, <1>7
<1>9. \/ UNCHANGED <<pending, seen, tracked>>
      \/ \E x \in Msgs : \E X : Unnoted(x) /\ kind'[x] = "local" /\ NotedAs(x, FALSE, X)
  BY <1>2, <1>6, <1>7
<1>10. QED
  BY <1>8, <1>9

(* outbox.json grows by one entry at a time.                                 *)
LEMMA OutboxSteps ==
    ASSUME TypeOK, Next, ~DrainSent, ~DrainRead, ~Restart
    PROVE  \/ UNCHANGED outbox
           \/ \E e \in Entries : /\ outbox' = Append(outbox, e)
                                 /\ e.kind = "read" => e.created = clock + 1
<1>1. ASSUME NEW m \in Msgs, \/ StartC5(m) \/ StartS4(m) \/ Accept(m) \/ NoteC5(m)
                             \/ TimeoutC5(m) \/ OtherSend(m)
      PROVE  UNCHANGED outbox
  BY <1>1 DEF StartC5, StartS4, Accept, NoteC5, TimeoutC5, OtherSend
<1>2. ASSUME NEW m \in Msgs, PostSent(m)
      PROVE  \E e \in Entries : outbox' = Append(outbox, e) /\ (e.kind = "read" => e.created = clock + 1)
  <2>1. outbox' = Append(outbox, SentEntry(m)) /\ SentEntry(m) \in Entries /\ SentEntry(m).kind = "sent"
    BY <1>2, EntryFields DEF PostSent
  <2>2. QED
    BY <2>1
<1>3. ASSUME NEW r \in members, NEW m \in Msgs, Read(r, m)
      PROVE  \/ UNCHANGED outbox
             \/ \E e \in Entries : outbox' = Append(outbox, e) /\ (e.kind = "read" => e.created = clock + 1)
  <2>1. ReadEntry(r, pos[m], clock + 1).created = clock + 1
    BY DEF ReadEntry
  <2>2. QED
    BY <1>3, <2>1, ReadEntries
<1>4. QED
  BY <1>1, <1>2, <1>3 DEF Next

-----------------------------------------------------------------------------
(* The phone is told of a message and a reader once.                         *)
LEMMA ToldOnceStep ==
    ASSUME TypeOK, Chat, Sending, InTime, NotedOnce, ToldOnce, [Next]_vars
    PROVE  ToldOnce'
<1> USE DEF chatVars, timeVars, bookVars, heardVars
<1>1. notified \in [Msgs -> [Readers -> Nat]] /\ UNCHANGED group /\ members \subseteq Readers
  BY ChatStep DEF TypeOK
<1>2. \A m \in Msgs, r \in Readers :
         /\ notified[m][r] \in Nat /\ notified[m][r] <= 1
         /\ r \in seen[m] => notified[m][r] = 1
         /\ m \in Pending /\ r \notin seen[m] => notified[m][r] = 0
         /\ ~group => r \notin seen[m]
         /\ Unnoted(m) => notified[m][r] = 0 /\ m \notin Pending
  BY <1>1 DEF ToldOnce, NotedOnce
<1>3. CASE UNCHANGED <<seen, notified, pending>>
  BY <1>1, <1>3 DEF ToldOnce, Pending
<1>4. ASSUME NEW m \in Msgs, NEW X, Unnoted(m), NotedAs(m, FALSE, X), UNCHANGED notified
      PROVE  ToldOnce'
  <2>1. /\ Pending' = (Pending \cup {m}) \ X
        /\ seen' = [x \in Msgs |-> IF x \in X THEN {} ELSE seen[x]]
    BY <1>4 DEF NotedAs
  <2>2. QED
    BY <1>1, <1>2, <1>4, <2>1 DEF ToldOnce
<1>5. CASE DrainSent
  <2>1. PICK m, C, X : Arrived(m, C, X)
    BY <1>5, ArrivedFacts
  <2>2. /\ Unnoted(m) /\ C \subseteq CatchUp(m)
        /\ Pending' = IF C # {} THEN Pending \ X ELSE (Pending \cup {m}) \ X
        /\ seen' = [x \in Msgs |-> IF x \in X THEN {} ELSE seen[x]]
        /\ \A x \in Msgs, q \in Readers :
              notified'[x][q] = IF x = m /\ q \in C THEN notified[x][q] + 1 ELSE notified[x][q]
    BY <2>1 DEF Arrived, NotedAs
  <2>3. C # {} => ~group
    BY <2>2 DEF CatchUp
  <2>4. ASSUME NEW x \in Msgs, NEW q \in Readers
        PROVE  /\ notified'[x][q] <= 1
               /\ q \in seen'[x] => notified'[x][q] = 1
               /\ x \in Pending' /\ q \notin seen'[x] => notified'[x][q] = 0
               /\ ~group' => q \notin seen'[x]
    <3>1. CASE x = m /\ q \in C
      <4>1. notified'[x][q] = 1
        BY <1>2, <2>2, <3>1
      <4>2. x \notin Pending' /\ ~group /\ q \notin seen'[x]
        BY <1>2, <2>2, <2>3, <3>1
      <4>3. QED
        BY <4>1, <4>2
    <3>2. CASE ~(x = m /\ q \in C)
      <4>1. notified'[x][q] = notified[x][q]
        BY <2>2, <3>2
      <4>2. QED
        BY <1>1, <1>2, <2>2, <4>1
    <3>3. QED
      BY <3>1, <3>2
  <2>5. QED
    BY <2>4 DEF ToldOnce
<1>6. CASE DrainRead
  <2>1. PICK e, ids : Drained(e, ids) /\ ids \subseteq Pending /\ e.reader \in Readers
    BY <1>6, DrainFacts
  <2>2. group => ids \subseteq {x \in Pending : e.reader \notin seen[x]}
    BY <2>1 DEF Drained, Taken, Pending
  <2>3. ASSUME NEW x \in Msgs, NEW q \in Readers
        PROVE  /\ notified'[x][q] <= 1
               /\ q \in seen'[x] => notified'[x][q] = 1
               /\ x \in Pending' /\ q \notin seen'[x] => notified'[x][q] = 0
               /\ ~group' => q \notin seen'[x]
    <3>1. notified'[x][q] = IF x \in ids /\ q = e.reader THEN notified[x][q] + 1 ELSE notified[x][q]
      BY <2>1 DEF Drained
    <3>2. x \in ids /\ q = e.reader => q \notin seen[x] /\ notified[x][q] = 0
      BY <1>2, <2>1, <2>2
    <3>3. CASE group
      <4>1. (q \in seen'[x] <=> q \in seen[x] \/ (x \in ids /\ q = e.reader)) /\ Pending' = Pending
        BY <2>1, <3>3 DEF Drained, Pending
      <4>2. QED
        BY <1>1, <1>2, <3>1, <3>2, <3>3, <4>1
    <3>4. CASE ~group
      <4>1. Pending' = {} /\ seen' = seen
        BY <2>1, <3>4 DEF Drained
      <4>2. QED
        BY <1>1, <1>2, <3>1, <3>2, <3>4, <4>1
    <3>5. QED
      BY <3>3, <3>4
  <2>4. QED
    BY <2>3 DEF ToldOnce
<1>7. CASE Restart
  <2>1. Pending' = {} /\ seen' = [x \in Msgs |-> {}] /\ UNCHANGED notified
    BY <1>7 DEF Restart, Pending, ToSet
  <2>2. QED
    BY <1>2, <2>1 DEF ToldOnce
<1>8. CASE Next /\ ~DrainSent /\ ~DrainRead /\ ~Restart
  BY <1>3, <1>4, <1>8, OtherSteps
<1>9. CASE UNCHANGED vars
  BY <1>3, <1>9 DEF vars
<1>10. QED
  BY <1>5, <1>6, <1>7, <1>8, <1>9

(* In a group it is told of a message that existed when the reader read.     *)
LEMMA ToldInTimeStep ==
    ASSUME TypeOK, TypeOK', Chat, Sending, InTime, InTime', NotedOnce, ToldInTime, [Next]_vars
    PROVE  ToldInTime'
<1> USE DEF chatVars, timeVars, bookVars, heardVars
<1>1. /\ notified \in [Msgs -> [Readers -> Nat]] /\ heardAt \in [Readers -> Nat]
      /\ born \in [Msgs -> Nat] /\ outbox \in Seq(Entries) /\ next \in Nat /\ Len(outbox) \in Nat
      /\ clock \in Nat /\ clock' \in Nat /\ clock <= clock' /\ members \subseteq Readers
  BY ReadToGrows DEF TypeOK
<1>2. UNCHANGED <<group, members>>
  BY ChatStep
<1>3. \A k \in 1..Len(outbox) : Receipt(k) =>
         outbox[k].reader \in members /\ outbox[k].created \in Nat /\ outbox[k].created <= clock
  BY <1>1, EntryFields DEF InTime, Receipt
<1>4. ASSUME UNCHANGED heardAt PROVE \A r \in Readers : heardAt'[r] <= clock'
  BY <1>1, <1>4 DEF ToldInTime
<1>5. ASSUME UNCHANGED <<outbox, heardAt>>, next' \in Nat, next <= next'
      PROVE  \A k \in 1..Len(outbox') : k > next' /\ Receipt(k)' =>
                heardAt'[outbox'[k].reader] <= outbox'[k].created
  BY <1>1, <1>5 DEF ToldInTime, Receipt
<1>6. CASE DrainSent
  <2>1. PICK m, C, X : Arrived(m, C, X)
    BY <1>6, ArrivedFacts
  <2>2. UNCHANGED <<outbox, heardAt, born>> /\ next' = next + 1
    BY <2>1 DEF Arrived
  <2>3. group => \A x \in Msgs, r \in members : notified'[x][r] = notified[x][r]
    BY <1>1, <2>1 DEF Arrived, CatchUp
  <2>4. QED
    BY <1>1, <1>2, <1>4, <1>5, <2>2, <2>3 DEF ToldInTime
<1>7. CASE DrainRead
  <2>1. PICK e, ids : /\ Drained(e, ids) /\ ids \subseteq Pending /\ e.reader \in members
                      /\ next + 1 \in 1..Len(outbox) /\ e.reader \in Readers /\ e.created \in Nat
    BY <1>7, DrainFacts
  <2>2. /\ e = outbox[next + 1] /\ Receipt(next + 1) /\ ids = Taken(e) /\ next' = next + 1
        /\ UNCHANGED <<outbox, born, clock>>
        /\ \A q \in Readers : heardAt'[q] = IF q = e.reader THEN e.created ELSE heardAt[q]
        /\ \A m \in Msgs, q \in Readers :
              notified'[m][q] = IF m \in ids /\ q = e.reader THEN notified[m][q] + 1 ELSE notified[m][q]
    BY <2>1 DEF Drained
  <2>3. e.created <= clock /\ heardAt[e.reader] <= e.created
    <3>1. next + 1 > next
      BY <1>1
    <3>2. QED
      BY <1>3, <2>1, <2>2, <3>1 DEF ToldInTime
  <2>4. \A r \in Readers : heardAt'[r] <= clock'
    BY <1>1, <2>2, <2>3 DEF ToldInTime
  <2>5. ASSUME NEW k \in 1..Len(outbox), k > next + 1, Receipt(k)
        PROVE  heardAt'[outbox[k].reader] <= outbox[k].created
    <3>1. outbox[k].reader \in Readers /\ k > next
      BY <1>1, <1>3, <2>5
    <3>2. e.created <= outbox[k].created
      BY <2>1, <2>2, <2>5 DEF InTime
    <3>3. heardAt[outbox[k].reader] <= outbox[k].created
      BY <2>5, <3>1 DEF ToldInTime
    <3>4. QED
      BY <2>2, <3>1, <3>2, <3>3
  <2>6. ASSUME group, NEW m \in Msgs, NEW r \in members, notified'[m][r] > 0
        PROVE  born[m] <= heardAt'[r]
    <3>1. CASE m \in ids /\ r = e.reader
      <4>1. m \in Pending /\ (kind[m] = "other" \/ born[m] <= e.created)
        BY <2>2, <2>6, <3>1 DEF Taken, Pending
      <4>2. CASE kind[m] = "other"
        <5>1. PICK i \in 1..next : Sent(i) /\ outbox[i].msg = m
          BY <4>1, <4>2 DEF NotedOnce
        <5>2. i \in 1..Len(outbox) /\ i < next + 1
          BY <1>1, <2>1
        <5>3. born[m] <= e.created
          BY <2>1, <2>2, <5>1, <5>2 DEF InTime
        <5>4. QED
          BY <1>1, <2>2, <3>1, <5>3
      <4>3. QED
        BY <1>1, <2>2, <3>1, <4>1, <4>2
    <3>2. CASE ~(m \in ids /\ r = e.reader)
      <4>1. notified[m][r] > 0 /\ r \in Readers
        BY <1>1, <2>2, <2>6, <3>2
      <4>2. born[m] <= heardAt[r] /\ born[m] \in Nat /\ heardAt[r] \in Nat
        BY <1>1, <2>6, <4>1 DEF ToldInTime
      <4>3. heardAt[r] <= heardAt'[r] /\ heardAt'[r] \in Nat
        BY <2>1, <2>2, <2>3, <4>1, <4>2
      <4>4. QED
        BY <4>2, <4>3
    <3>3. QED
      BY <3>1, <3>2
  <2>7. QED
    BY <1>2, <2>2, <2>4, <2>5, <2>6 DEF ToldInTime, Receipt
<1>8. CASE Restart
  BY <1>1, <1>2, <1>4, <1>5, <1>8 DEF Restart, ToldInTime
<1>9. CASE Next /\ ~DrainSent /\ ~DrainRead /\ ~Restart
  <2>1. /\ UNCHANGED <<next, heardAt, notified>>
        /\ \A x \in Msgs : born'[x] = born[x] \/ Unnoted(x)
    BY <1>9, OtherSteps
  <2>2. \A x \in Msgs, r \in members : notified[x][r] > 0 => born'[x] = born[x]
    BY <1>1, <2>1 DEF NotedOnce
  <2>3. \A k \in 1..Len(outbox') : k > next' /\ Receipt(k)' =>
           heardAt'[outbox'[k].reader] <= outbox'[k].created
    <3>1. CASE UNCHANGED outbox
      BY <1>1, <1>5, <2>1, <3>1
    <3>2. ASSUME NEW e \in Entries, outbox' = Append(outbox, e), e.kind = "read" => e.created = clock + 1
          PROVE  \A k \in 1..Len(outbox') : k > next' /\ Receipt(k)' =>
                    heardAt'[outbox'[k].reader] <= outbox'[k].created
      <4>1. /\ outbox'[Len(outbox) + 1] = e
            /\ \A i \in 1..Len(outbox) : outbox'[i] = outbox[i]
            /\ \A i \in 1..Len(outbox') : i \in 1..Len(outbox) \/ i = Len(outbox) + 1
        BY <3>2, NewEntry
      <4>2. e.kind = "read" => heardAt[e.reader] <= e.created
        <5>1. e.kind = "read" => e.reader \in Readers
          BY EntryFields
        <5>2. e.kind = "read" => heardAt[e.reader] \in Nat /\ heardAt[e.reader] <= clock
          BY <1>1, <5>1 DEF ToldInTime
        <5>3. QED
          BY <1>1, <3>2, <5>2
      <4>3. ASSUME NEW k \in 1..Len(outbox'), k > next', Receipt(k)'
            PROVE  heardAt'[outbox'[k].reader] <= outbox'[k].created
        <5>1. CASE k \in 1..Len(outbox)
          BY <2>1, <4>1, <4>3, <5>1 DEF ToldInTime, Receipt
        <5>2. CASE k = Len(outbox) + 1
          BY <2>1, <4>1, <4>2, <4>3, <5>2 DEF Receipt
        <5>3. QED
          BY <4>1, <5>1, <5>2
      <4>4. QED
        BY <4>3
    <3>3. \/ UNCHANGED outbox
          \/ \E e \in Entries : outbox' = Append(outbox, e) /\ (e.kind = "read" => e.created = clock + 1)
      BY <1>9, OutboxSteps
    <3>4. QED
      BY <3>1, <3>2, <3>3
  <2>4. \A r \in Readers : heardAt'[r] <= clock'
    BY <1>4, <2>1
  <2>5. QED
    BY <1>2, <2>1, <2>2, <2>3, <2>4 DEF ToldInTime
<1>10. CASE UNCHANGED vars
  BY <1>1, <1>2, <1>4, <1>5, <1>10 DEF vars, ToldInTime
<1>11. QED
  BY <1>6, <1>7, <1>8, <1>9, <1>10

-----------------------------------------------------------------------------
(* A direct chat: what has been reported was read, and what was read is      *)
(* reported, by the receipt or by the catch-up.                              *)
LEMMA DirectBooksStep ==
    ASSUME TypeOK, TypeOK', Chat, Sending, InTime, NotedOnce, ToldOnce, DirectBooks, [Next]_vars
    PROVE  DirectBooks'
<1> USE DEF chatVars, timeVars, bookVars, heardVars
<1>1. SUFFICES ASSUME ~group, NEW r \in members PROVE
          /\ lastPos'[r] <= readTo'[r]
          /\ \A m \in Msgs : kind'[m] = "other" =>
                /\ notified'[m][r] > 0 => pos'[m] <= readTo'[r]
                /\ m \in tracked' => notified'[m][r] = 1 \/ (m \in Pending' /\ lastPos'[r] < pos'[m])
  <2>1. UNCHANGED <<group, members>>
    BY ChatStep
  <2>2. QED
    BY <2>1 DEF DirectBooks
<1>2. /\ lastPos \in [Readers -> Nat] /\ pos \in [Msgs -> Nat] /\ notified \in [Msgs -> [Readers -> Nat]]
      /\ pos' \in [Msgs -> Nat] /\ r \in Readers /\ Pending \subseteq Msgs /\ tracked \subseteq Msgs
      /\ readTo[r] \in Nat /\ readTo'[r] \in Nat /\ readTo[r] <= readTo'[r]
      /\ next \in Nat /\ next \in 0..Len(outbox) /\ outbox \in Seq(Entries)
  <2>1. pending \in Seq(Msgs)
    BY DEF TypeOK
  <2>2. Pending \subseteq Msgs
    BY <2>1 DEF Pending, ToSet
  <2>3. r \in Readers
    BY DEF TypeOK
  <2>4. readTo[r] \in Nat /\ readTo'[r] \in Nat /\ readTo[r] <= readTo'[r]
    BY <2>3, ReadToGrows
  <2>5. pos' \in [Msgs -> Nat]
    BY DEF TypeOK
  <2>6. next \in 0..Len(outbox) /\ next \in Nat /\ outbox \in Seq(Entries)
    BY DEF TypeOK
  <2>7. /\ lastPos \in [Readers -> Nat] /\ pos \in [Msgs -> Nat] /\ tracked \subseteq Msgs
        /\ notified \in [Msgs -> [Readers -> Nat]]
    BY DEF TypeOK
  <2>8. QED
    BY <2>2, <2>3, <2>4, <2>5, <2>6, <2>7
<1>3. members = {r}
  BY <1>1 DEF Chat
<1>4. /\ lastPos[r] <= readTo[r]
      /\ \A m \in Msgs : kind[m] = "other" =>
            /\ notified[m][r] > 0 => pos[m] <= readTo[r]
            /\ m \in tracked => notified[m][r] = 1 \/ (m \in Pending /\ lastPos[r] < pos[m])
  BY <1>1 DEF DirectBooks
<1>5. \A m \in Msgs : /\ Unnoted(m) => notified[m][r] = 0 /\ m \notin tracked /\ m \notin Pending
                      /\ m \in Pending => notified[m][r] = 0
  BY <1>1, <1>2 DEF NotedOnce, ToldOnce
<1>6. CASE UNCHANGED <<lastPos, notified, kind, pos, readTo, tracked, pending>>
  BY <1>4, <1>6 DEF Pending
<1>7. CASE DrainSent
  <2>1. PICK m, C, X : Arrived(m, C, X)
    BY <1>7, ArrivedFacts
  <2>2. /\ m \in Msgs /\ Unnoted(m) /\ C \subseteq CatchUp(m) /\ (C = {} => CatchUp(m) = {}) /\ m \notin X
        /\ Pending' = IF C # {} THEN Pending \ X ELSE (Pending \cup {m}) \ X
        /\ tracked' = (tracked \cup {m}) \ X
        /\ UNCHANGED <<lastPos, kind, pos, readTo>>
        /\ \A x \in Msgs, q \in Readers :
              notified'[x][q] = IF x = m /\ q \in C THEN notified[x][q] + 1 ELSE notified[x][q]
    BY <2>1 DEF Arrived, NotedAs
  <2>3. r \in CatchUp(m) <=> lastPos[r] >= pos[m]
    BY <1>1 DEF CatchUp
  <2>4. CatchUp(m) \subseteq {r}
    BY <1>3 DEF CatchUp
  <2>5. ASSUME NEW x \in Msgs, kind'[x] = "other"
        PROVE  /\ notified'[x][r] > 0 => pos'[x] <= readTo'[r]
               /\ x \in tracked' => notified'[x][r] = 1 \/ (x \in Pending' /\ lastPos'[r] < pos'[x])
    <3>1. CASE x # m
      <4>1. notified'[x][r] = notified[x][r] /\ (x \in tracked' => x \in tracked /\ (x \in Pending => x \in Pending'))
        BY <1>2, <2>2, <3>1
      <4>2. QED
        BY <1>4, <2>2, <2>5, <4>1
    <3>2. CASE x = m /\ r \in C
      <4>1. notified'[m][r] = 1
        BY <1>2, <1>5, <2>2, <3>2
      <4>2. pos[m] <= readTo[r]
        <5>1. lastPos[r] >= pos[m]
          BY <2>2, <2>3, <3>2
        <5>2. QED
          BY <1>2, <1>4, <2>2, <5>1
      <4>3. QED
        BY <2>2, <3>2, <4>1, <4>2
    <3>3. CASE x = m /\ r \notin C
      <4>1. notified'[m][r] = 0 /\ C = {} /\ m \in Pending'
        BY <1>2, <1>5, <2>2, <2>4, <3>3
      <4>2. lastPos[r] < pos[m]
        <5>1. ~(lastPos[r] >= pos[m]) /\ lastPos[r] \in Nat /\ pos[m] \in Nat
          BY <1>2, <2>2, <2>3, <4>1
        <5>2. QED
          BY <5>1
      <4>3. QED
        BY <2>2, <3>3, <4>1, <4>2
    <3>4. QED
      BY <3>1, <3>2, <3>3
  <2>6. QED
    BY <1>4, <2>2, <2>5
<1>8. CASE DrainRead
  <2>1. PICK e, ids : /\ Drained(e, ids) /\ e.reader \in members
                      /\ next + 1 \in 1..Len(outbox) /\ e.position \in Nat
    BY <1>8, DrainFacts
  <2>2. /\ e = outbox[next + 1] /\ Receipt(next + 1) /\ e.reader = r /\ ids = Pending
        /\ UNCHANGED <<kind, pos, readTo, tracked>> /\ lastPos'[r] = e.position
        /\ \A m \in Msgs : notified'[m][r] = IF m \in Pending THEN notified[m][r] + 1 ELSE notified[m][r]
    BY <1>1, <1>2, <1>3, <2>1 DEF Drained
  <2>3. e.position <= readTo[r]
    BY <2>1, <2>2 DEF InTime
  <2>4. ASSUME NEW m \in Msgs, kind[m] = "other", m \in Pending PROVE pos[m] <= readTo[r]
    <3>1. PICK i \in 1..next : Sent(i) /\ outbox[i].msg = m
      BY <2>4 DEF NotedOnce
    <3>2. i \in 1..Len(outbox) /\ i < next + 1
      BY <1>2, <2>1
    <3>3. pos[m] <= e.position
      BY <1>1, <2>1, <2>2, <3>1, <3>2 DEF InTime
    <3>4. QED
      BY <1>2, <2>1, <2>3, <3>3
  <2>5. ASSUME NEW m \in Msgs, kind'[m] = "other"
        PROVE  /\ notified'[m][r] > 0 => pos'[m] <= readTo'[r]
               /\ m \in tracked' => notified'[m][r] = 1
    <3>1. CASE m \in Pending
      BY <1>5, <2>2, <2>4, <2>5, <3>1
    <3>2. CASE m \notin Pending
      BY <1>4, <2>2, <2>5, <3>2
    <3>3. QED
      BY <3>1, <3>2
  <2>6. QED
    BY <2>2, <2>3, <2>5
<1>9. CASE Restart
  <2>1. lastPos'[r] = 0 /\ tracked' = {} /\ UNCHANGED <<kind, pos, readTo, notified>>
    BY <1>2, <1>9 DEF Restart
  <2>2. QED
    BY <1>2, <1>4, <2>1
<1>10. CASE Next /\ ~DrainSent /\ ~DrainRead /\ ~Restart
  <2>1. /\ UNCHANGED <<lastPos, notified>>
        /\ \A x \in Msgs : kind'[x] = kind[x] \/ Unnoted(x)
        /\ \A x \in Msgs : kind[x] = "other" => pos'[x] = pos[x]
        /\ \/ UNCHANGED <<pending, tracked>>
           \/ \E m \in Msgs : \E X : Unnoted(m) /\ kind'[m] = "local" /\ NotedAs(m, FALSE, X)
    BY <1>10, OtherSteps
  <2>2. lastPos'[r] <= readTo'[r]
    BY <1>2, <1>4, <2>1
  <2>3. ASSUME NEW x \in Msgs, kind'[x] = "other", notified'[x][r] > 0 PROVE pos'[x] <= readTo'[r]
    <3>1. ~Unnoted(x)
      BY <1>5, <2>1, <2>3
    <3>2. kind[x] = "other" /\ pos'[x] = pos[x] /\ pos[x] \in Nat
      BY <1>2, <2>1, <2>3, <3>1
    <3>3. pos[x] <= readTo[r]
      BY <1>4, <2>1, <2>3, <3>2
    <3>4. QED
      BY <1>2, <3>2, <3>3
  <2>4. ASSUME NEW x \in Msgs, kind'[x] = "other", x \in tracked'
        PROVE  notified'[x][r] = 1 \/ (x \in Pending' /\ lastPos'[r] < pos'[x])
    <3>1. x \in tracked /\ (x \in Pending => x \in Pending')
      <4>1. CASE UNCHANGED <<pending, tracked>>
        BY <2>4, <4>1 DEF Pending
      <4>2. ASSUME NEW m \in Msgs, NEW X, kind'[m] = "local", NotedAs(m, FALSE, X)
            PROVE  x \in tracked /\ (x \in Pending => x \in Pending')
        BY <2>4, <4>2 DEF NotedAs
      <4>3. QED
        BY <2>1, <4>1, <4>2
    <3>2. kind[x] = "other" /\ pos'[x] = pos[x]
      BY <1>5, <2>1, <2>4, <3>1
    <3>3. QED
      BY <1>4, <2>1, <3>1, <3>2
  <2>5. QED
    BY <2>2, <2>3, <2>4
<1>11. CASE UNCHANGED vars
  BY <1>6, <1>11 DEF vars
<1>12. QED
  BY <1>7, <1>8, <1>9, <1>10, <1>11

(* A group: an id leaves the pending ones only by expiring.                  *)
LEMMA GroupBooksStep ==
    ASSUME TypeOK, Chat, Sending, InTime, NotedOnce, GroupBooks, [Next]_vars
    PROVE  GroupBooks'
<1> USE DEF chatVars, timeVars, bookVars, heardVars
<1>1. SUFFICES ASSUME group PROVE
          /\ tracked' \subseteq Pending'
          /\ \A r \in members :
                /\ mark'[r] <= newest'[r]
                /\ mark'[r] > 0 => \E i \in 1..next' : /\ Receipt(i)' /\ outbox'[i].reader = r
                                                       /\ outbox'[i].position = mark'[r]
  <2>1. UNCHANGED <<group, members>>
    BY ChatStep
  <2>2. QED
    BY <2>1 DEF GroupBooks
<1>2. /\ mark \in [Readers -> Nat] /\ newest \in [Readers -> Nat] /\ members \subseteq Readers
      /\ next \in Nat /\ next \in 0..Len(outbox) /\ Len(outbox) \in Nat
  BY DEF TypeOK
<1>3. /\ tracked \subseteq Pending
      /\ \A r \in members :
            /\ mark[r] <= newest[r]
            /\ mark[r] > 0 => \E i \in 1..next : /\ Receipt(i) /\ outbox[i].reader = r
                                                 /\ outbox[i].position = mark[r]
  BY <1>1 DEF GroupBooks
<1>4. ASSUME NEW i \in 1..next
      PROVE  i \in 1..next' /\ outbox'[i] = outbox[i]
  <2>1. i \in 1..Len(outbox)
    BY <1>2
  <2>2. next' = next \/ next' = next + 1
    <3>1. CASE DrainSent \/ DrainRead
      BY <3>1 DEF DrainSent, DrainRead
    <3>2. CASE Restart \/ UNCHANGED vars
      BY <3>2 DEF Restart, vars
    <3>3. QED
      BY <3>1, <3>2, OtherSteps
  <2>3. outbox'[i] = outbox[i]
    <3>1. CASE UNCHANGED outbox
      BY <3>1
    <3>2. CASE \E e \in Entries : outbox' = Append(outbox, e)
      BY <2>1, <3>2, NewEntry
    <3>3. CASE DrainSent \/ DrainRead \/ Restart \/ UNCHANGED vars
      BY <3>1, <3>3 DEF DrainSent, DrainRead, Restart, vars
    <3>4. QED
      BY <3>1, <3>2, <3>3, OutboxSteps
  <2>4. QED
    BY <1>2, <2>2, <2>3
<1>5. CASE UNCHANGED <<mark, newest>> /\ tracked' \subseteq Pending'
  <2>1. ASSUME NEW r \in members, mark'[r] > 0
        PROVE  \E i \in 1..next' : /\ Receipt(i)' /\ outbox'[i].reader = r
                                   /\ outbox'[i].position = mark'[r]
    <3>1. PICK i \in 1..next : Receipt(i) /\ outbox[i].reader = r /\ outbox[i].position = mark[r]
      BY <1>3, <1>5, <2>1
    <3>2. QED
      BY <1>4, <1>5, <3>1 DEF Receipt
  <2>2. QED
    BY <1>3, <1>5, <2>1
<1>6. ASSUME NEW m, NEW X, NotedAs(m, FALSE, X) PROVE tracked' \subseteq Pending'
  BY <1>3, <1>6 DEF NotedAs
<1>7. CASE DrainSent
  <2>1. PICK m, C, X : Arrived(m, C, X)
    BY <1>7, ArrivedFacts
  <2>2. C = {}
    BY <1>1, <2>1 DEF Arrived, CatchUp
  <2>3. NotedAs(m, FALSE, X)
    BY <2>1, <2>2 DEF Arrived
  <2>4. UNCHANGED <<mark, newest>>
    BY <2>1 DEF Arrived, NotedAs
  <2>5. QED
    BY <1>5, <1>6, <2>3, <2>4
<1>8. CASE DrainRead
  <2>1. PICK e, ids : /\ Drained(e, ids) /\ e.reader \in members /\ e.reader \in Readers
                      /\ next + 1 \in 1..Len(outbox) /\ e.position \in Nat
    BY <1>8, DrainFacts
  <2>2. /\ e = outbox[next + 1] /\ Receipt(next + 1) /\ next' = next + 1
        /\ UNCHANGED <<outbox, tracked, pending>>
        /\ \A q \in Readers :
              /\ mark'[q] = IF q = e.reader /\ ids # {} THEN e.position ELSE mark[q]
              /\ newest'[q] = IF q = e.reader /\ e.position > newest[q] THEN e.position ELSE newest[q]
    BY <1>1, <2>1 DEF Drained
  <2>3. tracked' \subseteq Pending'
    BY <1>3, <2>2 DEF Pending
  <2>4. ASSUME NEW r \in members PROVE mark'[r] <= newest'[r]
    <3>1. r \in Readers /\ mark[r] \in Nat /\ newest[r] \in Nat /\ mark[r] <= newest[r]
      BY <1>2, <1>3
    <3>2. QED
      BY <2>1, <2>2, <3>1
  <2>5. ASSUME NEW r \in members, mark'[r] > 0
        PROVE  \E i \in 1..next' : /\ Receipt(i)' /\ outbox'[i].reader = r
                                   /\ outbox'[i].position = mark'[r]
    <3>1. CASE r = e.reader /\ ids # {}
      <4>1. next + 1 \in 1..next'
        BY <1>2, <2>2
      <4>2. /\ outbox'[next + 1].kind = "read" /\ outbox'[next + 1].reader = r
            /\ outbox'[next + 1].position = mark'[r]
        BY <2>1, <2>2, <3>1 DEF Receipt
      <4>3. QED
        BY <2>2, <4>1, <4>2 DEF Receipt
    <3>2. CASE ~(r = e.reader /\ ids # {})
      <4>1. mark'[r] = mark[r]
        BY <1>2, <2>2, <3>2
      <4>2. PICK i \in 1..next : Receipt(i) /\ outbox[i].reader = r /\ outbox[i].position = mark[r]
        BY <1>3, <2>5, <4>1
      <4>3. QED
        BY <1>4, <4>1, <4>2 DEF Receipt
    <3>3. QED
      BY <3>1, <3>2
  <2>6. QED
    BY <2>3, <2>4, <2>5
<1>9. CASE Restart
  BY <1>2, <1>9 DEF Restart
<1>10. CASE Next /\ ~DrainSent /\ ~DrainRead /\ ~Restart
  <2>1. /\ UNCHANGED <<mark, newest>>
        /\ \/ UNCHANGED <<pending, tracked>>
           \/ \E m \in Msgs : \E X : NotedAs(m, FALSE, X)
    BY <1>10, OtherSteps
  <2>2. CASE UNCHANGED <<pending, tracked>>
    BY <1>3, <1>5, <2>1, <2>2 DEF Pending
  <2>3. QED
    BY <1>5, <1>6, <2>1, <2>2
<1>11. CASE UNCHANGED vars
  BY <1>3, <1>5, <1>11 DEF vars, Pending
<1>12. QED
  BY <1>7, <1>8, <1>9, <1>10, <1>11

-----------------------------------------------------------------------------
(* The invariant holds at first, and every step keeps it.                    *)
LEMMA ReadInvHolds == Spec => []ReadInv
<1> USE ReadAssumption
<1>1. Init => ReadInv
  <2> SUFFICES ASSUME Init PROVE ReadInv
    OBVIOUS
  <2>1. /\ outbox = <<>> /\ pending = <<>> /\ next = 0 /\ clock = 0 /\ restarts = 0
        /\ waiting = {} /\ held = {} /\ tracked = {} /\ members \subseteq Readers
        /\ kind = [m \in Msgs |-> "none"] /\ born = [m \in Msgs |-> 0] /\ pos = [m \in Msgs |-> 0]
        /\ readTo = [r \in Readers |-> 0] /\ seen = [m \in Msgs |-> {}]
        /\ mark = [r \in Readers |-> 0] /\ lastPos = [r \in Readers |-> 0]
        /\ newest = [r \in Readers |-> 0] /\ heardAt = [r \in Readers |-> 0]
        /\ notified = [m \in Msgs |-> [r \in Readers |-> 0]]
        /\ group \in BOOLEAN
    BY DEF Init
  <2>2. <<>> \in Seq(Entries) /\ <<>> \in Seq(Msgs) /\ Len(<<>>) = 0
    OBVIOUS
  <2>3. Pending = {}
    BY <2>1 DEF Pending, ToSet
  <2>4. TypeOK
    BY <2>1, <2>2 DEF TypeOK
  <2>5. Chat
    BY DEF Init, Chat
  <2>6. Sending /\ OneEntry /\ InTime
    BY <2>1, <2>2 DEF Sending, OneEntry, InTime
  <2>7. NotedOnce
    BY <2>1, <2>2, <2>3 DEF NotedOnce, Unique
  <2>8. ToldOnce /\ ToldInTime
    BY <2>1, <2>2, <2>3 DEF ToldOnce, ToldInTime
  <2>9. DirectBooks /\ GroupBooks
    BY <2>1, <2>3 DEF DirectBooks, GroupBooks
  <2>10. QED
    BY <2>4, <2>5, <2>6, <2>7, <2>8, <2>9 DEF ReadInv
<1>2. ReadInv /\ [Next]_vars => ReadInv'
  <2> SUFFICES ASSUME ReadInv, [Next]_vars PROVE ReadInv'
    OBVIOUS
  <2>1. /\ TypeOK /\ Chat /\ Sending /\ OneEntry /\ InTime
        /\ NotedOnce /\ ToldOnce /\ ToldInTime /\ DirectBooks /\ GroupBooks
    BY DEF ReadInv
  <2>2. TypeOK' /\ Chat' /\ Sending' /\ OneEntry' /\ InTime'
    BY <2>1, TypeStep, ChatStep, SendingStep, OneEntryStep, InTimeStep
  <2>3. NotedOnce' /\ ToldOnce' /\ ToldInTime'
    BY <2>1, <2>2, NotedStep, ToldOnceStep, ToldInTimeStep
  <2>4. DirectBooks' /\ GroupBooks'
    BY <2>1, <2>2, DirectBooksStep, GroupBooksStep
  <2>5. QED
    BY <2>2, <2>3, <2>4 DEF ReadInv
<1>3. QED
  BY <1>1, <1>2, PTL DEF Spec

(* Every variable has its type, and at most PendingMax ids are pending.      *)
THEOREM ReadTypes == Spec => []TypeOK
<1>1. ReadInv => TypeOK
  BY DEF ReadInv
<1>2. QED
  BY <1>1, ReadInvHolds, PTL

(* take_local_read_ids and note_local_msg_id: the phone is told at most once *)
(* that a reader read a message, whatever is repeated, expires or is         *)
(* forgotten, and in a group never of one begun after the receipt.           *)
THEOREM ReadReportsAreTrue == Spec => []ReportsAreTrue
<1>1. ReadInv => ReportsAreTrue
  BY DEF ReadInv, ToldOnce, ToldInTime, ReportsAreTrue
<1>2. QED
  BY <1>1, ReadInvHolds, PTL

(* take_read_catch_up: in a direct chat a message of another device is       *)
(* reported read if and only if it was, in whatever order it and the receipt *)
(* come out of the outbox.                                                   *)
THEOREM ReadCatchUpExact == Spec => []OtherReadsExact
<1>1. ReadInv => OtherReadsExact
  <2> SUFFICES ASSUME ReadInv, ~group, NEW m \in Msgs, NEW r \in members, kind[m] = "other"
               PROVE  /\ notified[m][r] > 0 => pos[m] <= readTo[r]
                      /\ m \in tracked /\ lastPos[r] >= pos[m] => notified[m][r] = 1
    BY DEF OtherReadsExact
  <2>1. /\ notified[m][r] > 0 => pos[m] <= readTo[r]
        /\ m \in tracked => notified[m][r] = 1 \/ (m \in Pending /\ lastPos[r] < pos[m])
    BY DEF ReadInv, DirectBooks
  <2>2. lastPos[r] \in Nat /\ pos[m] \in Nat
    BY DEF ReadInv, TypeOK
  <2>3. QED
    BY <2>1, <2>2
<1>2. QED
  BY <1>1, ReadInvHolds, PTL

(* The group branch of take_local_read_ids: the watermark makes it skip only *)
(* receipts that are older than one already drained, so a receipt that is    *)
(* not reports every noted message it covers.                                *)
THEOREM ReadGroupComplete == Spec => GroupComplete
<1> DEFINE Complete ==
      \A r \in members :
         (/\ group /\ next' = next + 1
          /\ outbox[next + 1].kind = "read" /\ outbox[next + 1].reader = r
          /\ outbox[next + 1].position >= newest[r])
         => \A m \in tracked :
               pos[m] \in 1..outbox[next + 1].position => notified'[m][r] > 0
<1>1. ReadInv /\ [Next]_vars => Complete
  <2> SUFFICES ASSUME ReadInv, [Next]_vars, NEW r \in members, group, next' = next + 1,
                      outbox[next + 1].kind = "read", outbox[next + 1].reader = r,
                      outbox[next + 1].position >= newest[r],
                      NEW m \in tracked, pos[m] \in 1..outbox[next + 1].position
               PROVE  notified'[m][r] > 0
    OBVIOUS
  <2>1. /\ TypeOK /\ Sending /\ OneEntry /\ InTime /\ NotedOnce /\ ToldOnce /\ GroupBooks
    BY DEF ReadInv
  <2>2. /\ next \in Nat /\ Len(outbox) \in Nat /\ next <= Len(outbox) /\ tracked \subseteq Msgs
        /\ members \subseteq Readers /\ mark \in [Readers -> Nat] /\ newest \in [Readers -> Nat]
        /\ notified \in [Msgs -> [Readers -> Nat]] /\ born \in [Msgs -> Nat] /\ pos \in [Msgs -> Nat]
    <3>1. next \in 0..Len(outbox) /\ outbox \in Seq(Entries)
      BY <2>1 DEF TypeOK
    <3>2. next \in Nat /\ Len(outbox) \in Nat /\ next <= Len(outbox)
      BY <3>1
    <3>3. QED
      BY <2>1, <3>2 DEF TypeOK
  <2>3. DrainRead
    <3>1. ~DrainSent
      BY DEF DrainSent
    <3>2. ~Restart /\ ~UNCHANGED vars
      BY <2>2 DEF Restart, vars
    <3>3. ~(Next /\ ~DrainSent /\ ~DrainRead /\ ~Restart)
      <4>1. next' # next
        BY <2>2
      <4>2. QED
        BY <2>1, <4>1, OtherSteps
    <3>4. QED
      BY <3>1, <3>2, <3>3
  <2>4. PICK e, ids : /\ Drained(e, ids) /\ next + 1 \in 1..Len(outbox)
                      /\ e.position \in Nat /\ e.created \in Nat
    BY <2>1, <2>3, DrainFacts
  <2>5. /\ e = outbox[next + 1] /\ Receipt(next + 1) /\ ids = Taken(e) /\ e.reader = r
        /\ notified'[m][r] = IF m \in ids THEN notified[m][r] + 1 ELSE notified[m][r]
    BY <2>2, <2>4 DEF Drained
  <2>6. ~Stale(r, e.position)
    <3>1. SUFFICES ASSUME mark[r] > 0, e.position <= mark[r] PROVE FALSE
      BY DEF Stale
    <3>2. e.position = mark[r]
      <4>1. mark[r] <= newest[r] /\ newest[r] <= e.position
        BY <2>1, <2>2, <2>4, <2>5 DEF GroupBooks
      <4>2. QED
        BY <2>2, <2>4, <3>1, <4>1
    <3>3. PICK i \in 1..next : Receipt(i) /\ outbox[i].reader = r /\ outbox[i].position = mark[r]
      BY <2>1, <3>1 DEF GroupBooks
    <3>4. i \in 1..Len(outbox) /\ i # next + 1
      BY <2>2
    <3>5. SameEntry(i, next + 1)
      BY <2>5, <3>2, <3>3 DEF SameEntry
    <3>6. QED
      BY <2>1, <2>4, <3>4, <3>5 DEF OneEntry
  <2>7. m \in Pending /\ m \in Msgs /\ r \in Readers
    BY <2>1, <2>2 DEF GroupBooks
  <2>8. CASE r \in seen[m]
    <3>1. notified[m][r] = 1
      BY <2>1, <2>7, <2>8 DEF ToldOnce
    <3>2. QED
      BY <2>5, <3>1
  <2>9. CASE r \notin seen[m]
    <3>1. born[m] <= e.created
      <4>1. pos[m] > 0 /\ pos[m] <= e.position /\ pos[m] \in Nat /\ born[m] \in Nat
        BY <2>2, <2>5, <2>7
      <4>2. born[m] <= pos[m] /\ e.position <= e.created
        BY <2>1, <2>4, <2>5, <2>7, <4>1 DEF Sending, InTime
      <4>3. QED
        BY <2>4, <4>1, <4>2
    <3>2. m \in ids
      BY <2>5, <2>6, <2>7, <2>9, <3>1 DEF Taken, Pending
    <3>3. notified[m][r] = 0
      BY <2>1, <2>7, <2>9 DEF ToldOnce
    <3>4. QED
      BY <2>5, <3>2, <3>3
  <2>10. QED
    BY <2>8, <2>9
<1>2. Complete => [Complete]_vars
  OBVIOUS
<1>3. QED
  BY <1>1, ReadInvHolds, PTL DEF GroupComplete, Spec
=============================================================================

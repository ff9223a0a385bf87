------------------------------- MODULE Mailbox -------------------------------
(***************************************************************************)
(* What the outbox promises LINE 3.7.1, whatever carries it: an item is    *)
(* posted, some poll takes it, and the phone gets it once.  A take may be  *)
(* undone (the taker stopped before it could remember the take) as long as *)
(* the phone has not got the item; an item taken and never got is lost,    *)
(* which this specification allows.  A lapse is a loss of memory: it may   *)
(* undo any take, and each lapse lets an item through once more.           *)
(***************************************************************************)
EXTENDS Naturals

CONSTANT Items

VARIABLES posted,   \* items put into the mailbox
          taken,    \* items some poll has claimed
          got,      \* how often the phone has received each item
          lapses    \* how often the takes were lost

mvars == <<posted, taken, got, lapses>>

Init == posted = {} /\ taken = {} /\ got = [i \in Items |-> 0] /\ lapses = 0

Post(i) ==
    /\ posted' = posted \cup {i}
    /\ UNCHANGED <<taken, got, lapses>>

\* A claim takes only what nobody holds.
Take(S) ==
    /\ S \subseteq posted \ taken
    /\ taken' = taken \cup S
    /\ UNCHANGED <<posted, got, lapses>>

\* Has the phone received the item since the last lapse?
Received(i) == got[i] > lapses

\* A claim forgotten by a restart; never of an item the phone has received.
Untake(S) ==
    /\ \A i \in S : ~Received(i)
    /\ taken' = taken \ S
    /\ UNCHANGED <<posted, got, lapses>>

\* The memory is lost, or part of it.
Lapse(S) ==
    /\ lapses' = lapses + 1
    /\ taken' = taken \ S
    /\ UNCHANGED <<posted, got>>

\* The phone receives items it has not received.
Receive(S) ==
    /\ S \subseteq taken
    /\ \A i \in S : ~Received(i)
    /\ got' = [i \in Items |-> IF i \in S THEN got[i] + 1 ELSE got[i]]
    /\ UNCHANGED <<posted, taken, lapses>>

Next ==
    \/ \E i \in Items : Post(i)
    \/ \E S \in SUBSET Items : Take(S) \/ Untake(S) \/ Lapse(S) \/ Receive(S)

Spec == Init /\ [][Next]_mvars
=============================================================================

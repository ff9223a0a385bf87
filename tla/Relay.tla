-------------------------------- MODULE Relay --------------------------------
(***************************************************************************)
(* What the receiving side promises for messages and read receipts: they   *)
(* come out in the order in which LINE produced them, each once, and none  *)
(* is left out but the one a failure costs.  The sink is always the        *)
(* beginning of the source.                                                *)
(***************************************************************************)
EXTENDS Naturals, Sequences

CONSTANT Values

VARIABLES source,   \* what LINE produced, without what failures lost
          sink,     \* what has been passed on
          failures  \* how many there were

rvars == <<source, sink, failures>>

Init == source = <<>> /\ sink = <<>> /\ failures = 0

Produce(v) ==
    /\ source' = Append(source, v)
    /\ UNCHANGED <<sink, failures>>

Forward(n) ==
    /\ n \in Len(sink)..Len(source)
    /\ sink' = SubSeq(source, 1, n)
    /\ UNCHANGED <<source, failures>>

\* A failure loses nothing, or one that has not been passed on.
Without(k) == SubSeq(source, 1, k - 1) \o SubSeq(source, k + 1, Len(source))
Fail ==
    /\ failures' = failures + 1
    /\ \/ UNCHANGED source
       \/ \E k \in (Len(sink) + 1)..Len(source) : source' = Without(k)
    /\ UNCHANGED sink

Next ==
    \/ \E v \in Values : Produce(v)
    \/ \E n \in 0..Len(source) : Forward(n)
    \/ Fail

Spec == Init /\ [][Next]_rvars
=============================================================================

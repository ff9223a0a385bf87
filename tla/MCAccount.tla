----------------------------- MODULE MCAccount ------------------------------
EXTENDS Account, TLC

CONSTANTS x, y, s1, s2, r1, r2, o1, o2, c1, c2

TwoMids == {x, y}
OneNewcomer == {x}
TwoStatuses == {s1, s2}
TwoOperations == {o1, o2}
TwoThreads == {r1, r2}
TwoCalls == {c1, c2}
OneRing == {r1}

Symmetry ==
    Permutations(Mids) \cup Permutations(Statuses) \cup Permutations(Operations)
        \cup Permutations(Threads) \cup Permutations(Calls)
=============================================================================

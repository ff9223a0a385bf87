------------------------------ MODULE MCContent ------------------------------
EXTENDS Content, TLC

CONSTANTS p1, r1, r2, v1, v2, m1

OnePost == {p1}
TwoThreads == {r1, r2}
TwoVideos == {v1, v2}
OneMessage == {m1}

Symmetry == Permutations(Threads) \cup Permutations(Videos)
=============================================================================

--------------------------- MODULE MCReadReceipts ---------------------------
EXTENDS ReadReceipts, TLC

CONSTANTS m1, m2, m3, r1, r2

ThreeMsgs == {m1, m2, m3}
TwoReaders == {r1, r2}

\* Messages are interchangeable until they are sent, and so are readers.
Symmetry == Permutations(ThreeMsgs) \cup Permutations(TwoReaders)
=============================================================================

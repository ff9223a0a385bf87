-------------------------- MODULE MCFetchOperations --------------------------
EXTENDS FetchOperations, TLC

CONSTANTS c1, c2, i1, i2, o1

TwoConns == {c1, c2}
OneItem == {i1}
TwoItems == {i1, i2}
OneConfirm == {o1}
NoConfirm == {}
NoItem == {}

\* Connections are interchangeable, and so are items when none is silent.
FullSymmetry == Permutations(TwoConns) \cup Permutations(TwoItems)
=============================================================================

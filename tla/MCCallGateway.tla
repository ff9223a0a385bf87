---------------------------- MODULE MCCallGateway ----------------------------
EXTENDS CallGateway

CONSTANTS o1, o2, r1

TwoCalls == {o1, o2}
OneRing == {r1}

ASSUME MCAssumption == CallAssumption
=============================================================================

---------------------------- MODULE MCInboundSync ----------------------------
EXTENDS InboundSync

CONSTANTS a, b

TwoOps == {a, b}
=============================================================================

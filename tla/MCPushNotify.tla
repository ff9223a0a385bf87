---------------------------- MODULE MCPushNotify ----------------------------
EXTENDS PushNotify

CONSTANTS d1, d2, m1, m2, e1, r1, r2, x1

TwoDevices == {d1, d2}
NoDevice == {}
TwoMessages == {m1, m2}
OneReceipt == {e1}
TwoRings == {r1, r2}
OneRing == {r2}
OneCancel == {x1}
=============================================================================

----------------------------- MODULE MCMediaSend -----------------------------
EXTENDS MediaSend

CONSTANT m1

OneMessage == {m1}
=============================================================================

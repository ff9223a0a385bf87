----------------------------- MODULE MCRequests ------------------------------
EXTENDS Requests, TLC

CONSTANTS t1, t2, t3, c1, c2   \* tasks, streams

\* Two commands the bridge carries out and one it does not know.
ThreeTasks == {t1, t2, t3}
Methods == [t \in ThreeTasks |-> IF t = t1 THEN "kickoutFromGroup"
                                 ELSE IF t = t2 THEN "blockContact"
                                 ELSE "cancelGroupInvitation"]
TwoCalls == {c1, c2}
=============================================================================

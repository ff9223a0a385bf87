---------------------------- MODULE MCGroupWrite ----------------------------
EXTENDS GroupWrite

CONSTANT t1

OneTask == {t1}
CreateMethod == [t \in OneTask |-> "createGroup"]
=============================================================================

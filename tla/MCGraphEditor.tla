---------------------------- MODULE MCGraphEditor ----------------------------
EXTENDS GraphEditor

CONSTANTS n1, n2

MCCompatible == {<<n1, n2>>}
=============================================================================

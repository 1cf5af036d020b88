---------------------------- MODULE MCAlertBranch ----------------------------
EXTENDS AlertBranch
=============================================================================

--------------------------- MODULE MCOfflineBoard ---------------------------
(* OfflineBoard on a small instance. *)
EXTENDS OfflineBoard
=============================================================================

------------------------- MODULE MCHeartbeatChannel -------------------------
(* HeartbeatChannel on a small instance. *)
EXTENDS HeartbeatChannel
=============================================================================

---------------------------- MODULE MCAuditQueue ----------------------------
(* AuditQueue on a small instance. *)
EXTENDS AuditQueue

EveryPointBut(points) == PC \ points
SafePoints == EveryPointBut({"renamed"})
=============================================================================

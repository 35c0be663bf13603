------------------------- MODULE MCAuditForwarding -------------------------
(* A small instance of AuditForwarding for TLC. *)
EXTENDS AuditForwarding

CONSTANTS f1, f2
=============================================================================

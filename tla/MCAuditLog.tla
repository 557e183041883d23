----------------------------- MODULE MCAuditLog -----------------------------
(* AuditLog for TLC. *)
EXTENDS AuditLog

CONSTANT o1
=============================================================================

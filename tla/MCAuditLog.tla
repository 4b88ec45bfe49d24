----------------------------- MODULE MCAuditLog -----------------------------
(* Two Loggers, one after the other or at the same time, and two logs. *)
EXTENDS AuditLog, TLC

Symmetry == Permutations(Loggers)
=============================================================================

------------------------------ MODULE MCAuditLog ------------------------------
(* Instances of AuditLog for TLC.  One event is enough: records differ by  *)
(* their place in the chain.                                               *)
EXTENDS AuditLogTrail, TLC

CONSTANT e1
=============================================================================

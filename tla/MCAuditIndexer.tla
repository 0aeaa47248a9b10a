--------------------------- MODULE MCAuditIndexer ---------------------------
(***************************************************************************)
(* The instance of AuditIndexer for TLC: a handful of decisions, replies   *)
(* of two and a state file written every second decision, so that a        *)
(* process can die, be interrupted or fail in the middle of each of them.  *)
(***************************************************************************)
EXTENDS AuditIndexer
=============================================================================

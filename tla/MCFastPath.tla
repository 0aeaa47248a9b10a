----------------------------- MODULE MCFastPath -----------------------------
(***************************************************************************)
(* The instance of FastPath for TLC: a batch of a critical, a quiet and an *)
(* invalid event, posted twice, on two threads and one pool process, so    *)
(* that threads and processes are scarce and the attempts can overlap.     *)
(***************************************************************************)
EXTENDS FastPath
=============================================================================

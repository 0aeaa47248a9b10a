----------------------------- MODULE MCLabeller -----------------------------
(***************************************************************************)
(* Labeller for TLC: two flows of two external sources.                    *)
(***************************************************************************)
EXTENDS Labeller

CONSTANTS f1, f2, e1, e2

Source(f) == IF f = f1 THEN e1 ELSE e2
=============================================================================

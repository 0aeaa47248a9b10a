----------------------------- MODULE MCCaseBoard -----------------------------
(* Two analysts, and two answers on their way, that may swap names.        *)
EXTENDS CaseBoard, TLC

CONSTANTS Ana, Ben, One, Two

MCAnalysts == {Ana, Ben}
MCAnswers == {One, Two}
Symmetry == Permutations(MCAnalysts) \cup Permutations(MCAnswers)
=============================================================================

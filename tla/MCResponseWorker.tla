-------------------------- MODULE MCResponseWorker --------------------------
(***************************************************************************)
(* Instances of ResponseWorker for TLC.  One or two reputation sources,    *)
(* the response tiers of config.py (R1 not above R2), and the stream's     *)
(* limits scaled down so that a batch can end, MAXLEN can bite and a key   *)
(* can expire within a few steps.                                          *)
(***************************************************************************)
EXTENDS ResponseWorker, TLC

Enforcing == [mode |-> "enforce", backend |-> "wazuh_api"]

(* Both modes, and the mistake of enforcing without a backend that does.   *)
AllSettings ==
  {Enforcing, [Enforcing EXCEPT !.mode = "dry_run"], [Enforcing EXCEPT !.backend = "dry_run"]}

EnforceOnly == {Enforcing}

(* The sources are interchangeable for every property below.               *)
SourceSymmetry == Permutations(Sources)
=============================================================================

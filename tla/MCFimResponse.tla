---------------------------- MODULE MCFimResponse ----------------------------
(***************************************************************************)
(* Instances of FimResponse for TLC: two files of the uploads directory,   *)
(* whose names are either told apart or confused by the script, and one    *)
(* outside of what the script may touch.                                   *)
(***************************************************************************)
EXTENDS FimResponse

CONSTANTS a, b

OwnName(p) == p

(* uploads/x_y.php and uploads/x/y.php                                     *)
SameName(p) == "x_y.php"
=============================================================================

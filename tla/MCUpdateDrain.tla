---------------------------- MODULE MCUpdateDrain ----------------------------
(* Instances of UpdateDrain for TLC. *)
EXTENDS UpdateDrain
=============================================================================

---------------------------- MODULE MCApiGovernor ----------------------------
(* Instances of ApiGovernor. *)
EXTENDS ApiGovernor
=============================================================================

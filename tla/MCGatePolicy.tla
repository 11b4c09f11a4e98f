---------------------------- MODULE MCGatePolicy ----------------------------
(* The policy file, for TLC. *)
EXTENDS GatePolicy
=============================================================================

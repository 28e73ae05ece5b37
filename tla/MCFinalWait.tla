---------------------------- MODULE MCFinalWait ----------------------------
(* FinalWait for TLC. *)
EXTENDS FinalWait
=============================================================================

-------------------------- MODULE MCIngestionCore --------------------------
(* Instances of IngestionCore for TLC. *)
EXTENDS IngestionCore, TLC

\* Publications are interchangeable, and so are the metric types.
CallSymmetry == Permutations(Calls) \cup Permutations(Types)
=============================================================================

------------------------------ MODULE MCStorage ------------------------------
(* Instances of Storage for TLC.                                             *)
EXTENDS Storage, TLC

Symmetry == Permutations(Processes) \cup Permutations(Values)
=============================================================================

--------------------------- MODULE MCParkedSocket ---------------------------
(* Instances of ParkedSocket for TLC, with any clients and any evaluation.   *)
EXTENDS ParkedSocket, TLC

Symmetry == Permutations(Requests) \cup Permutations(Calls)
=============================================================================

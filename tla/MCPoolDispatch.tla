--------------------------- MODULE MCPoolDispatch ---------------------------
(* Instances of PoolDispatch for TLC.  Requests and parents are model values *)
(* no definition tells apart, so states may be identified up to permutation. *)
EXTENDS PoolDispatch, TLC

Symmetry == Permutations(Requests) \cup Permutations(Parents)
=============================================================================

------------------------- MODULE MCDirectAssignment -------------------------
(* Instances of DirectAssignment for TLC.  Frail assignments are told apart  *)
(* from the others, nothing else is.                                         *)
EXTENDS DirectAssignment, TLC

Symmetry == Permutations(Ids \ Frail) \cup Permutations(Frail)
            \cup Permutations(Chats) \cup Permutations(Tasks)
=============================================================================

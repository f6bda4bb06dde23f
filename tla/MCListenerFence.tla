--------------------------- MODULE MCListenerFence ---------------------------
(* Instances of ListenerFence for TLC.                                       *)
EXTENDS ListenerFence, TLC

Symmetry == Permutations(Workers) \cup Permutations(Packets)
=============================================================================

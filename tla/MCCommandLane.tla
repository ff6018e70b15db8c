--------------------------- MODULE MCCommandLane ---------------------------
(* Three operations on one lane: the smallest chain in which a middle      *)
(* operation can be closed before its predecessor.                         *)
EXTENDS CommandLane, TLC

Symmetry == Permutations(Op)
=============================================================================

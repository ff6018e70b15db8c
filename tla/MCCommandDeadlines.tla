------------------------- MODULE MCCommandDeadlines -------------------------
(* Two commands of one chat, so that one can wait for the other, or one    *)
(* command and two reconcilers, so that a former leader can interfere.     *)
EXTENDS CommandDeadlines, TLC

Commands == Permutations(Op)
Reconcilers == Permutations(Reconciler)
=============================================================================

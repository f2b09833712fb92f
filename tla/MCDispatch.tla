----------------------------- MODULE MCDispatch -----------------------------
EXTENDS Dispatch, TLC

Symmetry == Permutations(Tasks) \cup Permutations(OpCmds)
=============================================================================

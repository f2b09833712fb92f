------------------------------ MODULE MCLedger ------------------------------
(* Two processes and two calls of one nano-USD each under a budget of one:   *)
(* the second call fits only when the first is settled below its worst case. *)
EXTENDS Ledger, TLC

MCWorstCase == [c \in Calls |-> 1]
MCSymmetry == Permutations(Handles) \cup Permutations(Calls)
=============================================================================

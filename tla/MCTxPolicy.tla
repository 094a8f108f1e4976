----------------------------- MODULE MCTxPolicy -----------------------------
(* TLC instances of TxPolicy. *)
EXTENDS TxPolicy, TLC

CONSTANTS f1, f2, f3, r1, r2, r3, i1, i2

Symmetry == Permutations(Frames) \cup Permutations(Rates)
               \cup Permutations(Policies)
=============================================================================

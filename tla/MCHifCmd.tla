------------------------------ MODULE MCHifCmd ------------------------------
(* TLC instances of HifCmd. *)
EXTENDS HifCmd, TLC

CONSTANTS p1, p2, p3

ProcSymmetry == Permutations(Procs)
=============================================================================

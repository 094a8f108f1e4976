------------------------------- MODULE MCVif -------------------------------
(* TLC instances of Vif. *)
EXTENDS Vif, TLC

CONSTANTS s1, s2, s3, k1, k2, k3

Symmetry == Permutations(Stas) \cup Permutations(Keys)
=============================================================================

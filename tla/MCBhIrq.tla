------------------------------- MODULE MCBhIrq -------------------------------
(* TLC instances of BhIrq. *)
EXTENDS BhIrq
=============================================================================

------------------------------- MODULE MCScan -------------------------------
(* TLC instance of Scan. *)
EXTENDS Scan
=============================================================================

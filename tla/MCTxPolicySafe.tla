--------------------------- MODULE MCTxPolicySafe ---------------------------
(* The TLC instance of TxPolicy that also checks the lists of rates its     *)
(* policies are made of.                                                    *)
EXTENDS MCTxPolicy, TxPolicyRates
=============================================================================

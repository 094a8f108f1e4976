--------------------------- MODULE TxPolicyRates ---------------------------
(* The policies of TxPolicy are made of the lists of rates of RateFixup.     *)
EXTENDS TxPolicy, RateFixup

\* Whatever list mac80211 gave with a frame the chip is about to confirm, the
\* policy made of it by wfx_tx_fixup_rates, and the report wfx_tx_fill_rates
\* makes for it, are as AllFixedUp says.
RatesFixedUp == (\E f \in Frames : At(f, "chip")) => AllFixedUp
=============================================================================

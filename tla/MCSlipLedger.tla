---------------------------- MODULE MCSlipLedger ----------------------------
(* Small instances of SlipLedger for TLC. *)
EXTENDS SlipLedger, TLC

MCPrice == {2}
MCQuote == {0, 3}
MCAdjustment == {-100, 1}
MCTender == 0..16
=============================================================================

--------------------------- MODULE MCCheckoutRpc ---------------------------
(* Small instances of CheckoutRpc for TLC. *)
EXTENDS CheckoutRpc, TLC

MCPrice == {1}
MCTender == {0, 1, 2}
MCTerminals == Permutations(Terminal)
=============================================================================

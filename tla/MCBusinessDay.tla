--------------------------- MODULE MCBusinessDay ---------------------------
(* Small instances of BusinessDay for TLC. *)
EXTENDS BusinessDay, TLC

MCAmount == {0}
MCPages == Permutations(Page)
=============================================================================

------------------------------ MODULE MCLedger ------------------------------
(***************************************************************************)
(* Ledger and its views on two keys.                                        *)
(***************************************************************************)
EXTENDS LedgerViews, TLC

NameSymmetry == Permutations(Name)
=============================================================================

------------------------------ MODULE MCLedger ------------------------------
(***************************************************************************)
(* Small instances of Ledger for TLC.                                      *)
(***************************************************************************)
EXTENDS Ledger, TLC

\* Rows of one table are interchangeable.
Symmetry == Permutations(Accounts) \cup Permutations(Ids)

\* Balances written by hand: an overdrawn one too (a cfg cannot hold -1).
Overdrawn == {-1, 1}
=============================================================================

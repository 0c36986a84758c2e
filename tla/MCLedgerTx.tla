----------------------------- MODULE MCLedgerTx -----------------------------
(***************************************************************************)
(* Small instances of LedgerTx for TLC.                                    *)
(***************************************************************************)
EXTENDS LedgerTx, TLC

\* Requests, and the rows of one table, are interchangeable.
Symmetry == Permutations(Workers) \cup Permutations(Ids)

SymmetryOfAll == Symmetry \cup Permutations(Accounts)
=============================================================================

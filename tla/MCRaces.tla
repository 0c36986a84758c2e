------------------------------ MODULE MCRaces ------------------------------
(***************************************************************************)
(* Races of two requests for TLC.                                          *)
(***************************************************************************)
EXTENDS MCLedgerTx, Races

CONSTANTS k1, k2

\* A savings account with a deposit that renews, and one with a deposit that does
\* not, whose term a PATCH may take away.
Opening(f, term, renew) ==
  [live |-> TRUE, enabled |-> TRUE, earns |-> TRUE, frequency |-> f,
   last |-> None, from |-> 0, term |-> term, maturity |-> term, renew |-> renew]

MCOpened == {(k1 :> Opening("daily", 1, TRUE)) @@ (k2 :> Opening("monthly", 2, FALSE))}
MCMinDays == [f \in {"daily", "monthly"} |-> IF f = "daily" THEN 1 ELSE 2]
=============================================================================

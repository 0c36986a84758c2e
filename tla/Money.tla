------------------------------- MODULE Money --------------------------------
(***************************************************************************)
(* Sums of whole amounts of money over a finite set of movements.          *)
(*                                                                         *)
(* A sum of natural numbers is the number of monetary units it is made of: *)
(* one pair <<i, k>> for the k-th unit of movement i.  Written this way a  *)
(* sum needs no recursion, TLC evaluates it directly, and the facts about  *)
(* it follow from the facts about cardinalities (module MoneyProofs).      *)
(***************************************************************************)
EXTENDS Integers, FiniteSets

\* The units that movement i contributes when amt gives every amount.
UnitsOf(i, amt) == {i} \X (1 .. amt[i])

\* The units of all the movements of S.
Units(S, amt) == UNION {UnitsOf(i, amt) : i \in S}

\* The sum of amt[i] for i in S.
Sum(S, amt) == Cardinality(Units(S, amt))
=============================================================================

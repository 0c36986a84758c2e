---------------------------- MODULE MoneyProofs -----------------------------
(***************************************************************************)
(* Facts about sums of amounts, for every finite set of movements.         *)
(***************************************************************************)
EXTENDS Money, FiniteSetTheorems, TLAPS

\* The units of one movement are as many as its amount.
LEMMA UnitsOfSize ==
  ASSUME NEW i, NEW amt, amt[i] \in Nat
  PROVE  /\ IsFiniteSet(UnitsOf(i, amt))
         /\ Cardinality(UnitsOf(i, amt)) = amt[i]
<1>1. IsFiniteSet({i}) /\ Cardinality({i}) = 1
  BY FS_Singleton
<1>2. IsFiniteSet(1 .. amt[i]) /\ Cardinality(1 .. amt[i]) = amt[i]
  BY SMTT(60), FS_Interval
<1>3. /\ IsFiniteSet({i} \X (1 .. amt[i]))
      /\ Cardinality({i} \X (1 .. amt[i]))
           = Cardinality({i}) * Cardinality(1 .. amt[i])
  BY <1>1, <1>2, FS_Product
<1>4. QED
  BY <1>1, <1>2, <1>3 DEF UnitsOf

\* Finitely many movements have finitely many units.
LEMMA UnitsFinite ==
  ASSUME NEW S, IsFiniteSet(S), NEW amt, \A i \in S : amt[i] \in Nat
  PROVE  IsFiniteSet(Units(S, amt))
<1> DEFINE U == {UnitsOf(i, amt) : i \in S}
           f == [i \in S |-> UnitsOf(i, amt)]
<1>1. f \in Surjection(S, U)
  BY DEF Surjection
<1>2. IsFiniteSet(U)
  BY <1>1, FS_Surjection
<1>3. \A T \in U : IsFiniteSet(T)
  BY UnitsOfSize
<1>4. QED
  BY <1>2, <1>3, FS_UNION DEF Units

\* A sum of natural numbers is a natural number.
THEOREM SumType ==
  ASSUME NEW S, IsFiniteSet(S), NEW amt, \A i \in S : amt[i] \in Nat
  PROVE  Sum(S, amt) \in Nat
BY UnitsFinite, FS_CardinalityType DEF Sum

\* One more movement adds its amount to the sum.
THEOREM SumAdd ==
  ASSUME NEW S, IsFiniteSet(S), NEW i, i \notin S, NEW amt,
         \A j \in S \cup {i} : amt[j] \in Nat
  PROVE  Sum(S \cup {i}, amt) = Sum(S, amt) + amt[i]
<1>1. Units(S \cup {i}, amt) = Units(S, amt) \cup UnitsOf(i, amt)
  BY DEF Units
<1>2. Units(S, amt) \cap UnitsOf(i, amt) = {}
  BY DEF Units, UnitsOf
<1>3. IsFiniteSet(Units(S, amt))
  BY UnitsFinite
<1>4. /\ IsFiniteSet(UnitsOf(i, amt))
      /\ Cardinality(UnitsOf(i, amt)) = amt[i]
  BY UnitsOfSize
<1>5. Cardinality(Units(S, amt) \cup UnitsOf(i, amt))
        = Cardinality(Units(S, amt)) + Cardinality(UnitsOf(i, amt))
            - Cardinality(Units(S, amt) \cap UnitsOf(i, amt))
  BY <1>3, <1>4, FS_Union
<1>6. Cardinality(Units(S, amt) \cap UnitsOf(i, amt)) = 0
  BY <1>2, FS_EmptySet
<1>7. Cardinality(Units(S, amt)) \in Nat
  BY <1>3, FS_CardinalityType
<1>8. amt[i] \in Nat
  OBVIOUS
<1>9. Cardinality(Units(S, amt) \cup UnitsOf(i, amt))
        = Cardinality(Units(S, amt)) + amt[i]
  BY <1>4, <1>5, <1>6, <1>7, <1>8
<1>10. QED
  BY <1>1, <1>9, Zenon DEF Sum

\* Removing a movement takes its amount out of the sum.
THEOREM SumRemove ==
  ASSUME NEW S, IsFiniteSet(S), NEW i \in S, NEW amt,
         \A j \in S : amt[j] \in Nat
  PROVE  Sum(S, amt) = Sum(S \ {i}, amt) + amt[i]
<1>1. IsFiniteSet(S \ {i})
  BY FS_RemoveElement
<1>2. (S \ {i}) \cup {i} = S
  OBVIOUS
<1>3. QED
  BY <1>1, <1>2, SumAdd, i \notin S \ {i}

\* A sum depends on the amounts of its own movements only.
THEOREM SumAgrees ==
  ASSUME NEW S, NEW amt, NEW bmt, \A i \in S : amt[i] = bmt[i]
  PROVE  Sum(S, amt) = Sum(S, bmt)
<1>1. \A i \in S : UnitsOf(i, amt) = UnitsOf(i, bmt)
  BY DEF UnitsOf
<1>2. Units(S, amt) = Units(S, bmt)
  BY <1>1 DEF Units
<1>3. QED
  BY <1>2 DEF Sum

\* The sum over two disjoint sets of movements.
THEOREM SumUnion ==
  ASSUME NEW S, NEW T, IsFiniteSet(S), IsFiniteSet(T), S \cap T = {}, NEW amt,
         \A j \in S \cup T : amt[j] \in Nat
  PROVE  Sum(S \cup T, amt) = Sum(S, amt) + Sum(T, amt)
<1>1. Units(S \cup T, amt) = Units(S, amt) \cup Units(T, amt)
  BY DEF Units
<1>2. Units(S, amt) \cap Units(T, amt) = {}
  BY DEF Units, UnitsOf
<1>3. IsFiniteSet(Units(S, amt)) /\ IsFiniteSet(Units(T, amt))
  BY UnitsFinite
<1>4. Cardinality(Units(S, amt) \cup Units(T, amt))
        = Cardinality(Units(S, amt)) + Cardinality(Units(T, amt))
            - Cardinality(Units(S, amt) \cap Units(T, amt))
  BY <1>3, FS_Union
<1>5. Cardinality(Units(S, amt) \cap Units(T, amt)) = 0
  BY <1>2, FS_EmptySet
<1>6. Cardinality(Units(S, amt)) \in Nat /\ Cardinality(Units(T, amt)) \in Nat
  BY <1>3, FS_CardinalityType
<1>7. Cardinality(Units(S, amt) \cup Units(T, amt))
        = Cardinality(Units(S, amt)) + Cardinality(Units(T, amt))
  BY <1>4, <1>5, <1>6
<1>8. QED
  BY <1>1, <1>7, Zenon DEF Sum
=============================================================================

---------------------------- MODULE LedgerProofs ----------------------------
(***************************************************************************)
(* Theorems about Ledger, for every set of rows, links and amounts.        *)
(*                                                                         *)
(* Every request that moves money reduces to one posting: Booked(v) says   *)
(* what a posting of the deltas v does.  The safety properties of the      *)
(* balances follow from that alone, action by action.                      *)
(***************************************************************************)
EXTENDS Ledger, MoneyProofs

Deltas == [Entities -> Int]

\* A posting moves every open balance by its delta and no closed one, lands an
\* account it moved at zero or above, and evaluates the goals it moved.
Booked(v) ==
  /\ v \in Deltas
  /\ bal' \in Deltas
  /\ done' \in [Objectives -> BOOLEAN]
  /\ \A e \in Entities \ closed : bal'[e] = bal[e] + v[e]
  /\ \A e \in Entities \cap closed : bal'[e] = bal[e]
  /\ \A a \in Accounts : bal'[a] # bal[a] => bal'[a] >= 0
  /\ \A o \in Objectives :
       \/ done'[o] = Reached(target[o], bal'[o])
       \/ bal'[o] = bal[o] /\ done'[o] = done[o]
  /\ \A o \in Objectives \cap closed : done'[o] = done[o]

\* The deltas that vanish outside the balances they are applied to.
Within(v, hit) == v \in Deltas /\ \A e \in Entities \ hit : v[e] = 0

-----------------------------------------------------------------------------
(***************************************************************************)
(* Deltas.                                                                 *)
(***************************************************************************)
LEMMA LinkSignType ==
  ASSUME NEW r, NEW e \in Entities
  PROVE  LinkSign(r, e) \in {-1, 0, 1}
BY DEF LinkSign

LEMMA LegSignType ==
  ASSUME NEW r, NEW e \in Entities
  PROVE  LegSign(r, e) \in {-1, 0, 1}
BY DEF LegSign

LEMMA SignedAmount ==
  ASSUME NEW s \in {-1, 0, 1}, NEW n \in Nat
  PROVE  s * n \in Int /\ (s = 0 => s * n = 0)
OBVIOUS

LEMMA LinkDeltaType ==
  ASSUME NEW r, r.amount \in Nat
  PROVE  LinkDelta(r) \in Deltas
<1>1. \A e \in Entities : LinkSign(r, e) * r.amount \in Int
  BY LinkSignType, SignedAmount
<1>2. QED
  BY <1>1 DEF LinkDelta, Deltas

\* A leg changes nothing outside the balances it is applied to.
LEMMA LegDeltaWithin ==
  ASSUME NEW r, r.amount \in Nat
  PROVE  Within(LegDelta(r), LegHit(r)) /\ LegHit(r) \subseteq Entities
<1>1. \A e \in Entities : /\ LegSign(r, e) * r.amount \in Int
                          /\ LegSign(r, e) = 0 => LegSign(r, e) * r.amount = 0
  BY LegSignType, SignedAmount
<1>2. QED
  BY <1>1 DEF LegDelta, LegHit, Within, Deltas

LEMMA MinusType ==
  ASSUME NEW v \in Deltas
  PROVE  Minus(v) \in Deltas
BY DEF Minus, Deltas

LEMMA MinusWithin ==
  ASSUME NEW v, NEW hit, Within(v, hit)
  PROVE  Within(Minus(v), hit)
BY DEF Minus, Within, Deltas

LEMMA PlusType ==
  ASSUME NEW v \in Deltas, NEW w \in Deltas
  PROVE  Plus(v, w) \in Deltas
BY DEF Plus, Deltas

LEMMA ShiftType ==
  ASSUME NEW b \in Deltas, NEW v \in Deltas
  PROVE  Shift(b, v) \in Deltas
BY DEF Shift, Deltas

LEMMA ObjectivesAreEntities == Objectives \subseteq Entities /\ Accounts \subseteq Entities
BY DEF Entities, Patrimony

-----------------------------------------------------------------------------
(***************************************************************************)
(* Postings.                                                               *)
(***************************************************************************)
BalanceTypes ==
  /\ bal \in Deltas
  /\ done \in [Objectives -> BOOLEAN]
  /\ target \in [Objectives -> Nat]

LEMMA ReachedType ==
  ASSUME NEW t \in Int, NEW b \in Int
  PROVE  Reached(t, b) \in BOOLEAN
BY DEF Reached

\* Saving the balances b, when b differs from bal on open rows of hit only and
\* no account of hit ends below zero.
LEMMA SettleBooks ==
  ASSUME BalanceTypes, NEW b \in Deltas, NEW v \in Deltas, NEW hit, Settle(b, hit),
         \A e \in Entities \ closed : b[e] = bal[e] + v[e],
         \A e \in Entities \cap closed : b[e] = bal[e],
         \A e \in Entities \ hit : v[e] = 0,
         \A a \in (Accounts \cap hit) \ closed : b[a] >= 0
  PROVE  Booked(v)
<1> USE ObjectivesAreEntities
<1>1. bal' = b
  BY DEF Settle
<1>2. \A o \in Objectives :
        done'[o] = IF o \in hit \ closed THEN Reached(target[o], b[o]) ELSE done[o]
  BY DEF Settle
<1>3. done' \in [Objectives -> BOOLEAN]
  BY ReachedType DEF Settle, BalanceTypes, Reached
<1>4. \A e \in Entities : e \notin hit \/ e \in closed => b[e] = bal[e]
  BY DEF BalanceTypes, Deltas
<1>5. \A a \in Accounts : bal'[a] # bal[a] => bal'[a] >= 0
  BY <1>1, <1>4
<1>6. \A o \in Objectives :
        \/ done'[o] = Reached(target[o], bal'[o])
        \/ bal'[o] = bal[o] /\ done'[o] = done[o]
  BY <1>1, <1>2, <1>4
<1>7. \A o \in Objectives \cap closed : done'[o] = done[o]
  BY <1>2
<1>8. QED
  BY <1>1, <1>3, <1>5, <1>6, <1>7 DEF Booked

LEMMA PostNetBooks ==
  ASSUME BalanceTypes, NEW v \in Deltas, PostNet(v)
  PROVE  Booked(v)
<1> DEFINE hit == {e \in Entities : v[e] # 0}
<1> USE ObjectivesAreEntities
<1>1. Payable(bal, v, hit) /\ Settle(Shift(bal, v), hit)
  BY DEF PostNet, Admits
<1>2. Shift(bal, v) \in Deltas
  BY ShiftType DEF BalanceTypes
<1>3. \A e \in Entities \ closed : Shift(bal, v)[e] = bal[e] + v[e]
  BY DEF Shift
<1>4. \A e \in Entities \cap closed : Shift(bal, v)[e] = bal[e]
  BY DEF Shift
<1>5. \A a \in (Accounts \cap hit) \ closed : Shift(bal, v)[a] >= 0
  BY <1>1, <1>3 DEF Payable
<1>6. \A e \in Entities \ hit : v[e] = 0
  OBVIOUS
<1>7. QED
  BY <1>1, <1>2, <1>3, <1>4, <1>5, <1>6, SettleBooks

LEMMA PostTwoBooks ==
  ASSUME BalanceTypes, NEW v1, NEW h1, Within(v1, h1), NEW v2, NEW h2, Within(v2, h2),
         PostTwo(v1, h1, v2, h2)
  PROVE  Booked(Plus(v1, v2))
<1> DEFINE b1 == Shift(bal, v1)
           b2 == Shift(b1, v2)
<1> USE ObjectivesAreEntities
<1>1. /\ Payable(bal, v1, h1)
      /\ Payable(b1, v2, h2)
      /\ Settle(b2, h1 \cup h2)
  BY DEF PostTwo, Admits
<1>2. v1 \in Deltas /\ v2 \in Deltas /\ bal \in Deltas
  BY DEF Within, BalanceTypes
<1>3. b1 \in Deltas /\ b2 \in Deltas /\ Plus(v1, v2) \in Deltas
  BY <1>2, ShiftType, PlusType
<1>4. \A e \in Entities \ closed :
        b1[e] = bal[e] + v1[e] /\ b2[e] = b1[e] + v2[e]
  BY DEF Shift
<1>5. \A e \in Entities \cap closed : b2[e] = bal[e]
  BY DEF Shift
<1>6. \A e \in Entities \ closed : b2[e] = bal[e] + Plus(v1, v2)[e]
  BY <1>2, <1>4 DEF Plus, Deltas
<1>7. \A e \in Entities \ (h1 \cup h2) : Plus(v1, v2)[e] = 0
  BY DEF Plus, Within
<1>8. \A a \in (Accounts \cap (h1 \cup h2)) \ closed : b2[a] >= 0
  <2> TAKE a \in (Accounts \cap (h1 \cup h2)) \ closed
  <2>1. CASE a \in h2
    BY <1>1, <1>4, <2>1 DEF Payable
  <2>2. CASE a \in h1 /\ a \notin h2
    BY <1>1, <1>2, <1>4, <2>2 DEF Payable, Within, Deltas
  <2>3. QED
    BY <2>1, <2>2
<1> HIDE DEF b1, b2
<1>9. QED
  BY <1>1, <1>3, <1>5, <1>6, <1>7, <1>8, SettleBooks

LEMMA PostFourBooks ==
  ASSUME BalanceTypes, NEW v1, NEW h1, Within(v1, h1), NEW v2, NEW h2, Within(v2, h2),
         NEW v3, NEW h3, Within(v3, h3), NEW v4, NEW h4, Within(v4, h4),
         PostFour(v1, h1, v2, h2, v3, h3, v4, h4)
  PROVE  Booked(Plus(Plus(v1, v2), Plus(v3, v4)))
<1> DEFINE b1 == Shift(bal, v1)
           b2 == Shift(b1, v2)
           b3 == Shift(b2, v3)
           b4 == Shift(b3, v4)
           v == Plus(Plus(v1, v2), Plus(v3, v4))
           hit == h1 \cup h2 \cup h3 \cup h4
<1> USE ObjectivesAreEntities
<1>1. /\ Payable(bal, v1, h1) /\ Payable(b1, v2, h2)
      /\ Payable(b2, v3, h3) /\ Payable(b3, v4, h4)
      /\ Settle(b4, hit)
  BY DEF PostFour, Admits
<1>2. /\ v1 \in Deltas /\ v2 \in Deltas /\ v3 \in Deltas /\ v4 \in Deltas
      /\ bal \in Deltas
  BY DEF Within, BalanceTypes
<1>3. /\ b1 \in Deltas /\ b2 \in Deltas /\ b3 \in Deltas /\ b4 \in Deltas
      /\ v \in Deltas
  BY <1>2, ShiftType, PlusType
<1>4. \A e \in Entities \ closed :
        /\ b1[e] = bal[e] + v1[e] /\ b2[e] = b1[e] + v2[e]
        /\ b3[e] = b2[e] + v3[e] /\ b4[e] = b3[e] + v4[e]
  BY DEF Shift
<1>5. \A e \in Entities \cap closed : b4[e] = bal[e]
  BY DEF Shift
<1>6. \A e \in Entities : v[e] = v1[e] + v2[e] + v3[e] + v4[e]
  BY <1>2 DEF Plus, Deltas
<1>7. \A e \in Entities : /\ v1[e] \in Int /\ v2[e] \in Int /\ v3[e] \in Int
                          /\ v4[e] \in Int /\ bal[e] \in Int
  BY <1>2 DEF Deltas
<1>8. \A e \in Entities : /\ e \notin h1 => v1[e] = 0
                          /\ e \notin h2 => v2[e] = 0
                          /\ e \notin h3 => v3[e] = 0
                          /\ e \notin h4 => v4[e] = 0
  BY DEF Within
<1>9. \A a \in (Accounts \cap hit) \ closed : b4[a] >= 0
  <2> TAKE a \in (Accounts \cap hit) \ closed
  <2>0. /\ a \in h1 => b1[a] >= 0
        /\ a \in h2 => b2[a] >= 0
        /\ a \in h3 => b3[a] >= 0
        /\ a \in h4 => b4[a] >= 0
    BY <1>1, <1>4 DEF Payable
  <2> HIDE DEF b1, b2, b3, b4
  <2>1. CASE a \in h4
    BY <2>0, <2>1
  <2>2. CASE a \in h3 /\ a \notin h4
    BY <2>0, <2>2, <1>4, <1>7, <1>8
  <2>3. CASE a \in h2 /\ a \notin h3 \cup h4
    BY <2>0, <2>3, <1>4, <1>7, <1>8
  <2>4. CASE a \in h1 /\ a \notin h2 \cup h3 \cup h4
    BY <2>0, <2>4, <1>4, <1>7, <1>8
  <2>5. QED
    BY <2>1, <2>2, <2>3, <2>4
<1> HIDE DEF b1, b2, b3, b4, v
<1>10. \A e \in Entities \ closed : b4[e] = bal[e] + v[e]
  BY <1>4, <1>6, <1>7
<1>11. \A e \in Entities \ hit : v[e] = 0
  BY <1>6, <1>8
<1>12. Booked(v)
  BY <1>1, <1>3, <1>5, <1>9, <1>10, <1>11, SettleBooks
<1>13. QED
  BY <1>12 DEF v

-----------------------------------------------------------------------------
(***************************************************************************)
(* Rows.                                                                   *)
(***************************************************************************)
LEMMA DraftType ==
  ASSUME NEW d \in Draft
  PROVE  d.amount \in Nat /\ PlainRow(d) \in Record
BY LedgerAssumption DEF Draft, PlainRow, Record

LEMMA MergedType ==
  ASSUME NEW r \in Record, NEW d \in Draft
  PROVE  Merged(r, d) \in Record
BY LedgerAssumption DEF Draft, Merged, Record

LEMMA LegType ==
  ASSUME NEW amt \in Nat, NEW origin \in Accounts \cup {None},
         NEW dest \in Accounts \cup {None}, NEW liability \in Liabilities \cup {None},
         NEW objective \in Objectives \cup {None}, NEW g \in Ids \cup {None}
  PROVE  Leg(amt, origin, dest, liability, objective, g) \in Record
BY DEF Leg, Record, Patrimony, TxTypes

LEMMA LegsAreRows ==
  ASSUME NEW i \in Ids
  PROVE  Legs(i) \subseteq Ids
BY DEF Legs, Live

LEMMA LegsLive ==
  ASSUME NEW i \in Ids, rec[i] # None, NEW f \in Ids, NEW s \in Ids, InOrder(i, f, s)
  PROVE  rec[f] # None /\ rec[s] # None
<1>1. Legs(i) = {f, s} /\ Legs(i) \subseteq Live
  BY DEF InOrder, Legs, Live
<1>2. QED
  BY <1>1 DEF Live

LEMMA SecondType ==
  ASSUME TypeOK, NEW i \in Ids, rec[i] # None, NEW f \in Ids, NEW s \in Ids,
         InOrder(i, f, s)
  PROVE  /\ rec[f] \in Record /\ rec[s] \in Record
         /\ Second(f, s) \in Record
<1>1. rec[f] \in Record /\ rec[s] \in Record
  BY LegsLive DEF TypeOK
<1>2. NoLeg \in Record
  BY LegType DEF NoLeg
<1>3. QED
  BY <1>1, <1>2 DEF Second

LEMMA AmountsType ==
  ASSUME TypeOK
  PROVE  /\ \A i \in Ids : AmountsOf(rec)[i] \in Nat
         /\ \A p \in PayIds : AmountsOf(pay)[p] \in Nat
BY DEF TypeOK, AmountsOf, Record, Payment

LEMMA LinkSumType ==
  ASSUME TypeOK, NEW S \in SUBSET Ids
  PROVE  LinkSum(S) \in Deltas
<1>1. \A T \in SUBSET Ids : Sum(T, AmountsOf(rec)) \in Nat
  <2> TAKE T \in SUBSET Ids
  <2>1. IsFiniteSet(T)
    BY LedgerAssumption, FS_Subset
  <2>2. QED
    BY <2>1, AmountsType, SumType
<1>2. \A e \in Entities :
        /\ Sum({i \in S : LinkSign(rec[i], e) = 1}, AmountsOf(rec)) \in Nat
        /\ Sum({i \in S : LinkSign(rec[i], e) = -1}, AmountsOf(rec)) \in Nat
  BY <1>1
<1>3. QED
  BY <1>2 DEF LinkSum, Deltas

-----------------------------------------------------------------------------
(***************************************************************************)
(* What each request does: its posting, and the types of the rows it       *)
(* leaves.                                                                 *)
(***************************************************************************)
RowTypes == /\ rec \in [Ids -> Record \cup {None}]
            /\ pay \in [PayIds -> Payment \cup {None}]

LEMMA TypeParts ==
  TypeOK <=> RowTypes /\ BalanceTypes /\ closed \subseteq Entities
BY DEF TypeOK, RowTypes, BalanceTypes, Deltas

\* A request that posts deltas leaves the goals' targets and the set of
\* soft-deleted rows alone.
Posts(v) == Booked(v) /\ UNCHANGED <<target, closed>>

LEMMA CreatePosts ==
  ASSUME TypeOK, NEW i \in Ids, NEW d \in Draft, Create(i, d)
  PROVE  Posts(LinkDelta(d)) /\ RowTypes'
<1>1. LinkDelta(d) \in Deltas
  BY DraftType, LinkDeltaType
<1>2. Booked(LinkDelta(d))
  BY <1>1, PostNetBooks, TypeParts DEF Create
<1>3. RowTypes'
  BY DraftType DEF Create, TypeOK, RowTypes
<1>4. QED
  BY <1>2, <1>3 DEF Create, Posts

LEMMA CreateManyPosts ==
  ASSUME TypeOK, NEW i \in Ids, NEW j \in Ids, NEW d \in Draft, NEW e \in Draft,
         CreateMany(i, j, d, e)
  PROVE  Posts(Plus(LinkDelta(d), LinkDelta(e))) /\ RowTypes'
<1>1. Plus(LinkDelta(d), LinkDelta(e)) \in Deltas
  BY DraftType, LinkDeltaType, PlusType
<1>2. Booked(Plus(LinkDelta(d), LinkDelta(e)))
  BY <1>1, PostNetBooks, TypeParts DEF CreateMany
<1>3. RowTypes'
  BY DraftType DEF CreateMany, TypeOK, RowTypes
<1>4. QED
  BY <1>2, <1>3 DEF CreateMany, Posts

LEMMA UpdatePosts ==
  ASSUME TypeOK, NEW i \in Ids, NEW d \in Draft, Update(i, d)
  PROVE  /\ Posts(Plus(Minus(LinkDelta(rec[i])), LinkDelta(d)))
         /\ RowTypes'
<1> DEFINE v == Plus(Minus(LinkDelta(rec[i])), LinkDelta(d))
<1>1. rec[i] \in Record
  BY DEF Update, TypeOK
<1>2. rec[i].amount \in Nat
  BY <1>1 DEF Record
<1>3. v \in Deltas
  BY <1>2, DraftType, LinkDeltaType, MinusType, PlusType
<1>4. PostNet(v)
  BY DEF Update
<1>5. Booked(v)
  BY <1>3, <1>4, PostNetBooks, TypeParts
<1>6. RowTypes'
  BY <1>1, MergedType DEF Update, TypeOK, RowTypes
<1>7. QED
  BY <1>5, <1>6 DEF Update, Posts

LEMMA ClonePosts ==
  ASSUME TypeOK, NEW i \in Ids, NEW j \in Ids, NEW amt \in Amounts \cup {Keep},
         Clone(i, j, amt)
  PROVE  /\ Posts(LinkDelta(rec'[j]))
         /\ RowTypes'
         /\ rec' = [rec EXCEPT ![j] = [rec[i] EXCEPT
                      !.amount = IF amt = Keep THEN @ ELSE amt]]
<1> DEFINE copy == [rec[i] EXCEPT !.amount = IF amt = Keep THEN @ ELSE amt]
<1>1. rec[i] \in Record
  BY DEF Clone, TypeOK
<1>2. copy \in Record /\ copy.amount \in Nat
  BY <1>1, LedgerAssumption DEF Record
<1>3. rec' = [rec EXCEPT ![j] = copy] /\ PostNet(LinkDelta(copy))
  BY DEF Clone
<1>4. rec'[j] = copy
  BY <1>3 DEF TypeOK
<1> HIDE DEF copy
<1>5. Booked(LinkDelta(copy))
  BY <1>2, <1>3, LinkDeltaType, PostNetBooks, TypeParts
<1>6. RowTypes'
  BY <1>2, <1>3 DEF Clone, TypeOK, RowTypes
<1>7. UNCHANGED <<pay, target, closed>>
  BY DEF Clone
<1>8. QED
  BY <1>3, <1>4, <1>5, <1>6, <1>7 DEF Posts, copy

\* A leg, and the reversal of a leg, are applied within the balances they hit.
LEMMA LegPosting ==
  ASSUME NEW r \in Record
  PROVE  /\ Within(LegDelta(r), LegHit(r))
         /\ Within(Minus(LegDelta(r)), LegHit(r))
<1>1. r.amount \in Nat
  BY DEF Record
<1>2. Within(LegDelta(r), LegHit(r))
  BY <1>1, LegDeltaWithin
<1>3. QED
  BY <1>2, MinusWithin

LEMMA ClearedType ==
  ASSUME TypeOK, NEW S
  PROVE  Cleared(S) \in [Ids -> Record \cup {None}]
BY DEF Cleared, TypeOK

LEMMA SoftDeleteTransferPosts ==
  ASSUME TypeOK, NEW i \in Ids, NEW f \in Ids, NEW s \in Ids,
         SoftDeleteTransfer(i, f, s)
  PROVE  /\ Posts(Plus(Minus(LegDelta(rec[f])), Minus(LegDelta(Second(f, s)))))
         /\ RowTypes'
<1>1. rec[f] \in Record /\ Second(f, s) \in Record
  BY SecondType DEF SoftDeleteTransfer
<1>2. /\ Within(Minus(LegDelta(rec[f])), LegHit(rec[f]))
      /\ Within(Minus(LegDelta(Second(f, s))), LegHit(Second(f, s)))
  BY <1>1, LegPosting
<1>3. PostTwo(Minus(LegDelta(rec[f])), LegHit(rec[f]),
              Minus(LegDelta(Second(f, s))), LegHit(Second(f, s)))
  BY DEF SoftDeleteTransfer
<1>4. Booked(Plus(Minus(LegDelta(rec[f])), Minus(LegDelta(Second(f, s)))))
  BY <1>2, <1>3, PostTwoBooks, TypeParts
<1>5. RowTypes'
  BY ClearedType DEF SoftDeleteTransfer, TypeOK, RowTypes
<1>6. QED
  BY <1>4, <1>5 DEF SoftDeleteTransfer, Posts

LEMMA SoftDeletePlainPosts ==
  ASSUME TypeOK, NEW i \in Ids, SoftDelete(i), ~Grouped(i)
  PROVE  /\ rec' = Cleared({i}) /\ rec[i] # None /\ pay' = pay
         /\ Posts(Minus(LinkDelta(rec[i])))
         /\ RowTypes'
<1>1. /\ rec[i] # None /\ rec' = Cleared({i})
      /\ PostNet(Minus(LinkDelta(rec[i])))
      /\ UNCHANGED <<pay, target, closed>>
  BY DEF SoftDelete
<1>2. rec[i].amount \in Nat
  BY <1>1 DEF TypeOK, Record
<1>3. Minus(LinkDelta(rec[i])) \in Deltas
  BY <1>2, LinkDeltaType, MinusType
<1>4. Booked(Minus(LinkDelta(rec[i])))
  BY <1>1, <1>3, PostNetBooks, TypeParts
<1>5. RowTypes'
  BY <1>1, ClearedType DEF TypeOK, RowTypes
<1>6. QED
  BY <1>1, <1>4, <1>5 DEF Posts

LEMMA SoftDeleteManyPosts ==
  ASSUME TypeOK, NEW S \in SUBSET Ids, SoftDeleteMany(S)
  PROVE  Posts(Minus(LinkSum(Victims(S)))) /\ RowTypes'
<1>1. Victims(S) \in SUBSET Ids
  BY DEF Victims, Live
<1>2. Minus(LinkSum(Victims(S))) \in Deltas
  BY <1>1, LinkSumType, MinusType
<1>3. PostNet(Minus(LinkSum(Victims(S))))
  BY DEF SoftDeleteMany
<1>4. Booked(Minus(LinkSum(Victims(S))))
  BY <1>2, <1>3, PostNetBooks, TypeParts
<1>5. RowTypes'
  BY ClearedType DEF SoftDeleteMany, TypeOK, RowTypes
<1>6. QED
  BY <1>4, <1>5 DEF SoftDeleteMany, Posts

OriginLeg(amt, src, g) == Leg(amt, src, None, None, None, g)
CreditLeg(amt, dst, obj, g) ==
  IF dst \in Accounts THEN Leg(amt, None, dst, None, obj, g)
                      ELSE Leg(amt, None, None, dst, obj, g)

LEMMA CreateTransferPosts ==
  ASSUME TypeOK, NEW i \in Ids, NEW j \in Ids, NEW src \in Accounts,
         NEW dst \in Accounts \cup Liabilities, NEW amt \in PositiveAmounts,
         NEW obj \in Objectives \cup {None}, CreateTransfer(i, j, src, dst, amt, obj)
  PROVE  /\ Posts(Plus(LegDelta(OriginLeg(amt, src, i)),
                       LegDelta(CreditLeg(amt, dst, obj, i))))
         /\ rec' = [rec EXCEPT ![i] = OriginLeg(amt, src, i),
                               ![j] = CreditLeg(amt, dst, obj, i)]
         /\ OriginLeg(amt, src, i) \in Record
         /\ CreditLeg(amt, dst, obj, i) \in Record
         /\ RowTypes'
<1> DEFINE o == OriginLeg(amt, src, i)
           d == CreditLeg(amt, dst, obj, i)
<1>1. amt \in Nat
  BY LedgerAssumption DEF PositiveAmounts
<1>2. o \in Record /\ d \in Record
  BY <1>1, LegType DEF OriginLeg, CreditLeg
<1>3. /\ rec' = [rec EXCEPT ![i] = o, ![j] = d]
      /\ PostTwo(LegDelta(o), LegHit(o), LegDelta(d), LegHit(d))
      /\ UNCHANGED <<pay, target, closed>>
  BY DEF CreateTransfer, OriginLeg, CreditLeg
<1> HIDE DEF o, d
<1>4. Within(LegDelta(o), LegHit(o)) /\ Within(LegDelta(d), LegHit(d))
  BY <1>2, LegPosting
<1>5. Booked(Plus(LegDelta(o), LegDelta(d)))
  BY <1>3, <1>4, PostTwoBooks, TypeParts
<1>6. RowTypes'
  BY <1>2, <1>3 DEF TypeOK, RowTypes
<1>7. QED
  BY <1>2, <1>3, <1>5, <1>6 DEF Posts, o, d

LEMMA AmendedType ==
  ASSUME NEW r \in Record, NEW amt \in PositiveAmounts \cup {Keep},
         NEW obj \in Objectives \cup {None, Keep}
  PROVE  Amended(r, amt, obj) \in Record
BY ZenonT(60), LedgerAssumption DEF Amended, Record, PositiveAmounts

NewSecond(f, s, amt, obj) == IF f = s THEN NoLeg ELSE Amended(rec[s], amt, obj)

LEMMA UpdateTransferPosts ==
  ASSUME TypeOK, NEW i \in Ids, NEW f \in Ids, NEW s \in Ids,
         NEW amt \in PositiveAmounts \cup {Keep},
         NEW obj \in Objectives \cup {None, Keep}, UpdateTransfer(i, f, s, amt, obj)
  PROVE  /\ Posts(Plus(Plus(Minus(LegDelta(rec[f])), Minus(LegDelta(Second(f, s)))),
                       Plus(LegDelta(Amended(rec[f], amt, obj)),
                            LegDelta(NewSecond(f, s, amt, obj)))))
         /\ rec' = [k \in Ids |->
                      CASE k = f -> Amended(rec[f], amt, obj)
                        [] k = s /\ k # f -> NewSecond(f, s, amt, obj)
                        [] OTHER -> rec[k]]
         /\ RowTypes'
<1> DEFINE f0 == rec[f]
           s0 == Second(f, s)
           f1 == Amended(rec[f], amt, obj)
           s1 == NewSecond(f, s, amt, obj)
<1>1. rec[f] \in Record /\ rec[s] \in Record /\ s0 \in Record
  BY SecondType DEF UpdateTransfer
<1>2. NoLeg \in Record
  BY LegType DEF NoLeg
<1>3. f1 \in Record /\ s1 \in Record
  BY <1>1, <1>2, AmendedType DEF NewSecond
<1>4. /\ rec' = [k \in Ids |-> CASE k = f -> f1
                                 [] k = s /\ k # f -> s1
                                 [] OTHER -> rec[k]]
      /\ PostFour(Minus(LegDelta(f0)), LegHit(f0), Minus(LegDelta(s0)), LegHit(s0),
                  LegDelta(f1), LegHit(f1), LegDelta(s1), LegHit(s1))
      /\ UNCHANGED <<pay, target, closed>>
  BY DEF UpdateTransfer, NewSecond
<1> HIDE DEF f1, s1, s0
<1>5. /\ Within(Minus(LegDelta(f0)), LegHit(f0)) /\ Within(Minus(LegDelta(s0)), LegHit(s0))
      /\ Within(LegDelta(f1), LegHit(f1)) /\ Within(LegDelta(s1), LegHit(s1))
  BY <1>1, <1>3, LegPosting
<1>6. Booked(Plus(Plus(Minus(LegDelta(f0)), Minus(LegDelta(s0))),
                  Plus(LegDelta(f1), LegDelta(s1))))
  BY <1>4, <1>5, PostFourBooks, TypeParts
<1>7. RowTypes'
  BY <1>3, <1>4 DEF TypeOK, RowTypes
<1>8. QED
  BY <1>4, <1>6, <1>7 DEF Posts, f1, s1, s0

LEMMA CopiedType ==
  ASSUME NEW r \in Record, NEW amt \in Nat, NEW g \in Ids
  PROVE  CopiedLeg(r, amt, g) \in Record
<1>1. /\ r.origin \in Accounts \cup {None} /\ r.dest \in Accounts \cup {None}
      /\ r.objective \in Objectives \cup {None}
  BY DEF Record
<1>2. QED
  BY <1>1, LegType DEF CopiedLeg

Paying(f, amt) == IF amt = Keep THEN rec[f].amount ELSE amt
CopiedSecond(f, s, amt, g) ==
  IF f = s THEN NoLeg ELSE CopiedLeg(rec[s], Paying(f, amt), g)

LEMMA CloneTransferPosts ==
  ASSUME TypeOK, NEW i \in Ids, NEW f \in Ids, NEW s \in Ids, NEW k \in Ids,
         NEW l \in Ids, NEW amt \in PositiveAmounts \cup {Keep},
         CloneTransfer(i, f, s, k, l, amt)
  PROVE  /\ Posts(Plus(LegDelta(CopiedLeg(rec[f], Paying(f, amt), k)),
                       LegDelta(CopiedSecond(f, s, amt, k))))
         /\ rec' = [n \in Ids |->
                      CASE n = k -> CopiedLeg(rec[f], Paying(f, amt), k)
                        [] n = l /\ n # k -> CopiedSecond(f, s, amt, k)
                        [] OTHER -> rec[n]]
         /\ CopiedLeg(rec[f], Paying(f, amt), k) \in Record
         /\ CopiedSecond(f, s, amt, k) \in Record
         /\ RowTypes'
<1> DEFINE f1 == CopiedLeg(rec[f], Paying(f, amt), k)
           s1 == CopiedSecond(f, s, amt, k)
<1>1. rec[f] \in Record /\ rec[s] \in Record
  BY SecondType DEF CloneTransfer
<1>2. Paying(f, amt) \in Nat
  BY <1>1, LedgerAssumption DEF Paying, PositiveAmounts, Record
<1>3. NoLeg \in Record
  BY LegType DEF NoLeg
<1>4. f1 \in Record /\ s1 \in Record
  BY <1>1, <1>2, <1>3, CopiedType DEF CopiedSecond
<1>5. /\ rec' = [n \in Ids |-> CASE n = k -> f1
                                 [] n = l /\ n # k -> s1
                                 [] OTHER -> rec[n]]
      /\ PostTwo(LegDelta(f1), LegHit(f1), LegDelta(s1), LegHit(s1))
      /\ UNCHANGED <<pay, target, closed>>
  BY DEF CloneTransfer, CopiedSecond, Paying
<1> HIDE DEF f1, s1
<1>6. Within(LegDelta(f1), LegHit(f1)) /\ Within(LegDelta(s1), LegHit(s1))
  BY <1>4, LegPosting
<1>7. Booked(Plus(LegDelta(f1), LegDelta(s1)))
  BY <1>5, <1>6, PostTwoBooks, TypeParts
<1>8. RowTypes'
  BY <1>4, <1>5 DEF TypeOK, RowTypes
<1>9. QED
  BY <1>4, <1>5, <1>7, <1>8 DEF Posts, f1, s1

LEMMA GoalDelta ==
  ASSUME NEW o \in Objectives, NEW n \in Int
  PROVE  /\ OnlyGoal(o, n) \in Deltas
         /\ \A e \in Entities \ {o} : OnlyGoal(o, n)[e] = 0
         /\ OnlyGoal(o, n)[o] = n
BY ObjectivesAreEntities DEF OnlyGoal, Deltas

\* A payment, or its removal, posts on its goal alone.
LEMMA PaymentBooks ==
  ASSUME TypeOK, NEW o \in Objectives, NEW n \in Int,
         Settle(Shift(bal, OnlyGoal(o, n)), {o})
  PROVE  Booked(OnlyGoal(o, n))
<1> DEFINE v == OnlyGoal(o, n)
           b == Shift(bal, v)
<1>1. v \in Deltas /\ \A e \in Entities \ {o} : v[e] = 0
  BY GoalDelta
<1>2. b \in Deltas
  BY <1>1, ShiftType, TypeParts DEF BalanceTypes
<1>3. \A e \in Entities \ closed : b[e] = bal[e] + v[e]
  BY DEF Shift
<1>4. \A e \in Entities \cap closed : b[e] = bal[e]
  BY DEF Shift
<1>5. \A a \in (Accounts \cap {o}) \ closed : b[a] >= 0
  BY LedgerAssumption
<1> HIDE DEF b, v
<1>6. Settle(b, {o})
  BY DEF b, v
<1>7. Booked(v)
  BY <1>1, <1>2, <1>3, <1>4, <1>5, <1>6, SettleBooks, TypeParts
<1>8. QED
  BY <1>7 DEF v

LEMMA AddPaymentPosts ==
  ASSUME TypeOK, NEW p \in PayIds, NEW o \in Objectives, NEW amt \in Amounts,
         AddPayment(p, o, amt)
  PROVE  Posts(OnlyGoal(o, amt)) /\ RowTypes'
<1>1. amt \in Nat
  BY LedgerAssumption
<1>2. Booked(OnlyGoal(o, amt))
  BY <1>1, PaymentBooks DEF AddPayment
<1>3. RowTypes'
  BY <1>1 DEF AddPayment, TypeOK, RowTypes, Payment
<1>4. QED
  BY <1>2, <1>3 DEF AddPayment, Posts

LEMMA RemovePaymentPosts ==
  ASSUME TypeOK, NEW p \in PayIds, RemovePayment(p)
  PROVE  /\ Posts(OnlyGoal(pay[p].objective, -pay[p].amount))
         /\ RowTypes'
<1>1. pay[p].objective \in Objectives /\ pay[p].amount \in Nat
  BY DEF RemovePayment, TypeOK, Payment
<1>2. -pay[p].amount \in Int
  BY <1>1
<1>3. Settle(Shift(bal, OnlyGoal(pay[p].objective, -pay[p].amount)),
             {pay[p].objective})
  BY DEF RemovePayment
<1>4. Booked(OnlyGoal(pay[p].objective, -pay[p].amount))
  BY <1>1, <1>2, <1>3, PaymentBooks
<1>5. RowTypes'
  BY DEF RemovePayment, TypeOK, RowTypes
<1>6. QED
  BY <1>4, <1>5 DEF RemovePayment, Posts

LEMMA SetBalanceTypes ==
  ASSUME TypeOK, NEW e \in Patrimony, NEW v \in SetValues, SetBalance(e, v)
  PROVE  TypeOK'
BY LedgerAssumption DEF SetBalance, TypeOK

LEMMA UpdateObjectiveTypes ==
  ASSUME TypeOK, NEW o \in Objectives, NEW t \in Targets \cup {Keep},
         NEW b \in (SetValues \cap Nat) \cup {Keep}, NEW c \in BOOLEAN \cup {Keep},
         UpdateObjective(o, t, b, c)
  PROVE  TypeOK'
<1> DEFINE newTarget == IF t = Keep THEN target[o] ELSE t
           newBalance == IF b = Keep THEN bal[o] ELSE b
           flag == IF c = Keep THEN Reached(newTarget, newBalance) ELSE c
<1>1. newTarget \in Nat /\ newBalance \in Int
  BY LedgerAssumption, ObjectivesAreEntities DEF TypeOK
<1>2. flag \in BOOLEAN
  BY ReachedType, <1>1
<1> HIDE DEF newTarget, newBalance, flag
<1>3. /\ target' = [target EXCEPT ![o] = newTarget]
      /\ bal' = [bal EXCEPT ![o] = newBalance]
      /\ done' = [done EXCEPT ![o] = flag]
      /\ UNCHANGED <<rec, pay, closed>>
  BY DEF UpdateObjective, newTarget, newBalance, flag
<1>4. QED
  BY <1>1, <1>2, <1>3 DEF TypeOK

LEMMA AccrueInterestTypes ==
  ASSUME TypeOK, NEW i \in Ids, NEW a \in Accounts, NEW amt \in Amounts,
         AccrueInterest(i, a, amt)
  PROVE  TypeOK'
<1>1. PlainRow([type |-> "income", amount |-> amt, patrimony |-> a,
                objective |-> None]) \in Record
  BY LedgerAssumption DEF PlainRow, Record, TxTypes, Patrimony
<1>2. QED
  BY <1>1 DEF AccrueInterest, TypeOK

-----------------------------------------------------------------------------
(***************************************************************************)
(* One step of the ledger, seen from the balances.                         *)
(***************************************************************************)
\* A PATCH of a linked row, the only way to write a balance by hand.
HandWritten(e, v) == SetBalance(e, v)
GoalWritten(o) ==
  \E t \in Targets \cup {Keep}, b \in (SetValues \cap Nat) \cup {Keep},
     c \in BOOLEAN \cup {Keep} : UpdateObjective(o, t, b, c)

Untouched == UNCHANGED <<bal, done, target>> /\ closed \subseteq closed'

\* What the balances may see of a step.
Step ==
  \/ \E v \in Deltas : Posts(v)
  \/ \E e \in Patrimony, v \in SetValues : HandWritten(e, v)
  \/ \E o \in Objectives : GoalWritten(o)
  \/ Untouched

LEMMA PostsStep ==
  ASSUME TypeOK, NEW v, Posts(v), RowTypes'
  PROVE  TypeOK' /\ Step
<1>1. v \in Deltas
  BY DEF Posts, Booked
<1>2. TypeOK'
  BY DEF Posts, Booked, TypeOK, RowTypes, Deltas
<1>3. QED
  BY <1>1, <1>2 DEF Step

LEMMA RecordStep ==
  ASSUME TypeOK, RecordNext
  PROVE  TypeOK' /\ Step
<1>1. ASSUME NEW i \in Ids, NEW d \in Draft, Create(i, d)
      PROVE  TypeOK' /\ Step
  BY <1>1, CreatePosts, PostsStep
<1>2. ASSUME NEW i \in Ids, NEW j \in Ids, NEW d \in Draft, NEW e \in Draft,
             CreateMany(i, j, d, e)
      PROVE  TypeOK' /\ Step
  BY <1>2, CreateManyPosts, PostsStep
<1>3. ASSUME NEW i \in Ids, NEW j \in Ids, NEW amt \in Amounts \cup {Keep},
             Clone(i, j, amt)
      PROVE  TypeOK' /\ Step
  BY <1>3, ClonePosts, PostsStep
<1>4. ASSUME NEW i \in Ids, SoftDelete(i)
      PROVE  TypeOK' /\ Step
  <2>1. CASE ~Grouped(i)
    BY <1>4, <2>1, SoftDeletePlainPosts, PostsStep
  <2>2. CASE Grouped(i)
    <3>1. PICK f \in Ids, s \in Ids : SoftDeleteTransfer(i, f, s)
      BY <1>4, <2>2, LegsAreRows DEF SoftDelete
    <3>2. QED
      BY <3>1, SoftDeleteTransferPosts, PostsStep
  <2>3. QED
    BY <2>1, <2>2
<1>5. QED
  BY <1>1, <1>2, <1>3, <1>4 DEF RecordNext

LEMMA TransferStep ==
  ASSUME TypeOK, TransferNext
  PROVE  TypeOK' /\ Step
<1>1. ASSUME NEW i \in Ids, NEW j \in Ids, NEW src \in Accounts,
             NEW dst \in Accounts \cup Liabilities, NEW amt \in PositiveAmounts,
             NEW obj \in Objectives \cup {None}, CreateTransfer(i, j, src, dst, amt, obj)
      PROVE  TypeOK' /\ Step
  BY <1>1, CreateTransferPosts, PostsStep
<1>2. ASSUME NEW i \in Ids, NEW f \in Ids, NEW s \in Ids, NEW k \in Ids, NEW l \in Ids,
             NEW amt \in PositiveAmounts \cup {Keep}, CloneTransfer(i, f, s, k, l, amt)
      PROVE  TypeOK' /\ Step
  BY <1>2, CloneTransferPosts, PostsStep
<1>3. QED
  BY <1>1, <1>2, LegsAreRows DEF TransferNext

LEMMA EntityStep ==
  ASSUME TypeOK, EntityNext
  PROVE  TypeOK' /\ Step
<1>1. ASSUME NEW p \in PayIds, NEW o \in Objectives, NEW amt \in Amounts,
             AddPayment(p, o, amt)
      PROVE  TypeOK' /\ Step
  BY <1>1, AddPaymentPosts, PostsStep
<1>2. ASSUME NEW p \in PayIds, RemovePayment(p)
      PROVE  TypeOK' /\ Step
  BY <1>2, RemovePaymentPosts, PostsStep
<1>3. ASSUME NEW e \in Patrimony, NEW v \in SetValues, SetBalance(e, v)
      PROVE  TypeOK' /\ Step
  BY <1>3, SetBalanceTypes DEF Step, HandWritten
<1>4. ASSUME NEW o \in Objectives, NEW t \in Targets \cup {Keep},
             NEW b \in (SetValues \cap Nat) \cup {Keep}, NEW c \in BOOLEAN \cup {Keep},
             UpdateObjective(o, t, b, c)
      PROVE  TypeOK' /\ Step
  BY <1>4, UpdateObjectiveTypes DEF Step, GoalWritten
<1>5. ASSUME NEW e \in Entities, CloseEntity(e)
      PROVE  TypeOK' /\ Step
  BY <1>5 DEF CloseEntity, TypeOK, Step, Untouched
<1>6. QED
  BY <1>1, <1>2, <1>3, <1>4, <1>5 DEF EntityNext

LEMMA AnyEndpointStep ==
  ASSUME TypeOK, AnyEndpoint
  PROVE  TypeOK' /\ Step
<1>1. ASSUME NEW i \in Ids, NEW d \in Draft, Update(i, d)
      PROVE  TypeOK' /\ Step
  BY <1>1, UpdatePosts, PostsStep
<1>2. ASSUME NEW S \in SUBSET Ids, SoftDeleteMany(S)
      PROVE  TypeOK' /\ Step
  BY <1>2, SoftDeleteManyPosts, PostsStep
<1>3. ASSUME NEW i \in Ids, NEW f \in Ids, NEW s \in Ids,
             NEW amt \in PositiveAmounts \cup {Keep},
             NEW obj \in Objectives \cup {None, Keep}, UpdateTransfer(i, f, s, amt, obj)
      PROVE  TypeOK' /\ Step
  BY <1>3, UpdateTransferPosts, PostsStep
<1>4. ASSUME NEW i \in Ids, NEW f \in Ids, NEW s \in Ids, SoftDeleteTransfer(i, f, s)
      PROVE  TypeOK' /\ Step
  BY <1>4, SoftDeleteTransferPosts, PostsStep
<1>5. ASSUME NEW i \in Ids, NEW a \in Accounts, NEW amt \in Amounts,
             AccrueInterest(i, a, amt)
      PROVE  TypeOK' /\ Step
  BY <1>5, AccrueInterestTypes DEF AccrueInterest, Step, Untouched
<1>6. QED
  BY <1>1, <1>2, <1>3, <1>4, <1>5, LegsAreRows DEF AnyEndpoint

LEMMA StepCases ==
  ASSUME TypeOK, [Next]_vars
  PROVE  TypeOK' /\ Step
<1>1. CASE Next
  BY <1>1, RecordStep, TransferStep, EntityStep, AnyEndpointStep DEF Next
<1>2. CASE UNCHANGED vars
  BY <1>2 DEF vars, TypeOK, Step, Untouched
<1>3. QED
  BY <1>1, <1>2

LEMMA InitTypes == Init => TypeOK
<1> SUFFICES ASSUME Init PROVE TypeOK
  OBVIOUS
<1>2. bal \in [Entities -> Int] /\ target \in [Objectives -> Nat]
  BY LedgerAssumption DEF Init
<1>3. done \in [Objectives -> BOOLEAN]
  BY <1>2, ReachedType, ObjectivesAreEntities DEF Init
<1>4. QED
  BY <1>2, <1>3 DEF Init, TypeOK

\* Every reachable state is well typed (rows, payments, balances, goals).
THEOREM TypeCorrect == Spec => []TypeOK
<1>1. TypeOK /\ [Next]_vars => TypeOK'
  BY StepCases
<1>2. QED
  BY InitTypes, <1>1, PTL DEF Spec

\* No step of the ledger takes an account it moves below zero, except a PATCH
\* of that account (NEGATIVE_BALANCE_NOT_ALLOWED).
THEOREM PostingsSolvent == Spec => PostingsKeepSolvent
<1> DEFINE Solvent == \A a \in Accounts :
                        bal'[a] # bal[a] =>
                          bal'[a] >= 0 \/ \E v \in SetValues : SetBalance(a, v)
<1>1. TypeOK /\ [Next]_vars => Solvent
  <2>1. SUFFICES ASSUME TypeOK, [Next]_vars, NEW a \in Accounts, bal'[a] # bal[a]
                 PROVE  bal'[a] >= 0 \/ \E v \in SetValues : SetBalance(a, v)
    OBVIOUS
  <2>2. Step
    BY <2>1, StepCases
  <2>3. ASSUME NEW v \in Deltas, Posts(v)
        PROVE  bal'[a] >= 0
    BY <2>1, <2>3 DEF Posts, Booked
  <2>4. ASSUME NEW e \in Patrimony, NEW v \in SetValues, HandWritten(e, v)
        PROVE  SetBalance(a, v)
    <3>1. bal' = [bal EXCEPT ![e] = v] /\ bal \in [Entities -> Int] /\ a \in Entities
      BY <2>1, <2>4, ObjectivesAreEntities DEF HandWritten, SetBalance, TypeOK
    <3>2. e = a
      BY <2>1, <3>1
    <3>3. QED
      BY <2>4, <3>2 DEF HandWritten
  <2>5. ASSUME NEW o \in Objectives, GoalWritten(o)
        PROVE  FALSE
    BY <2>1, <2>5, LedgerAssumption DEF GoalWritten, UpdateObjective, TypeOK
  <2>6. ~Untouched
    BY <2>1 DEF Untouched
  <2>7. QED
    BY <2>2, <2>3, <2>4, <2>5, <2>6 DEF Step
<1> HIDE DEF Solvent
<1>2. Spec => [][Solvent]_vars
  BY <1>1, TypeCorrect, PTL DEF Spec
<1>3. QED
  BY <1>2 DEF PostingsKeepSolvent, Solvent

\* A soft-deleted row stays deleted and keeps its balance and completion,
\* whatever happens to the movements linked to it.
THEOREM ClosedStaysFrozen == Spec => ClosedFrozen
<1> DEFINE Frozen == \A e \in closed : /\ e \in closed'
                                       /\ bal'[e] = bal[e]
                                       /\ e \in Objectives => done'[e] = done[e]
<1>1. TypeOK /\ [Next]_vars => Frozen
  <2>1. SUFFICES ASSUME TypeOK, [Next]_vars, NEW e \in closed
                 PROVE  /\ e \in closed'
                        /\ bal'[e] = bal[e]
                        /\ e \in Objectives => done'[e] = done[e]
    OBVIOUS
  <2>2. Step /\ e \in Entities
    BY <2>1, StepCases DEF TypeOK
  <2>3. ASSUME NEW v \in Deltas, Posts(v)
        PROVE  e \in closed' /\ bal'[e] = bal[e] /\ (e \in Objectives => done'[e] = done[e])
    BY <2>1, <2>2, <2>3 DEF Posts, Booked
  <2>4. ASSUME NEW x \in Patrimony, NEW v \in SetValues, HandWritten(x, v)
        PROVE  e \in closed' /\ bal'[e] = bal[e] /\ done' = done
    BY <2>1, <2>2, <2>4 DEF HandWritten, SetBalance, TypeOK
  <2>5. ASSUME NEW o \in Objectives, GoalWritten(o)
        PROVE  e \in closed' /\ bal'[e] = bal[e] /\ (e \in Objectives => done'[e] = done[e])
    BY <2>1, <2>2, <2>5 DEF GoalWritten, UpdateObjective, TypeOK
  <2>6. Untouched => e \in closed' /\ bal' = bal /\ done' = done
    BY <2>1 DEF Untouched
  <2>7. QED
    BY <2>2, <2>3, <2>4, <2>5, <2>6 DEF Step
<1> HIDE DEF Frozen
<1>2. Spec => [][Frozen]_vars
  BY <1>1, TypeCorrect, PTL DEF Spec
<1>3. QED
  BY <1>2 DEF ClosedFrozen, Frozen

\* applyCompletion decides: a goal whose balance or target changed is completed
\* exactly if it reached its target, unless the request itself said otherwise.
THEOREM CompletionEvaluated == Spec => CompletionFollowsBalance
<1> DEFINE Evaluated(o) ==
             \/ bal'[o] = bal[o] /\ target'[o] = target[o]
             \/ done'[o] = Reached(target'[o], bal'[o])
             \/ \E t \in Targets \cup {Keep}, b \in (SetValues \cap Nat) \cup {Keep} :
                  UpdateObjective(o, t, b, done'[o])
           AllEvaluated == \A o \in Objectives : Evaluated(o)
<1>1. TypeOK /\ [Next]_vars => AllEvaluated
  <2>1. SUFFICES ASSUME TypeOK, [Next]_vars, NEW o \in Objectives
                 PROVE  Evaluated(o)
    OBVIOUS
  <2>2. Step /\ o \in Entities
    BY <2>1, StepCases, ObjectivesAreEntities
  <2>3. ASSUME NEW v \in Deltas, Posts(v)
        PROVE  Evaluated(o)
    BY <2>1, <2>3 DEF Posts, Booked
  <2>4. ASSUME NEW x \in Patrimony, NEW v \in SetValues, HandWritten(x, v)
        PROVE  bal'[o] = bal[o] /\ target' = target
    <3>1. x # o
      BY <2>1, <2>4, LedgerAssumption DEF Patrimony
    <3>2. QED
      BY <2>1, <2>4, <3>1 DEF HandWritten, SetBalance, TypeOK
  <2>5. ASSUME NEW x \in Objectives, GoalWritten(x)
        PROVE  Evaluated(o)
    <3>1. PICK t \in Targets \cup {Keep}, b \in (SetValues \cap Nat) \cup {Keep},
               c \in BOOLEAN \cup {Keep} : UpdateObjective(x, t, b, c)
      BY <2>5 DEF GoalWritten
    <3>2. CASE x # o
      BY <2>1, <2>2, <3>1, <3>2 DEF UpdateObjective, TypeOK
    <3>3. CASE x = o /\ c = Keep
      BY <2>1, <2>2, <3>1, <3>3 DEF UpdateObjective, TypeOK
    <3>4. CASE x = o /\ c # Keep
      <4>1. done'[o] = c
        BY <2>1, <3>1, <3>4 DEF UpdateObjective, TypeOK
      <4>2. UpdateObjective(o, t, b, done'[o])
        BY <3>1, <3>4, <4>1
      <4>3. QED
        BY <4>2
    <3>5. QED
      BY <3>2, <3>3, <3>4
  <2>6. Untouched => bal'[o] = bal[o] /\ target'[o] = target[o]
    BY DEF Untouched
  <2>7. QED
    BY <2>2, <2>3, <2>4, <2>5, <2>6 DEF Step
<1>2. Spec => [][AllEvaluated]_vars
  <2> HIDE DEF AllEvaluated
  <2>1. QED
    BY <1>1, TypeCorrect, PTL DEF Spec
<1>3. QED
  BY <1>2 DEF CompletionFollowsBalance

-----------------------------------------------------------------------------
(***************************************************************************)
(* Pairs.  PairsWhole is not inductive: it does not say that a group is    *)
(* named after its first leg, nor that a plain row has no origin, which is *)
(* what a new group and a clone rest on.  PairsInv adds both.              *)
(***************************************************************************)
InGroup(i, g) == rec[i] # None /\ rec[i].group = g

\* A group of one row that neither debits nor credits an account.
Alone(g) == /\ \A j \in Ids : InGroup(j, g) => j = g
            /\ rec[g].origin = None /\ rec[g].dest = None

\* A group of the leg that debits, which names it, and of one other.
Pair(g, s) == /\ s # g /\ InGroup(s, g)
              /\ \A j \in Ids : InGroup(j, g) => j \in {g, s}
              /\ rec[g].origin # None /\ rec[g].dest = None
              /\ rec[s].origin = None

PairsInv ==
  /\ \A i \in Ids : Grouped(i) => rec[i].group \in Ids
                                  /\ InGroup(rec[i].group, rec[i].group)
  /\ \A g \in Ids : InGroup(g, g) => Alone(g) \/ \E s \in Ids : Pair(g, s)
  /\ \A i \in Ids : rec[i] # None /\ rec[i].group = None =>
                      rec[i].origin = None /\ rec[i].dest = None

\* PairsInv is enough: the pair of a leg is its group.
LEMMA PairsInvEnough ==
  ASSUME PairsInv
  PROVE  PairsWhole
<1> SUFFICES ASSUME NEW i \in Ids, Grouped(i)
             PROVE  /\ rec[i].origin # None =>
                         \E j \in Ids : Legs(i) = {i, j} /\ rec[j].origin = None
                    /\ rec[i].dest # None =>
                         \E j \in Ids : /\ Legs(i) = {i, j}
                                        /\ rec[j].origin # None /\ rec[j].dest = None
  BY DEF PairsWhole
<1> DEFINE g == rec[i].group
<1>1. /\ g \in Ids /\ InGroup(g, g) /\ InGroup(i, g)
  BY DEF PairsInv, Grouped, InGroup
<1>2. Legs(i) = {j \in Ids : InGroup(j, g)}
  BY DEF Legs, Live, InGroup
<1> HIDE DEF g
<1>3. CASE Alone(g)
  BY <1>1, <1>3 DEF Alone
<1>4. CASE \E s \in Ids : Pair(g, s)
  <2>1. PICK s \in Ids : Pair(g, s)
    BY <1>4
  <2>2. Legs(i) = {g, s} /\ (i = g \/ i = s)
    BY <1>1, <1>2, <2>1 DEF Pair
  <2>3. CASE i = g
    BY <2>1, <2>2, <2>3 DEF Pair
  <2>4. CASE i = s
    BY <1>1, <2>1, <2>2, <2>4 DEF Pair
  <2>5. QED
    BY <2>2, <2>3, <2>4
<1>5. QED
  BY <1>1, <1>3, <1>4 DEF PairsInv

\* A step that forms no group, takes no leg out of a group it keeps, and moves
\* no leg's accounts.
Trims ==
  /\ \A i \in Ids : Grouped(i)' =>
       /\ Grouped(i)
       /\ rec'[i].group = rec[i].group
       /\ rec'[i].origin = rec[i].origin
       /\ rec'[i].dest = rec[i].dest
  /\ \A i \in Ids : rec'[i] # None /\ rec'[i].group = None =>
       rec'[i].origin = None /\ rec'[i].dest = None
  /\ \A i, j \in Ids :
       Grouped(i) /\ Grouped(j) /\ rec[i].group = rec[j].group /\ Grouped(i)' =>
         Grouped(j)'

LEMMA TrimsKeepPairs ==
  ASSUME PairsInv, None \notin Ids, Trims
  PROVE  PairsInv'
<1>1. ASSUME NEW i \in Ids, Grouped(i)'
      PROVE  rec'[i].group \in Ids /\ InGroup(rec[i].group, rec[i].group)'
  <2>1. /\ Grouped(i) /\ rec'[i].group = rec[i].group
        /\ rec[i].group \in Ids /\ InGroup(rec[i].group, rec[i].group)
    BY <1>1 DEF Trims, PairsInv
  <2>2. Grouped(rec[i].group)
    BY <2>1 DEF InGroup, Grouped
  <2>3. Grouped(rec[i].group)'
    BY <1>1, <2>1, <2>2 DEF Trims, InGroup
  <2>4. QED
    BY <2>1, <2>3 DEF Trims, InGroup, Grouped
<1>2. ASSUME NEW g \in Ids, InGroup(g, g)'
      PROVE  Alone(g)' \/ \E s \in Ids : Pair(g, s)'
  <2>1. Grouped(g)' /\ Grouped(g) /\ InGroup(g, g)
    BY <1>2 DEF Trims, InGroup, Grouped
  <2>2. \A j \in Ids : InGroup(j, g)' <=> InGroup(j, g)
    BY <2>1 DEF Trims, InGroup, Grouped
  <2>3. \A j \in Ids : InGroup(j, g) =>
          rec'[j].origin = rec[j].origin /\ rec'[j].dest = rec[j].dest
    BY <2>1, <2>2 DEF Trims, InGroup, Grouped
  <2>4. CASE Alone(g)
    BY <2>1, <2>2, <2>3, <2>4 DEF Alone
  <2>5. CASE \E s \in Ids : Pair(g, s)
    <3>1. PICK s \in Ids : Pair(g, s)
      BY <2>5
    <3>2. Pair(g, s)'
      BY <2>1, <2>2, <2>3, <3>1 DEF Pair
    <3>3. QED
      BY <3>2
  <2>6. QED
    BY <2>1, <2>4, <2>5 DEF PairsInv
<1>3. \A i \in Ids : rec'[i] # None /\ rec'[i].group = None =>
                       rec'[i].origin = None /\ rec'[i].dest = None
  BY DEF Trims
<1>4. QED
  BY <1>1, <1>2, <1>3 DEF PairsInv, InGroup, Trims

\* Writing rows without group over rows that have none.
LEMMA PlainWriteTrims ==
  ASSUME TypeOK, PairsInv, NEW S \in SUBSET Ids, rec' \in [Ids -> Record \cup {None}],
         \A i \in Ids \ S : rec'[i] = rec[i],
         \A i \in S : ~Grouped(i) /\ rec'[i].group = None /\ rec'[i].origin = None
                      /\ rec'[i].dest = None
  PROVE  Trims
BY DEF Trims, Grouped, PairsInv

LEMMA CreateTrims ==
  ASSUME TypeOK, PairsInv, NEW i \in Ids, NEW d \in Draft, Create(i, d)
  PROVE  Trims
<1>1. rec' = [rec EXCEPT ![i] = PlainRow(d)] /\ rec[i] = None
  BY DEF Create, Unused
<1>2. rec' \in [Ids -> Record \cup {None}]
  BY CreatePosts DEF RowTypes
<1>3. rec'[i] = PlainRow(d) /\ \A k \in Ids \ {i} : rec'[k] = rec[k]
  BY <1>1 DEF TypeOK
<1>4. QED
  BY ZenonT(60), <1>1, <1>2, <1>3, PlainWriteTrims, {i} \in SUBSET Ids DEF PlainRow, Grouped

LEMMA CreateManyTrims ==
  ASSUME TypeOK, PairsInv, NEW i \in Ids, NEW j \in Ids, NEW d \in Draft, NEW e \in Draft,
         CreateMany(i, j, d, e)
  PROVE  Trims
<1>1. /\ rec' = [rec EXCEPT ![i] = PlainRow(d), ![j] = PlainRow(e)]
      /\ rec[i] = None /\ rec[j] = None /\ i # j
  BY DEF CreateMany, Unused
<1>2. rec' \in [Ids -> Record \cup {None}]
  BY CreateManyPosts DEF RowTypes
<1>3. /\ rec'[i] = PlainRow(d) /\ rec'[j] = PlainRow(e)
      /\ \A k \in Ids \ {i, j} : rec'[k] = rec[k]
  BY <1>1 DEF TypeOK
<1>4. QED
  BY ZenonT(60), <1>1, <1>2, <1>3, PlainWriteTrims, {i, j} \in SUBSET Ids DEF PlainRow, Grouped

LEMMA CloneTrims ==
  ASSUME TypeOK, PairsInv, NEW i \in Ids, NEW j \in Ids, NEW amt \in Amounts \cup {Keep},
         Clone(i, j, amt)
  PROVE  Trims
<1> DEFINE copy == [rec[i] EXCEPT !.amount = IF amt = Keep THEN @ ELSE amt]
<1>1. /\ rec' = [rec EXCEPT ![j] = copy]
      /\ rec[i] # None /\ ~Grouped(i) /\ rec[j] = None
  BY DEF Clone, Unused
<1>2. rec' \in [Ids -> Record \cup {None}]
  BY ClonePosts DEF RowTypes
<1>3. rec[i] \in Record /\ rec[i].group = None
  BY <1>1 DEF TypeOK, Grouped
<1>4. rec[i].origin = None /\ rec[i].dest = None
  BY <1>1, <1>3 DEF PairsInv
<1>5. copy.group = None /\ copy.origin = None /\ copy.dest = None
  BY <1>3, <1>4 DEF Record
<1> HIDE DEF copy
<1>6. rec'[j] = copy /\ \A k \in Ids \ {j} : rec'[k] = rec[k]
  BY <1>1 DEF TypeOK
<1>7. QED
  BY <1>1, <1>2, <1>5, <1>6, PlainWriteTrims, {j} \in SUBSET Ids DEF Grouped

LEMMA UpdateTrims ==
  ASSUME TypeOK, PairsInv, NEW i \in Ids, NEW d \in Draft, Update(i, d)
  PROVE  Trims
<1>1. rec' = [rec EXCEPT ![i] = Merged(rec[i], d)] /\ rec[i] \in Record /\ rec[i] # None
  BY DEF Update, TypeOK
<1>2. /\ Merged(rec[i], d).group = rec[i].group
      /\ Merged(rec[i], d).origin = rec[i].origin
      /\ Merged(rec[i], d).dest = rec[i].dest
  BY <1>1 DEF Merged, Record
<1>3. rec'[i] = Merged(rec[i], d) /\ \A k \in Ids \ {i} : rec'[k] = rec[k]
  BY <1>1 DEF TypeOK
<1>4. rec'[i] # None
  BY <1>1, <1>3, MergedType, RowAssumption
<1>5. QED
  BY <1>1, <1>2, <1>3, <1>4 DEF Trims, Grouped, PairsInv

LEMMA UpdateTransferTrims ==
  ASSUME TypeOK, PairsInv, NEW i \in Ids, NEW f \in Ids, NEW s \in Ids,
         NEW amt \in PositiveAmounts \cup {Keep},
         NEW obj \in Objectives \cup {None, Keep}, UpdateTransfer(i, f, s, amt, obj)
  PROVE  Trims
<1>1. /\ rec[f] \in Record /\ rec[s] \in Record /\ rec[f] # None /\ rec[s] # None
  BY SecondType, LegsLive DEF UpdateTransfer
<1>2. /\ rec'[f] = Amended(rec[f], amt, obj)
      /\ rec'[s] = Amended(rec[s], amt, obj)
      /\ \A k \in Ids \ {f, s} : rec'[k] = rec[k]
  BY DEF UpdateTransfer
<1>3. ASSUME NEW r \in Record
      PROVE  /\ Amended(r, amt, obj).group = r.group
             /\ Amended(r, amt, obj).origin = r.origin
             /\ Amended(r, amt, obj).dest = r.dest
             /\ Amended(r, amt, obj) # None
  <2>1. Amended(r, amt, obj) # None
    BY AmendedType, RowAssumption
  <2>2. QED
    BY <2>1 DEF Amended, Record
<1>4. \A k \in Ids : \/ rec'[k] = rec[k]
                     \/ /\ rec[k] # None /\ rec'[k] # None
                        /\ rec'[k].group = rec[k].group
                        /\ rec'[k].origin = rec[k].origin
                        /\ rec'[k].dest = rec[k].dest
  BY <1>1, <1>2, <1>3
<1>5. QED
  BY <1>4 DEF Trims, Grouped, PairsInv

\* Deleting a set of rows that splits no group.
LEMMA ClearTrims ==
  ASSUME TypeOK, PairsInv, NEW S \in SUBSET Ids, rec' = Cleared(S),
         \A i \in S, j \in Ids :
           Grouped(i) /\ Grouped(j) /\ rec[i].group = rec[j].group => j \in S
  PROVE  Trims
<1>1. \A k \in Ids : rec'[k] = IF k \in S THEN None ELSE rec[k]
  BY DEF Cleared
<1>2. QED
  BY <1>1 DEF Trims, Grouped, PairsInv

LEMMA SoftDeleteTransferTrims ==
  ASSUME TypeOK, PairsInv, NEW i \in Ids, NEW f \in Ids, NEW s \in Ids,
         SoftDeleteTransfer(i, f, s)
  PROVE  Trims
<1>1. rec' = Cleared({f, s}) /\ Legs(i) = {f, s} /\ rec[i] # None
  BY DEF SoftDeleteTransfer, InOrder
<1>2. ASSUME NEW a \in {f, s}, NEW b \in Ids, Grouped(a), Grouped(b),
             rec[a].group = rec[b].group
      PROVE  b \in {f, s}
  <2>1. CASE Grouped(i)
    BY <1>1, <1>2, <2>1 DEF Legs, Live, Grouped
  <2>2. CASE ~Grouped(i)
    BY <1>1, <1>2, <2>2 DEF Legs
  <2>3. QED
    BY <2>1, <2>2
<1>3. QED
  BY <1>1, <1>2, ClearTrims, {f, s} \in SUBSET Ids

LEMMA SoftDeleteTrims ==
  ASSUME TypeOK, PairsInv, NEW i \in Ids, SoftDelete(i)
  PROVE  Trims
<1>1. CASE ~Grouped(i)
  <2>1. rec' = Cleared({i})
    BY <1>1, SoftDeletePlainPosts
  <2>2. QED
    BY <1>1, <2>1, ClearTrims, {i} \in SUBSET Ids
<1>2. CASE Grouped(i)
  BY <1>2, SoftDeleteTransferTrims, LegsAreRows DEF SoftDelete
<1>3. QED
  BY <1>1, <1>2

LEMMA SoftDeleteManyTrims ==
  ASSUME TypeOK, PairsInv, NEW S \in SUBSET Ids, SoftDeleteMany(S)
  PROVE  Trims
<1> DEFINE groups == {rec[i].group : i \in S \cap Live} \ {None}
<1>1. rec' = Cleared(Victims(S))
  BY DEF SoftDeleteMany
<1>2. Victims(S) = IF groups = {} THEN S \cap Live
                                  ELSE {i \in Live : rec[i].group \in groups}
  BY DEF Victims
<1>3. Victims(S) \in SUBSET Ids
  BY <1>2 DEF Live
<1>4. ASSUME NEW i \in Victims(S), NEW j \in Ids, Grouped(i), Grouped(j),
             rec[i].group = rec[j].group
      PROVE  j \in Victims(S)
  <2>1. CASE groups = {}
    BY <1>2, <1>4, <2>1 DEF Grouped, Live
  <2>2. CASE groups # {}
    <3>1. i \in Live /\ rec[i].group \in groups /\ j \in Live
      BY <1>2, <1>4, <2>2 DEF Grouped, Live
    <3> HIDE DEF groups
    <3>2. QED
      BY <1>2, <1>4, <2>2, <3>1
  <2>3. QED
    BY <2>1, <2>2
<1>5. QED
  BY <1>1, <1>3, <1>4, ClearTrims

-----------------------------------------------------------------------------
\* A new group of the rows k and l, which were free.
LEMMA NewPair ==
  ASSUME TypeOK, PairsInv, NEW k \in Ids, NEW l \in Ids, k # l,
         rec[k] = None, rec[l] = None,
         \A n \in Ids \ {k, l} : rec'[n] = rec[n],
         rec'[k] # None, rec'[l] # None,
         rec'[k].group = k, rec'[l].group = k,
         rec'[k].origin # None, rec'[k].dest = None, rec'[l].origin = None
  PROVE  PairsInv'
<1>1. \A n \in Ids \ {k, l} : ~InGroup(n, k) /\ ~InGroup(n, l)
  BY LedgerAssumption DEF PairsInv, InGroup, Grouped
<1>2. Pair(k, l)'
  BY <1>1 DEF Pair, InGroup
<1>3. ASSUME NEW i \in Ids, Grouped(i)'
      PROVE  rec'[i].group \in Ids /\ InGroup(rec[i].group, rec[i].group)'
  <2>1. CASE i \in {k, l}
    BY <2>1, LedgerAssumption DEF InGroup
  <2>2. CASE i \notin {k, l}
    <3>1. Grouped(i) /\ rec'[i] = rec[i]
      BY <1>3, <2>2 DEF Grouped
    <3>2. rec[i].group \in Ids /\ InGroup(rec[i].group, rec[i].group)
      BY <3>1 DEF PairsInv
    <3>3. rec[i].group \notin {k, l}
      BY <3>2 DEF InGroup
    <3>4. QED
      BY <3>1, <3>2, <3>3 DEF InGroup
  <2>3. QED
    BY <2>1, <2>2
<1>4. ASSUME NEW g \in Ids, InGroup(g, g)', g # k
      PROVE  Alone(g)' \/ \E s \in Ids : Pair(g, s)'
  <2>1. g \notin {k, l} /\ InGroup(g, g)
    BY <1>4 DEF InGroup
  <2>2. \A j \in Ids : InGroup(j, g)' <=> InGroup(j, g)
    BY <2>1, <1>4 DEF InGroup
  <2>3. CASE Alone(g)
    BY <2>1, <2>2, <2>3 DEF Alone
  <2>4. CASE \E s \in Ids : Pair(g, s)
    <3>1. PICK s \in Ids : Pair(g, s)
      BY <2>4
    <3>2. s \notin {k, l}
      BY <3>1 DEF Pair, InGroup
    <3>3. Pair(g, s)'
      BY <2>1, <2>2, <3>1, <3>2 DEF Pair
    <3>4. QED
      BY <3>3
  <2>5. QED
    BY <2>1, <2>3, <2>4 DEF PairsInv
<1>5. \A i \in Ids : rec'[i] # None /\ rec'[i].group = None =>
                       rec'[i].origin = None /\ rec'[i].dest = None
  BY LedgerAssumption DEF PairsInv
<1>6. \A g \in Ids : InGroup(g, g)' => Alone(g)' \/ \E s \in Ids : Pair(g, s)'
  BY <1>2, <1>4
<1>7. QED
  BY <1>3, <1>5, <1>6 DEF PairsInv

\* A new group of the row k alone.
LEMMA NewAlone ==
  ASSUME TypeOK, PairsInv, NEW k \in Ids, rec[k] = None,
         \A n \in Ids \ {k} : rec'[n] = rec[n],
         rec'[k] # None, rec'[k].group = k,
         rec'[k].origin = None, rec'[k].dest = None
  PROVE  PairsInv'
<1>1. \A n \in Ids \ {k} : ~InGroup(n, k)
  BY LedgerAssumption DEF PairsInv, InGroup, Grouped
<1>2. Alone(k)'
  BY <1>1 DEF Alone, InGroup
<1>3. ASSUME NEW i \in Ids, Grouped(i)'
      PROVE  rec'[i].group \in Ids /\ InGroup(rec[i].group, rec[i].group)'
  <2>1. CASE i \in {k}
    BY <2>1, LedgerAssumption DEF InGroup
  <2>2. CASE i \notin {k}
    <3>1. Grouped(i) /\ rec'[i] = rec[i]
      BY <1>3, <2>2 DEF Grouped
    <3>2. rec[i].group \in Ids /\ InGroup(rec[i].group, rec[i].group)
      BY <3>1 DEF PairsInv
    <3>3. rec[i].group \notin {k}
      BY <3>2 DEF InGroup
    <3>4. QED
      BY <3>1, <3>2, <3>3 DEF InGroup
  <2>3. QED
    BY <2>1, <2>2
<1>4. ASSUME NEW g \in Ids, InGroup(g, g)', g # k
      PROVE  Alone(g)' \/ \E s \in Ids : Pair(g, s)'
  <2>1. InGroup(g, g)
    BY <1>4 DEF InGroup
  <2>2. \A j \in Ids : InGroup(j, g)' <=> InGroup(j, g)
    BY <2>1, <1>4 DEF InGroup
  <2>3. CASE Alone(g)
    BY <1>4, <2>1, <2>2, <2>3 DEF Alone
  <2>4. CASE \E s \in Ids : Pair(g, s)
    <3>1. PICK s \in Ids : Pair(g, s)
      BY <2>4
    <3>2. s # k
      BY <3>1 DEF Pair, InGroup
    <3>3. Pair(g, s)'
      BY <1>4, <2>1, <2>2, <3>1, <3>2 DEF Pair
    <3>4. QED
      BY <3>3
  <2>5. QED
    BY <2>1, <2>3, <2>4 DEF PairsInv
<1>5. \A i \in Ids : rec'[i] # None /\ rec'[i].group = None =>
                       rec'[i].origin = None /\ rec'[i].dest = None
  BY LedgerAssumption DEF PairsInv
<1>6. \A g \in Ids : InGroup(g, g)' => Alone(g)' \/ \E s \in Ids : Pair(g, s)'
  BY <1>2, <1>4
<1>7. QED
  BY <1>3, <1>5, <1>6 DEF PairsInv

LEMMA CreateTransferPairs ==
  ASSUME TypeOK, PairsInv, NEW i \in Ids, NEW j \in Ids, NEW src \in Accounts,
         NEW dst \in Accounts \cup Liabilities, NEW amt \in PositiveAmounts,
         NEW obj \in Objectives \cup {None}, CreateTransfer(i, j, src, dst, amt, obj)
  PROVE  PairsInv'
<1> DEFINE o == OriginLeg(amt, src, i)
           d == CreditLeg(amt, dst, obj, i)
<1>1. i # j /\ rec[i] = None /\ rec[j] = None
  BY DEF CreateTransfer, Unused
<1>2. rec' = [rec EXCEPT ![i] = o, ![j] = d] /\ o \in Record /\ d \in Record
  BY CreateTransferPosts
<1>3. /\ o.group = i /\ d.group = i
      /\ o.origin = src /\ o.dest = None /\ d.origin = None
  BY DEF OriginLeg, CreditLeg, Leg
<1>4. src # None /\ o # None /\ d # None
  BY <1>2, LedgerAssumption, RowAssumption DEF Entities, Patrimony
<1> HIDE DEF o, d
<1>5. /\ rec'[i] = o /\ rec'[j] = d
      /\ \A n \in Ids \ {i, j} : rec'[n] = rec[n]
  BY <1>1, <1>2 DEF TypeOK
<1>6. QED
  BY <1>1, <1>3, <1>4, <1>5, NewPair

\* The first leg of a group is the one that names it.
LEMMA FirstLegs ==
  ASSUME TypeOK, PairsInv, NEW i \in Ids, rec[i] # None, NEW f \in Ids, NEW s \in Ids,
         InOrder(i, f, s)
  PROVE  IF f = s THEN rec[f].origin = None /\ rec[f].dest = None
                  ELSE /\ rec[f].origin # None /\ rec[f].dest = None
                       /\ rec[s].origin = None
<1> DEFINE g == rec[i].group
<1>1. Legs(i) = {f, s} /\ (f # s => rec[f].origin # None)
  BY DEF InOrder
<1>2. CASE ~Grouped(i)
  <2>1. f = i /\ s = i
    BY <1>1, <1>2 DEF Legs
  <2>2. QED
    BY <1>2, <2>1 DEF PairsInv, Grouped
<1>3. CASE Grouped(i)
  <2>1. g \in Ids /\ InGroup(g, g)
    BY <1>3 DEF PairsInv
  <2>2. Legs(i) = {j \in Ids : InGroup(j, g)}
    BY <1>3 DEF Legs, Live, InGroup
  <2> HIDE DEF g
  <2>3. CASE Alone(g)
    <3>1. {f, s} = {g}
      BY <1>1, <2>1, <2>2, <2>3 DEF Alone
    <3>2. f = g /\ s = g
      BY <3>1
    <3>3. QED
      BY <2>3, <3>2 DEF Alone
  <2>4. CASE \E t \in Ids : Pair(g, t)
    <3>1. PICK t \in Ids : Pair(g, t)
      BY <2>4
    <3>2. {f, s} = {g, t}
      BY <1>1, <2>1, <2>2, <3>1 DEF Pair
    <3>3. f # s
      BY <3>1, <3>2 DEF Pair
    <3>4. f = g /\ s = t
      BY <1>1, <3>1, <3>2, <3>3 DEF Pair
    <3>5. QED
      BY <3>1, <3>3, <3>4 DEF Pair
  <2>5. QED
    BY <2>1, <2>3, <2>4 DEF PairsInv
<1>4. QED
  BY <1>2, <1>3

LEMMA CloneTransferPairs ==
  ASSUME TypeOK, PairsInv, NEW i \in Ids, NEW f \in Ids, NEW s \in Ids, NEW k \in Ids,
         NEW l \in Ids, NEW amt \in PositiveAmounts \cup {Keep},
         CloneTransfer(i, f, s, k, l, amt)
  PROVE  PairsInv'
<1> DEFINE f1 == CopiedLeg(rec[f], Paying(f, amt), k)
           s1 == CopiedLeg(rec[s], Paying(f, amt), k)
<1>1. /\ rec[i] # None /\ InOrder(i, f, s)
      /\ rec[k] = None /\ rec[l] = None /\ (k = l <=> f = s)
  BY DEF CloneTransfer, Unused
<1>2. /\ rec'[k] = f1
      /\ \A n \in Ids \ {k, l} : rec'[n] = rec[n]
      /\ CopiedLeg(rec[f], Paying(f, amt), k) \in Record
      /\ l # k => rec'[l] = CopiedSecond(f, s, amt, k)
      /\ CopiedSecond(f, s, amt, k) \in Record
  BY SMTT(60), CloneTransferPosts
<1>3. f1 # None /\ f1.group = k /\ f1.origin = rec[f].origin
  BY <1>2, RowAssumption DEF CopiedLeg, Leg, CloneTransfer
<1>3a. rec[f].dest = None => f1.dest = None
  BY DEF CopiedLeg, Leg
<1>4. CASE f = s
  <2>1. rec[f].origin = None /\ rec[f].dest = None
    BY <1>1, <1>4, FirstLegs
  <2>2. f1.origin = None /\ f1.dest = None
    BY <2>1 DEF CopiedLeg, Leg
  <2> HIDE DEF f1
  <2>3. QED
    BY <1>1, <1>2, <1>3, <1>4, <2>2, NewAlone
<1>5. CASE f # s
  <2>1. /\ rec[f].origin # None /\ rec[f].dest = None
        /\ rec[s].origin = None
    BY <1>1, <1>5, FirstLegs
  <2>2. k # l
    BY <1>1, <1>5
  <2>3. rec'[l] = s1
    BY <1>2, <1>5, <2>2 DEF CopiedSecond
  <2>4. s1 # None
    BY <1>2, <1>5, RowAssumption DEF CopiedSecond
  <2>5. s1.group = k /\ s1.origin = None
    BY <2>1 DEF CopiedLeg, Leg
  <2>6. f1.origin # None /\ f1.dest = None
    BY <1>3, <1>3a, <2>1
  <2> HIDE DEF f1, s1
  <2>7. QED
    BY <1>1, <1>2, <1>3, <2>2, <2>3, <2>4, <2>5, <2>6, NewPair
<1>6. QED
  BY <1>4, <1>5

LEMMA PairsStep ==
  ASSUME TypeOK, PairsInv, [Next]_vars
  PROVE  PairsInv'
<1>0. Trims => PairsInv'
  BY TrimsKeepPairs, LedgerAssumption
<1>1. CASE RecordNext
  <2>1. ASSUME NEW i \in Ids, NEW d \in Draft, Create(i, d)
        PROVE  Trims
    BY <2>1, CreateTrims
  <2>2. ASSUME NEW i \in Ids, NEW j \in Ids, NEW d \in Draft, NEW e \in Draft,
               CreateMany(i, j, d, e)
        PROVE  Trims
    BY <2>2, CreateManyTrims
  <2>3. ASSUME NEW i \in Ids, NEW j \in Ids, NEW amt \in Amounts \cup {Keep},
               Clone(i, j, amt)
        PROVE  Trims
    BY <2>3, CloneTrims
  <2>4. ASSUME NEW i \in Ids, SoftDelete(i)
        PROVE  Trims
    BY <2>4, SoftDeleteTrims
  <2>5. QED
    BY <1>0, <1>1, <2>1, <2>2, <2>3, <2>4 DEF RecordNext
<1>2. CASE TransferNext
  BY <1>2, CreateTransferPairs, CloneTransferPairs, LegsAreRows DEF TransferNext
<1>3. CASE EntityNext
  <2>1. rec' = rec
    BY <1>3 DEF EntityNext, AddPayment, RemovePayment, SetBalance,
                UpdateObjective, CloseEntity
  <2>2. QED
    BY <2>1 DEF PairsInv, Grouped, InGroup, Alone, Pair
<1>4. CASE AnyEndpoint
  <2>1. ASSUME NEW i \in Ids, NEW d \in Draft, Update(i, d)
        PROVE  Trims
    BY <2>1, UpdateTrims
  <2>2. ASSUME NEW S \in SUBSET Ids, SoftDeleteMany(S)
        PROVE  Trims
    BY <2>2, SoftDeleteManyTrims
  <2>3. ASSUME NEW i \in Ids, NEW f \in Ids, NEW s \in Ids,
               NEW amt \in PositiveAmounts \cup {Keep},
               NEW obj \in Objectives \cup {None, Keep}, UpdateTransfer(i, f, s, amt, obj)
        PROVE  Trims
    BY <2>3, UpdateTransferTrims
  <2>4. ASSUME NEW i \in Ids, NEW f \in Ids, NEW s \in Ids, SoftDeleteTransfer(i, f, s)
        PROVE  Trims
    BY <2>4, SoftDeleteTransferTrims
  <2>5. ASSUME NEW i \in Ids, NEW a \in Accounts, NEW amt \in Amounts,
               AccrueInterest(i, a, amt)
        PROVE  Trims
    <3>1. /\ rec[i] = None
          /\ rec' = [rec EXCEPT ![i] =
                       PlainRow([type |-> "income", amount |-> amt,
                                 patrimony |-> a, objective |-> None])]
      BY <2>5 DEF AccrueInterest, Unused
    <3>2. rec' \in [Ids -> Record \cup {None}]
      BY <2>5, AccrueInterestTypes DEF TypeOK
    <3>3. /\ rec'[i].group = None /\ rec'[i].origin = None /\ rec'[i].dest = None
          /\ \A k \in Ids \ {i} : rec'[k] = rec[k]
      BY <3>1 DEF TypeOK, PlainRow
    <3>4. \A k \in {i} : /\ ~Grouped(k) /\ rec'[k].group = None
                         /\ rec'[k].origin = None /\ rec'[k].dest = None
      BY <3>1, <3>3 DEF Grouped
    <3>5. QED
      BY <3>2, <3>3, <3>4, PlainWriteTrims, {i} \in SUBSET Ids
  <2>6. QED
    BY <1>0, <1>4, <2>1, <2>2, <2>3, <2>4, <2>5, LegsAreRows DEF AnyEndpoint
<1>5. CASE UNCHANGED vars
  BY <1>5 DEF vars, PairsInv, Grouped, InGroup, Alone, Pair
<1>6. QED
  BY <1>1, <1>2, <1>3, <1>4, <1>5 DEF Next

\* No reachable state holds an orphan leg: every leg that debits an account is
\* stored with its one counterpart, and every leg that credits one with it.
THEOREM PairsNeverSplit == Spec => []PairsWhole
<1>1. Init => PairsInv
  BY DEF Init, PairsInv, Grouped, InGroup
<1>2. TypeOK /\ PairsInv /\ [Next]_vars => PairsInv'
  BY PairsStep
<1>3. PairsInv => PairsWhole
  BY PairsInvEnough
<1>4. QED
  BY <1>1, <1>2, <1>3, TypeCorrect, PTL DEF Spec
-----------------------------------------------------------------------------
(***************************************************************************)
(* The books balance: under CarefulSpec a request moves every open balance *)
(* by exactly what it changes in the sum of the movements and payments     *)
(* stored for it (Conservation), for every set of rows and amounts.        *)
(*                                                                         *)
(* The argument: replacing one row changes the sum by the difference of    *)
(* what the two rows are worth (PostedPut), so that the effect of a        *)
(* request on the sums is a short list of differences, and it was shown    *)
(* above that its effect on the balances is the same list.                 *)
(***************************************************************************)
Rows == [Ids -> Record \cup {None}]
Payments == [PayIds -> Payment \cup {None}]

\* What one stored row is worth to the balance of e.
Worth(r, e) == IF r = None THEN 0 ELSE Effect(r, e) * r.amount
PaidWorth(p, e) == IF p # None /\ p.objective = e THEN p.amount ELSE 0

LEMMA EffectType ==
  ASSUME NEW r, NEW e \in Entities
  PROVE  Effect(r, e) \in {-1, 0, 1}
BY LinkSignType, LegSignType DEF Effect

LEMMA EnteringSum ==
  ASSUME NEW R \in Rows, NEW e \in Entities, NEW sign
  PROVE  /\ Entering(R, e, sign) \in SUBSET Ids
         /\ IsFiniteSet(Entering(R, e, sign))
         /\ \A i \in Entering(R, e, sign) : AmountsOf(R)[i] = R[i].amount
         /\ \A i \in Ids : AmountsOf(R)[i] \in Nat
         /\ Sum(Entering(R, e, sign), AmountsOf(R)) \in Nat
<1>1. Entering(R, e, sign) \in SUBSET Ids
  BY DEF Entering
<1>2. IsFiniteSet(Entering(R, e, sign))
  BY <1>1, LedgerAssumption, FS_Subset
<1>3. \A i \in Entering(R, e, sign) : AmountsOf(R)[i] = R[i].amount
  BY DEF Entering, AmountsOf, Rows
<1>4. \A i \in Ids : AmountsOf(R)[i] \in Nat
  BY DEF AmountsOf, Rows, Record
<1>5. Sum(Entering(R, e, sign), AmountsOf(R)) \in Nat
  BY <1>1, <1>2, <1>4, SumType
<1>6. QED
  BY <1>1, <1>2, <1>3, <1>4, <1>5

LEMMA PostedType ==
  ASSUME NEW R \in Rows, NEW e \in Entities
  PROVE  PostedBy(R, e) \in Int
BY EnteringSum DEF PostedBy

LEMMA WorthType ==
  ASSUME NEW r \in Record \cup {None}, NEW e \in Entities
  PROVE  Worth(r, e) \in Int
BY EffectType, SignedAmount DEF Worth, Record

\* Dropping a row takes what it is worth out of the sum.
LEMMA PostedDrop ==
  ASSUME NEW R \in Rows, NEW e \in Entities, NEW i \in Ids
  PROVE  PostedBy(R, e) = PostedBy([R EXCEPT ![i] = None], e) + Worth(R[i], e)
<1> DEFINE Q == [R EXCEPT ![i] = None]
           In(sign) == Sum(Entering(R, e, sign), AmountsOf(R))
           Out(sign) == Sum(Entering(Q, e, sign), AmountsOf(Q))
<1>1. Q \in Rows /\ R[i] \in Record \cup {None}
  BY DEF Rows
<1>2. ASSUME NEW sign \in {-1, 1}
      PROVE  /\ In(sign) \in Nat /\ Out(sign) \in Nat
             /\ In(sign) = Out(sign)
                  + IF i \in Entering(R, e, sign) THEN R[i].amount ELSE 0
  <2>1. Entering(Q, e, sign) = Entering(R, e, sign) \ {i}
    BY DEF Entering, Rows
  <2>2. \A j \in Entering(Q, e, sign) : AmountsOf(Q)[j] = AmountsOf(R)[j]
    BY <2>1 DEF AmountsOf, Rows, Entering
  <2>3. Out(sign) = Sum(Entering(R, e, sign) \ {i}, AmountsOf(R))
    <3> HIDE DEF Q
    <3>1. Sum(Entering(Q, e, sign), AmountsOf(Q)) = Sum(Entering(Q, e, sign), AmountsOf(R))
      BY <2>2, SumAgrees
    <3>2. QED
      BY <2>1, <3>1, Zenon
  <2>4. In(sign) \in Nat /\ Out(sign) \in Nat
    BY <1>1, EnteringSum
  <2>5. CASE i \in Entering(R, e, sign)
    <3>1. In(sign) = Sum(Entering(R, e, sign) \ {i}, AmountsOf(R)) + AmountsOf(R)[i]
      BY <2>5, EnteringSum, SumRemove
    <3>2. AmountsOf(R)[i] = R[i].amount
      BY <2>5, EnteringSum
    <3>3. QED
      BY <2>3, <2>4, <2>5, <3>1, <3>2
  <2>6. CASE i \notin Entering(R, e, sign)
    <3>1. Entering(R, e, sign) \ {i} = Entering(R, e, sign)
      BY <2>6
    <3>2. In(sign) = Out(sign)
      BY <2>3, <3>1, Zenon
    <3> HIDE DEF In, Out
    <3>3. QED
      BY <2>4, <2>6, <3>2
  <2>7. QED
    BY <2>5, <2>6, <2>4
<1>3. PostedBy(R, e) = In(1) - In(-1) /\ PostedBy(Q, e) = Out(1) - Out(-1)
  BY DEF PostedBy
<1> HIDE DEF In, Out, Q
<1>4. CASE R[i] = None
  <2>1. i \notin Entering(R, e, 1) /\ i \notin Entering(R, e, -1) /\ Worth(R[i], e) = 0
    BY <1>4 DEF Entering, Worth
  <2>2. QED
    BY <1>2, <1>3, <2>1 DEF Q
<1>5. CASE R[i] # None
  <2>1. R[i].amount \in Nat
    BY <1>1, <1>5 DEF Record
  <2>2. \A sign \in {-1, 1} : i \in Entering(R, e, sign) <=> Effect(R[i], e) = sign
    BY <1>5 DEF Entering
  <2>3. Worth(R[i], e) = Effect(R[i], e) * R[i].amount
    BY <1>5 DEF Worth
  <2>4. PostedBy(R, e) = PostedBy(Q, e) + Worth(R[i], e)
    <3>1. CASE Effect(R[i], e) = 1
      BY <1>2, <1>3, <2>1, <2>2, <2>3, <3>1
    <3>2. CASE Effect(R[i], e) = -1
      BY <1>2, <1>3, <2>1, <2>2, <2>3, <3>2
    <3>3. CASE Effect(R[i], e) = 0
      BY <1>2, <1>3, <2>1, <2>2, <2>3, <3>3
    <3>4. QED
      BY <3>1, <3>2, <3>3, EffectType
  <2>5. QED
    BY <2>4 DEF Q
<1>6. QED
  BY <1>4, <1>5

\* Replacing a row changes the sum by the difference of the two.
LEMMA PostedPut ==
  ASSUME NEW R \in Rows, NEW e \in Entities, NEW i \in Ids,
         NEW x \in Record \cup {None}
  PROVE  /\ [R EXCEPT ![i] = x] \in Rows
         /\ PostedBy([R EXCEPT ![i] = x], e)
              = PostedBy(R, e) - Worth(R[i], e) + Worth(x, e)
<1> DEFINE Q == [R EXCEPT ![i] = None]
           P == [R EXCEPT ![i] = x]
<1>1. P \in Rows /\ Q \in Rows /\ P[i] = x /\ R[i] \in Record \cup {None}
  BY DEF Rows
<1>2. [P EXCEPT ![i] = None] = Q
  BY DEF Rows
<1> HIDE DEF P, Q
<1>3. PostedBy(P, e) = PostedBy(Q, e) + Worth(x, e)
  BY <1>1, <1>2, PostedDrop
<1>4. PostedBy(R, e) = PostedBy(Q, e) + Worth(R[i], e)
  BY PostedDrop DEF Q
<1>5. /\ PostedBy(P, e) \in Int /\ PostedBy(Q, e) \in Int /\ PostedBy(R, e) \in Int
      /\ Worth(x, e) \in Int /\ Worth(R[i], e) \in Int
  BY <1>1, PostedType, WorthType
<1>6. PostedBy(P, e) = PostedBy(R, e) - Worth(R[i], e) + Worth(x, e)
  BY <1>3, <1>4, <1>5
<1>7. QED
  BY <1>1, <1>6 DEF P

-----------------------------------------------------------------------------
(***************************************************************************)
(* Payments.                                                               *)
(***************************************************************************)
Into(P, e) == {p \in PayIds : P[p] # None /\ P[p].objective = e}

LEMMA IntoSum ==
  ASSUME NEW P \in Payments, NEW e
  PROVE  /\ Into(P, e) \in SUBSET PayIds
         /\ IsFiniteSet(Into(P, e))
         /\ \A p \in Into(P, e) : AmountsOf(P)[p] = P[p].amount
         /\ \A p \in PayIds : AmountsOf(P)[p] \in Nat
         /\ PaidBy(P, e) = Sum(Into(P, e), AmountsOf(P))
         /\ PaidBy(P, e) \in Nat
<1>1. Into(P, e) \in SUBSET PayIds
  BY DEF Into
<1>2. IsFiniteSet(Into(P, e))
  BY <1>1, LedgerAssumption, FS_Subset
<1>3. \A p \in Into(P, e) : AmountsOf(P)[p] = P[p].amount
  BY DEF Into, AmountsOf, Payments
<1>4. \A p \in PayIds : AmountsOf(P)[p] \in Nat
  BY DEF AmountsOf, Payments, Payment
<1>5. PaidBy(P, e) = Sum(Into(P, e), AmountsOf(P))
  BY DEF PaidBy, Into
<1>6. Sum(Into(P, e), AmountsOf(P)) \in Nat
  BY <1>1, <1>2, <1>4, SumType
<1>7. QED
  BY <1>1, <1>2, <1>3, <1>4, <1>5, <1>6

LEMMA PaidDrop ==
  ASSUME NEW P \in Payments, NEW e, NEW p \in PayIds
  PROVE  /\ [P EXCEPT ![p] = None] \in Payments
         /\ PaidBy(P, e) = PaidBy([P EXCEPT ![p] = None], e) + PaidWorth(P[p], e)
<1> DEFINE Q == [P EXCEPT ![p] = None]
<1>1. Q \in Payments
  BY DEF Payments
<1>2. Into(Q, e) = Into(P, e) \ {p}
  BY DEF Into, Payments
<1>3. \A q \in Into(Q, e) : AmountsOf(Q)[q] = AmountsOf(P)[q]
  BY <1>2 DEF AmountsOf, Payments, Into
<1> HIDE DEF Q
<1>4. Sum(Into(Q, e), AmountsOf(Q)) = Sum(Into(Q, e), AmountsOf(P))
  BY <1>3, SumAgrees
<1>5. PaidBy(Q, e) = Sum(Into(P, e) \ {p}, AmountsOf(P))
  <2>1. PaidBy(Q, e) = Sum(Into(Q, e), AmountsOf(Q))
    BY <1>1, IntoSum
  <2>2. QED
    BY <1>2, <1>4, <2>1, Zenon
<1>6. PaidBy(P, e) = Sum(Into(P, e), AmountsOf(P)) /\ PaidBy(P, e) \in Nat
      /\ PaidBy(Q, e) \in Nat
  BY <1>1, IntoSum
<1>7. CASE p \in Into(P, e)
  <2>1. Sum(Into(P, e), AmountsOf(P))
          = Sum(Into(P, e) \ {p}, AmountsOf(P)) + AmountsOf(P)[p]
    BY <1>7, IntoSum, SumRemove
  <2>2. AmountsOf(P)[p] = P[p].amount /\ PaidWorth(P[p], e) = P[p].amount
    BY <1>7, IntoSum DEF PaidWorth, Into
  <2>3. PaidBy(P, e) = PaidBy(Q, e) + PaidWorth(P[p], e)
    BY <1>5, <1>6, <2>1, <2>2
  <2>4. QED
    BY <1>1, <2>3 DEF Q
<1>8. CASE p \notin Into(P, e)
  <2>1. Into(P, e) \ {p} = Into(P, e)
    BY <1>8
  <2>2. PaidBy(Q, e) = PaidBy(P, e)
    BY <1>5, <1>6, <2>1, Zenon
  <2>3. PaidWorth(P[p], e) = 0
    BY <1>8 DEF PaidWorth, Into
  <2>4. PaidBy(P, e) = PaidBy(Q, e) + PaidWorth(P[p], e)
    BY <1>6, <2>2, <2>3
  <2>5. QED
    BY <1>1, <2>4 DEF Q
<1>9. QED
  BY <1>7, <1>8

-----------------------------------------------------------------------------
(***************************************************************************)
(* What a request changes in the sums.                                     *)
(***************************************************************************)
Explains(v) == \A e \in Entities : Stored(e)' - Stored(e) = v[e]

LEMMA StoredType ==
  ASSUME TypeOK, NEW e \in Entities
  PROVE  PostedBy(rec, e) \in Int /\ PaidBy(pay, e) \in Int /\ Stored(e) \in Int
<1>1. rec \in Rows /\ pay \in Payments
  BY DEF TypeOK, Rows, Payments
<1>2. PostedBy(rec, e) \in Int /\ PaidBy(pay, e) \in Int
  BY <1>1, PostedType, IntoSum
<1>3. QED
  BY <1>2 DEF Stored

LEMMA OneRowExplained ==
  ASSUME TypeOK, pay' = pay, NEW i \in Ids, NEW x \in Record \cup {None},
         rec' = [rec EXCEPT ![i] = x], NEW e \in Entities
  PROVE  Stored(e)' - Stored(e) = Worth(x, e) - Worth(rec[i], e)
<1>1. rec \in Rows /\ rec[i] \in Record \cup {None}
  BY DEF TypeOK, Rows
<1>2. PostedBy(rec', e) = PostedBy(rec, e) - Worth(rec[i], e) + Worth(x, e)
  BY <1>1, PostedPut
<1>3. /\ PostedBy(rec, e) \in Int /\ PaidBy(pay, e) \in Int
      /\ Worth(rec[i], e) \in Int /\ Worth(x, e) \in Int
  BY <1>1, StoredType, WorthType
<1>4. /\ Stored(e)' = PostedBy(rec', e) + PaidBy(pay, e)
      /\ Stored(e) = PostedBy(rec, e) + PaidBy(pay, e)
  BY DEF Stored
<1>5. QED
  BY <1>2, <1>3, <1>4

LEMMA TwoRowsExplained ==
  ASSUME TypeOK, pay' = pay, NEW i \in Ids, NEW j \in Ids, i # j,
         NEW x \in Record \cup {None}, NEW y \in Record \cup {None},
         rec' = [rec EXCEPT ![i] = x, ![j] = y], NEW e \in Entities
  PROVE  Stored(e)' - Stored(e)
           = (Worth(x, e) - Worth(rec[i], e)) + (Worth(y, e) - Worth(rec[j], e))
<1> DEFINE mid == [rec EXCEPT ![i] = x]
<1>1. /\ rec \in Rows /\ rec[i] \in Record \cup {None} /\ rec[j] \in Record \cup {None}
  BY DEF TypeOK, Rows
<1>2. /\ mid \in Rows
      /\ PostedBy(mid, e) = PostedBy(rec, e) - Worth(rec[i], e) + Worth(x, e)
  BY <1>1, PostedPut
<1>3. rec' = [mid EXCEPT ![j] = y] /\ mid[j] = rec[j]
  BY <1>1 DEF Rows
<1> HIDE DEF mid
<1>4. PostedBy(rec', e) = PostedBy(mid, e) - Worth(rec[j], e) + Worth(y, e)
  <2>1. PostedBy([mid EXCEPT ![j] = y], e)
          = PostedBy(mid, e) - Worth(mid[j], e) + Worth(y, e)
    BY <1>2, PostedPut
  <2>2. QED
    BY <1>3, <2>1
<1>5. /\ PostedBy(rec, e) \in Int /\ PaidBy(pay, e) \in Int /\ PostedBy(mid, e) \in Int
      /\ Worth(rec[i], e) \in Int /\ Worth(x, e) \in Int
      /\ Worth(rec[j], e) \in Int /\ Worth(y, e) \in Int
  BY <1>1, <1>2, StoredType, WorthType, PostedType
<1>6. /\ Stored(e)' = PostedBy(rec', e) + PaidBy(pay, e)
      /\ Stored(e) = PostedBy(rec, e) + PaidBy(pay, e)
  BY DEF Stored
<1>7. QED
  BY <1>2, <1>4, <1>5, <1>6

LEMMA NoneIsWorthless == \A e \in Entities : Worth(None, e) = 0
BY DEF Worth

LEMMA PlainWorth ==
  ASSUME NEW r \in Record, r.group = None, NEW e \in Entities
  PROVE  Worth(r, e) = LinkDelta(r)[e]
BY RowAssumption DEF Worth, Effect, LinkDelta

LEMMA LegWorth ==
  ASSUME NEW r \in Record, r.group # None, NEW e \in Entities
  PROVE  Worth(r, e) = LegDelta(r)[e]
BY RowAssumption DEF Worth, Effect, LegDelta

\* A request and the row built from it move the same amounts.
LEMMA DraftWorth ==
  ASSUME NEW d \in Draft, NEW e \in Entities
  PROVE  Worth(PlainRow(d), e) = LinkDelta(d)[e]
<1>1. PlainRow(d) \in Record /\ PlainRow(d).group = None
  BY DraftType DEF PlainRow
<1>2. Worth(PlainRow(d), e) = LinkDelta(PlainRow(d))[e]
  BY <1>1, PlainWorth
<1>3. LinkDelta(PlainRow(d))[e] = LinkDelta(d)[e]
  BY DEF PlainRow, LinkDelta, LinkSign
<1>4. QED
  BY <1>2, <1>3

-----------------------------------------------------------------------------
(***************************************************************************)
(* Each request explains its posting.                                      *)
(***************************************************************************)
LEMMA DeltaValues ==
  ASSUME NEW v \in Deltas, NEW w \in Deltas, NEW e \in Entities
  PROVE  /\ v[e] \in Int /\ w[e] \in Int
         /\ Minus(v)[e] = -v[e]
         /\ Plus(v, w)[e] = v[e] + w[e]
BY DEF Deltas, Minus, Plus

LEMMA CreateExplained ==
  ASSUME TypeOK, NEW i \in Ids, NEW d \in Draft, Create(i, d)
  PROVE  Explains(LinkDelta(d))
<1> SUFFICES ASSUME NEW e \in Entities
             PROVE  Stored(e)' - Stored(e) = LinkDelta(d)[e]
  BY DEF Explains
<1>1. /\ rec' = [rec EXCEPT ![i] = PlainRow(d)] /\ rec[i] = None /\ pay' = pay
      /\ PlainRow(d) \in Record
  BY DraftType DEF Create, Unused
<1>2. Stored(e)' - Stored(e) = Worth(PlainRow(d), e) - Worth(rec[i], e)
  BY <1>1, OneRowExplained
<1>3. Worth(rec[i], e) = 0 /\ Worth(PlainRow(d), e) = LinkDelta(d)[e]
  BY <1>1, NoneIsWorthless, DraftWorth
<1>4. LinkDelta(d)[e] \in Int
  BY DraftType, LinkDeltaType DEF Deltas
<1>5. QED
  BY <1>2, <1>3, <1>4

LEMMA CreateManyExplained ==
  ASSUME TypeOK, NEW i \in Ids, NEW j \in Ids, NEW d \in Draft, NEW c \in Draft,
         CreateMany(i, j, d, c)
  PROVE  Explains(Plus(LinkDelta(d), LinkDelta(c)))
<1> SUFFICES ASSUME NEW e \in Entities
             PROVE  Stored(e)' - Stored(e) = Plus(LinkDelta(d), LinkDelta(c))[e]
  BY DEF Explains
<1>1. /\ rec' = [rec EXCEPT ![i] = PlainRow(d), ![j] = PlainRow(c)]
      /\ rec[i] = None /\ rec[j] = None /\ i # j /\ pay' = pay
      /\ PlainRow(d) \in Record /\ PlainRow(c) \in Record
  BY DraftType DEF CreateMany, Unused
<1>2. Stored(e)' - Stored(e)
        = (Worth(PlainRow(d), e) - Worth(rec[i], e))
            + (Worth(PlainRow(c), e) - Worth(rec[j], e))
  <2> DEFINE x == PlainRow(d)
             y == PlainRow(c)
  <2>1. /\ x \in Record \cup {None} /\ y \in Record \cup {None}
        /\ rec' = [rec EXCEPT ![i] = x, ![j] = y]
    BY <1>1
  <2> HIDE DEF x, y
  <2>0. pay' = pay /\ i # j
    BY <1>1
  <2>2. Stored(e)' - Stored(e)
          = (Worth(x, e) - Worth(rec[i], e)) + (Worth(y, e) - Worth(rec[j], e))
    BY ZenonT(60), <2>0, <2>1, TwoRowsExplained
  <2>3. QED
    BY <2>2 DEF x, y
<1>3. /\ Worth(rec[i], e) = 0 /\ Worth(PlainRow(d), e) = LinkDelta(d)[e]
      /\ Worth(rec[j], e) = 0 /\ Worth(PlainRow(c), e) = LinkDelta(c)[e]
  BY <1>1, NoneIsWorthless, DraftWorth
<1>4. LinkDelta(d) \in Deltas /\ LinkDelta(c) \in Deltas
  BY DraftType, LinkDeltaType
<1>5. QED
  BY <1>2, <1>3, <1>4, DeltaValues

LEMMA CloneExplained ==
  ASSUME TypeOK, NEW i \in Ids, NEW j \in Ids, NEW amt \in Amounts \cup {Keep},
         Clone(i, j, amt)
  PROVE  Explains(LinkDelta(rec'[j]))
<1> SUFFICES ASSUME NEW e \in Entities
             PROVE  Stored(e)' - Stored(e) = LinkDelta(rec'[j])[e]
  BY DEF Explains
<1> DEFINE copy == [rec[i] EXCEPT !.amount = IF amt = Keep THEN @ ELSE amt]
<1>1. /\ rec' = [rec EXCEPT ![j] = copy] /\ rec[j] = None /\ pay' = pay
      /\ rec[i] \in Record /\ rec[i].group = None
  BY DEF Clone, Unused, Grouped, TypeOK
<1>2. copy \in Record /\ copy.group = None /\ rec'[j] = copy
  BY <1>1, LedgerAssumption DEF Record, TypeOK
<1> HIDE DEF copy
<1>3. Stored(e)' - Stored(e) = Worth(copy, e) - Worth(rec[j], e)
  BY <1>1, <1>2, OneRowExplained
<1>4. Worth(rec[j], e) = 0 /\ Worth(copy, e) = LinkDelta(copy)[e]
  BY <1>1, <1>2, NoneIsWorthless, PlainWorth
<1>5. LinkDelta(copy)[e] \in Int
  BY <1>2, LinkDeltaType DEF Deltas, Record
<1>6. QED
  BY <1>2, <1>3, <1>4, <1>5

LEMMA UpdateExplained ==
  ASSUME TypeOK, NEW i \in Ids, NEW d \in Draft, ~Grouped(i), Update(i, d)
  PROVE  Explains(Plus(Minus(LinkDelta(rec[i])), LinkDelta(d)))
<1> SUFFICES ASSUME NEW e \in Entities
             PROVE  Stored(e)' - Stored(e)
                      = Plus(Minus(LinkDelta(rec[i])), LinkDelta(d))[e]
  BY DEF Explains
<1> DEFINE new == Merged(rec[i], d)
<1>1. /\ rec' = [rec EXCEPT ![i] = new] /\ pay' = pay
      /\ rec[i] # None /\ rec[i] \in Record /\ rec[i].group = None
  BY DEF Update, Grouped, TypeOK
<1>2. new \in Record /\ new.group = None
  BY ZenonT(60), <1>1, MergedType DEF Merged, Record
<1>3. LinkDelta(new)[e] = LinkDelta(d)[e]
  BY <1>1 DEF Merged, LinkDelta, LinkSign, Record
<1> HIDE DEF new
<1>4. Stored(e)' - Stored(e) = Worth(new, e) - Worth(rec[i], e)
  BY <1>1, <1>2, OneRowExplained
<1>5. Worth(new, e) = LinkDelta(d)[e] /\ Worth(rec[i], e) = LinkDelta(rec[i])[e]
  BY <1>1, <1>2, <1>3, PlainWorth
<1>6. LinkDelta(d) \in Deltas /\ LinkDelta(rec[i]) \in Deltas
  BY <1>1, DraftType, LinkDeltaType DEF Record
<1>7. Minus(LinkDelta(rec[i])) \in Deltas
  BY <1>6, MinusType
<1>8. QED
  BY <1>4, <1>5, <1>6, <1>7, DeltaValues

LEMMA SoftDeletePlainExplained ==
  ASSUME TypeOK, NEW i \in Ids, ~Grouped(i), SoftDelete(i)
  PROVE  Explains(Minus(LinkDelta(rec[i])))
<1> SUFFICES ASSUME NEW e \in Entities
             PROVE  Stored(e)' - Stored(e) = Minus(LinkDelta(rec[i]))[e]
  BY DEF Explains
<1>1. /\ rec' = Cleared({i}) /\ pay' = pay
      /\ rec[i] # None /\ rec[i] \in Record /\ rec[i].group = None
  BY SoftDeletePlainPosts DEF Grouped, TypeOK
<1>2. rec' = [rec EXCEPT ![i] = None]
  BY <1>1 DEF Cleared, TypeOK
<1>3. Stored(e)' - Stored(e) = Worth(None, e) - Worth(rec[i], e)
  BY <1>1, <1>2, OneRowExplained
<1>4. Worth(None, e) = 0 /\ Worth(rec[i], e) = LinkDelta(rec[i])[e]
  BY <1>1, NoneIsWorthless, PlainWorth
<1>5. LinkDelta(rec[i]) \in Deltas
  BY <1>1, LinkDeltaType DEF Record
<1>6. QED
  BY <1>3, <1>4, <1>5, DeltaValues

-----------------------------------------------------------------------------
(***************************************************************************)
(* Transfers, whose two legs may be one row when a pair was never whole.   *)
(***************************************************************************)
\* The second leg of a transfer counts only where it is a row of its own.
Apart(f, s, n) == IF f = s THEN 0 ELSE n

LEMMA LegsExplained ==
  ASSUME TypeOK, pay' = pay, NEW f \in Ids, NEW s \in Ids,
         NEW x \in Record \cup {None}, NEW y \in Record \cup {None},
         rec' = [n \in Ids |-> CASE n = f -> x
                                 [] n = s /\ n # f -> y
                                 [] OTHER -> rec[n]],
         NEW e \in Entities
  PROVE  Stored(e)' - Stored(e)
           = (Worth(x, e) - Worth(rec[f], e))
               + Apart(f, s, Worth(y, e) - Worth(rec[s], e))
<1>0. rec \in Rows /\ Worth(x, e) \in Int /\ Worth(rec[f], e) \in Int
  BY WorthType DEF TypeOK, Rows
<1>1. CASE f = s
  <2>1. rec' = [rec EXCEPT ![f] = x]
    BY <1>0, <1>1 DEF Rows
  <2>2. Stored(e)' - Stored(e) = Worth(x, e) - Worth(rec[f], e)
    BY <2>1, OneRowExplained
  <2>3. QED
    BY <1>0, <1>1, <2>2 DEF Apart
<1>2. CASE f # s
  <2>1. rec' = [rec EXCEPT ![f] = x, ![s] = y]
    BY <1>0, <1>2 DEF Rows
  <2>2. Stored(e)' - Stored(e)
          = (Worth(x, e) - Worth(rec[f], e)) + (Worth(y, e) - Worth(rec[s], e))
    BY <1>2, <2>1, TwoRowsExplained
  <2>3. QED
    BY <1>2, <2>2 DEF Apart
<1>3. QED
  BY <1>1, <1>2

LEMMA NoLegIsWorthless ==
  ASSUME NEW e \in Entities
  PROVE  LegDelta(NoLeg)[e] = 0
<1>1. None \notin Entities
  BY LedgerAssumption
<1>2. LegSign(NoLeg, e) = 0
  BY <1>1 DEF LegSign, NoLeg, Leg
<1>3. NoLeg.amount = 0
  BY DEF NoLeg, Leg
<1>4. LegSign(NoLeg, e) * NoLeg.amount = 0
  BY <1>2, <1>3
<1>5. QED
  BY <1>4 DEF LegDelta

\* The siblings of a leg are legs of the same transfer.
LEMMA LegsGrouped ==
  ASSUME TypeOK, NEW i \in Ids, Grouped(i), NEW f \in Ids, NEW s \in Ids,
         InOrder(i, f, s)
  PROVE  /\ rec[f] \in Record /\ rec[f].group # None
         /\ rec[s] \in Record /\ rec[s].group # None
<1>1. f \in Legs(i) /\ s \in Legs(i)
  BY DEF InOrder
<1>2. /\ rec[f] # None /\ rec[f].group = rec[i].group
      /\ rec[s] # None /\ rec[s].group = rec[i].group
  BY <1>1 DEF Legs, Live
<1>3. QED
  BY <1>2 DEF TypeOK, Grouped

\* What the two legs of a transfer are worth together.
LEMMA SecondWorth ==
  ASSUME NEW f \in Ids, NEW s \in Ids, NEW e \in Entities,
         NEW r \in Record, r.group # None, NEW q,
         q = IF f = s THEN NoLeg ELSE r
  PROVE  /\ LegDelta(q)[e] \in Int
         /\ LegDelta(q)[e] = Apart(f, s, Worth(r, e))
<1>1. CASE f = s
  BY <1>1, NoLegIsWorthless DEF Apart
<1>2. CASE f # s
  <2>1. LegDelta(r)[e] \in Int
    BY LinkDeltaType, LegDeltaWithin DEF Record, Within, Deltas
  <2>2. QED
    BY <1>2, <2>1, LegWorth DEF Apart
<1>3. QED
  BY <1>1, <1>2

LEMMA LegValues ==
  ASSUME NEW r \in Record, NEW e \in Entities
  PROVE  /\ LegDelta(r) \in Deltas /\ Minus(LegDelta(r)) \in Deltas
         /\ LegDelta(r)[e] \in Int
BY LegDeltaWithin, MinusType DEF Record, Within, Deltas

LEMMA SoftDeleteTransferExplained ==
  ASSUME TypeOK, NEW i \in Ids, Grouped(i), NEW f \in Ids, NEW s \in Ids,
         SoftDeleteTransfer(i, f, s)
  PROVE  Explains(Plus(Minus(LegDelta(rec[f])), Minus(LegDelta(Second(f, s)))))
<1> SUFFICES ASSUME NEW e \in Entities
             PROVE  Stored(e)' - Stored(e)
                      = Plus(Minus(LegDelta(rec[f])), Minus(LegDelta(Second(f, s))))[e]
  BY DEF Explains
<1>1. /\ rec' = Cleared({f, s}) /\ pay' = pay /\ InOrder(i, f, s) /\ rec[i] # None
  BY DEF SoftDeleteTransfer
<1>2. /\ rec[f] \in Record /\ rec[f].group # None
      /\ rec[s] \in Record /\ rec[s].group # None
      /\ Second(f, s) \in Record
  BY <1>1, LegsGrouped, SecondType
<1>3. rec' = [n \in Ids |-> CASE n = f -> None
                              [] n = s /\ n # f -> None
                              [] OTHER -> rec[n]]
  BY <1>1 DEF Cleared
<1>4. Stored(e)' - Stored(e)
        = (Worth(None, e) - Worth(rec[f], e))
            + Apart(f, s, Worth(None, e) - Worth(rec[s], e))
  <2>1. None \in Record \cup {None}
    OBVIOUS
  <2>2. QED
    BY ZenonT(60), <1>1, <1>3, <2>1, LegsExplained
<1>5. /\ Worth(None, e) = 0 /\ Worth(rec[f], e) = LegDelta(rec[f])[e]
      /\ LegDelta(rec[f])[e] \in Int
  BY <1>2, NoneIsWorthless, LegWorth, LegValues
<1>6. /\ LegDelta(Second(f, s))[e] = Apart(f, s, Worth(rec[s], e))
      /\ LegDelta(Second(f, s))[e] \in Int
  BY <1>2, SecondWorth DEF Second
<1>7. Worth(rec[s], e) \in Int
  BY <1>2, WorthType
<1>8. Stored(e)' - Stored(e) = -LegDelta(rec[f])[e] + -LegDelta(Second(f, s))[e]
  BY <1>4, <1>5, <1>6, <1>7 DEF Apart
<1>9. /\ Plus(Minus(LegDelta(rec[f])), Minus(LegDelta(Second(f, s))))[e]
           = -LegDelta(rec[f])[e] + -LegDelta(Second(f, s))[e]
  BY <1>2, LegValues, DeltaValues
<1>10. QED
  BY <1>8, <1>9

LEMMA CreateTransferExplained ==
  ASSUME TypeOK, NEW i \in Ids, NEW j \in Ids, NEW src \in Accounts,
         NEW dst \in Accounts \cup Liabilities, NEW amt \in PositiveAmounts,
         NEW obj \in Objectives \cup {None}, CreateTransfer(i, j, src, dst, amt, obj)
  PROVE  Explains(Plus(LegDelta(OriginLeg(amt, src, i)),
                       LegDelta(CreditLeg(amt, dst, obj, i))))
<1> DEFINE x == OriginLeg(amt, src, i)
           y == CreditLeg(amt, dst, obj, i)
<1> SUFFICES ASSUME NEW e \in Entities
             PROVE  Stored(e)' - Stored(e) = Plus(LegDelta(x), LegDelta(y))[e]
  BY DEF Explains
<1>1. /\ rec' = [rec EXCEPT ![i] = x, ![j] = y] /\ x \in Record /\ y \in Record
  BY CreateTransferPosts
<1>2. pay' = pay /\ i # j /\ rec[i] = None /\ rec[j] = None
  BY DEF CreateTransfer, Unused
<1>3. x.group # None /\ y.group # None
  BY LedgerAssumption DEF OriginLeg, CreditLeg, Leg
<1> HIDE DEF x, y
<1>4. Stored(e)' - Stored(e)
        = (Worth(x, e) - Worth(rec[i], e)) + (Worth(y, e) - Worth(rec[j], e))
  <2>1. x \in Record \cup {None} /\ y \in Record \cup {None}
    BY <1>1
  <2>2. QED
    BY ZenonT(60), <1>1, <1>2, <2>1, TwoRowsExplained
<1>5. /\ Worth(rec[i], e) = 0 /\ Worth(rec[j], e) = 0
      /\ Worth(x, e) = LegDelta(x)[e] /\ Worth(y, e) = LegDelta(y)[e]
  BY <1>1, <1>2, <1>3, NoneIsWorthless, LegWorth
<1>6. LegDelta(x) \in Deltas /\ LegDelta(y) \in Deltas
  BY <1>1, LegValues
<1>7. QED
  BY <1>4, <1>5, <1>6, DeltaValues

LEMMA UpdateTransferExplained ==
  ASSUME TypeOK, NEW i \in Ids, Grouped(i), NEW f \in Ids, NEW s \in Ids,
         NEW amt \in PositiveAmounts \cup {Keep},
         NEW obj \in Objectives \cup {None, Keep}, UpdateTransfer(i, f, s, amt, obj)
  PROVE  Explains(Plus(Plus(Minus(LegDelta(rec[f])), Minus(LegDelta(Second(f, s)))),
                       Plus(LegDelta(Amended(rec[f], amt, obj)),
                            LegDelta(NewSecond(f, s, amt, obj)))))
<1> DEFINE x == Amended(rec[f], amt, obj)
           y == Amended(rec[s], amt, obj)
           z == NewSecond(f, s, amt, obj)
           q == Second(f, s)
<1>1. /\ rec' = [n \in Ids |-> CASE n = f -> x
                                 [] n = s /\ n # f -> z
                                 [] OTHER -> rec[n]]
  BY UpdateTransferPosts
<1>2. pay' = pay /\ InOrder(i, f, s) /\ rec[i] # None
  BY DEF UpdateTransfer
<1>3. /\ rec[f] \in Record /\ rec[f].group # None
      /\ rec[s] \in Record /\ rec[s].group # None
      /\ q \in Record
  BY <1>2, LegsGrouped, SecondType
<1>4. x \in Record /\ y \in Record
  BY <1>3, AmendedType
<1>5. x.group # None /\ y.group # None
  BY <1>3 DEF Amended, Record
<1>6. z = (IF f = s THEN NoLeg ELSE y) /\ q = (IF f = s THEN NoLeg ELSE rec[s])
  BY DEF NewSecond, Second
<1>7. z \in Record
  BY <1>3, <1>4, <1>6 DEF Second
<1> HIDE DEF x, y, z, q
<1> SUFFICES ASSUME NEW e \in Entities
             PROVE  Stored(e)' - Stored(e)
                      = Plus(Plus(Minus(LegDelta(rec[f])), Minus(LegDelta(q))),
                             Plus(LegDelta(x), LegDelta(z)))[e]
  BY DEF Explains, x, z, q
<1>8. Stored(e)' - Stored(e)
        = (Worth(x, e) - Worth(rec[f], e)) + Apart(f, s, Worth(z, e) - Worth(rec[s], e))
  <2>1. x \in Record \cup {None} /\ z \in Record \cup {None}
    BY <1>4, <1>7
  <2>2. QED
    BY <1>1, <1>2, <2>1, LegsExplained
<1>9. /\ Worth(x, e) = LegDelta(x)[e] /\ LegDelta(x)[e] \in Int
      /\ Worth(rec[f], e) = LegDelta(rec[f])[e] /\ LegDelta(rec[f])[e] \in Int
  BY <1>3, <1>4, <1>5, LegWorth, LegValues
<1>10. /\ LegDelta(z)[e] = Apart(f, s, Worth(y, e)) /\ LegDelta(z)[e] \in Int
       /\ LegDelta(q)[e] = Apart(f, s, Worth(rec[s], e)) /\ LegDelta(q)[e] \in Int
  BY <1>3, <1>4, <1>5, <1>6, SecondWorth
<1>11. Worth(y, e) \in Int /\ Worth(rec[s], e) \in Int
  BY <1>3, <1>4, WorthType
<1>12. Apart(f, s, Worth(z, e) - Worth(rec[s], e)) = LegDelta(z)[e] - LegDelta(q)[e]
  BY <1>6, <1>10, <1>11 DEF Apart
<1>13. Stored(e)' - Stored(e)
         = (LegDelta(x)[e] - LegDelta(rec[f])[e]) + (LegDelta(z)[e] - LegDelta(q)[e])
  BY <1>8, <1>9, <1>12
<1>14. /\ LegDelta(x) \in Deltas /\ LegDelta(z) \in Deltas
       /\ LegDelta(rec[f]) \in Deltas /\ LegDelta(q) \in Deltas
       /\ Minus(LegDelta(rec[f])) \in Deltas /\ Minus(LegDelta(q)) \in Deltas
  BY <1>3, <1>4, <1>7, LegValues
<1>15. /\ Plus(Minus(LegDelta(rec[f])), Minus(LegDelta(q)))[e]
            = -LegDelta(rec[f])[e] + -LegDelta(q)[e]
       /\ Plus(LegDelta(x), LegDelta(z))[e] = LegDelta(x)[e] + LegDelta(z)[e]
       /\ Plus(Minus(LegDelta(rec[f])), Minus(LegDelta(q))) \in Deltas
       /\ Plus(LegDelta(x), LegDelta(z)) \in Deltas
  BY <1>14, DeltaValues, PlusType
<1>16. Plus(Plus(Minus(LegDelta(rec[f])), Minus(LegDelta(q))),
            Plus(LegDelta(x), LegDelta(z)))[e]
         = (-LegDelta(rec[f])[e] + -LegDelta(q)[e]) + (LegDelta(x)[e] + LegDelta(z)[e])
  BY <1>15, DeltaValues
<1>17. QED
  BY <1>9, <1>10, <1>13, <1>16

LEMMA CloneTransferExplained ==
  ASSUME TypeOK, NEW i \in Ids, NEW f \in Ids, NEW s \in Ids, NEW k \in Ids,
         NEW l \in Ids, NEW amt \in PositiveAmounts \cup {Keep},
         CloneTransfer(i, f, s, k, l, amt)
  PROVE  Explains(Plus(LegDelta(CopiedLeg(rec[f], Paying(f, amt), k)),
                       LegDelta(CopiedSecond(f, s, amt, k))))
<1> DEFINE x == CopiedLeg(rec[f], Paying(f, amt), k)
           y == CopiedLeg(rec[s], Paying(f, amt), k)
           z == CopiedSecond(f, s, amt, k)
<1>1. /\ rec' = [n \in Ids |-> CASE n = k -> x
                                 [] n = l /\ n # k -> z
                                 [] OTHER -> rec[n]]
      /\ x \in Record /\ z \in Record
  BY CloneTransferPosts
<1>2. /\ pay' = pay /\ InOrder(i, f, s) /\ rec[i] # None
      /\ rec[k] = None /\ rec[l] = None /\ (k = l <=> f = s)
  BY DEF CloneTransfer, Unused
<1>3. x.group # None /\ (f # s => z.group # None)
  BY LedgerAssumption DEF CopiedLeg, CopiedSecond, Leg
<1>4. f = s => z = NoLeg
  BY DEF CopiedSecond
<1> HIDE DEF x, y, z
<1> SUFFICES ASSUME NEW e \in Entities
             PROVE  Stored(e)' - Stored(e) = Plus(LegDelta(x), LegDelta(z))[e]
  BY DEF Explains, x, z
<1>5. Stored(e)' - Stored(e)
        = (Worth(x, e) - Worth(rec[k], e)) + Apart(k, l, Worth(z, e) - Worth(rec[l], e))
  <2>1. x \in Record \cup {None} /\ z \in Record \cup {None}
    BY <1>1
  <2>2. QED
    BY <1>1, <1>2, <2>1, LegsExplained
<1>6. /\ Worth(x, e) = LegDelta(x)[e] /\ LegDelta(x)[e] \in Int
      /\ LegDelta(z)[e] \in Int
      /\ Worth(rec[k], e) = 0 /\ Worth(rec[l], e) = 0
  BY <1>1, <1>2, <1>3, LegWorth, LegValues, NoneIsWorthless
<1>7. Apart(k, l, Worth(z, e) - Worth(rec[l], e)) = LegDelta(z)[e]
  <2>1. CASE f = s
    BY <1>2, <1>4, <2>1, NoLegIsWorthless DEF Apart
  <2>2. CASE f # s
    <3>1. Worth(z, e) = LegDelta(z)[e]
      BY <1>1, <1>3, <2>2, LegWorth
    <3>2. QED
      BY <1>2, <1>6, <2>2, <3>1 DEF Apart
  <2>3. QED
    BY <2>1, <2>2
<1>8. LegDelta(x) \in Deltas /\ LegDelta(z) \in Deltas
  BY <1>1, LegValues
<1>9. QED
  BY <1>5, <1>6, <1>7, <1>8, DeltaValues

-----------------------------------------------------------------------------
(***************************************************************************)
(* The bulk deletion, of movements that are not legs.                      *)
(***************************************************************************)
LEMMA PlainVictims ==
  ASSUME TypeOK, NEW S \in SUBSET {i \in Ids : ~Grouped(i)}
  PROVE  /\ Victims(S) = S \cap Live
         /\ \A i \in S \cap Live : rec[i] \in Record /\ rec[i].group = None
<1>1. \A i \in S \cap Live : i \in Ids /\ rec[i] \in Record /\ rec[i].group = None
  BY DEF Live, Grouped, TypeOK
<1>2. {rec[i].group : i \in S \cap Live} \ {None} = {}
  BY <1>1
<1>3. Victims(S) = S \cap Live
  BY <1>2 DEF Victims
<1>4. QED
  BY <1>1, <1>3

\* One sign at a time: the rows deleted are the ones that leave the sum.
LEMMA SignCleared ==
  ASSUME TypeOK, NEW T \in SUBSET Ids, NEW sign, NEW e \in Entities,
         \A i \in T : rec[i] \in Record /\ rec[i].group = None
  PROVE  /\ Sum(Entering(rec, e, sign), AmountsOf(rec))
              = Sum(Entering(Cleared(T), e, sign), AmountsOf(Cleared(T)))
                  + Sum({i \in T : LinkSign(rec[i], e) = sign}, AmountsOf(rec))
         /\ Sum({i \in T : LinkSign(rec[i], e) = sign}, AmountsOf(rec)) \in Nat
<1> DEFINE Q == Cleared(T)
           Gone == {i \in T : LinkSign(rec[i], e) = sign}
           Kept == Entering(Q, e, sign)
<1>1. rec \in Rows /\ Q \in Rows
  BY ClearedType DEF TypeOK, Rows
<1>2. Entering(rec, e, sign) = Kept \cup Gone
  <2>1. \A i \in T : rec[i] # None /\ Effect(rec[i], e) = LinkSign(rec[i], e)
    BY RowAssumption DEF Effect
  <2>2. \A i \in Ids : Q[i] = IF i \in T THEN None ELSE rec[i]
    BY DEF Cleared
  <2> HIDE DEF Q
  <2>3. QED
    BY <2>1, <2>2 DEF Entering
<1>3. Kept \cap Gone = {}
  BY DEF Entering, Cleared
<1>4. IsFiniteSet(Kept) /\ Kept \in SUBSET Ids
  BY <1>1, EnteringSum
<1>5. Gone \in SUBSET Ids /\ IsFiniteSet(Gone)
  <2>1. Gone \in SUBSET Ids
    OBVIOUS
  <2>2. QED
    BY <2>1, LedgerAssumption, FS_Subset
<1>6. \A i \in Kept : AmountsOf(Q)[i] = AmountsOf(rec)[i]
  <2>1. \A i \in Kept : i \in Ids \ T
    BY DEF Entering, Cleared
  <2>2. QED
    BY <1>1, <2>1 DEF AmountsOf, Cleared, TypeOK
<1>7. \A i \in Ids : AmountsOf(rec)[i] \in Nat
  BY AmountsType
<1> HIDE DEF Gone, Kept, Q
<1>8. Sum(Kept \cup Gone, AmountsOf(rec))
        = Sum(Kept, AmountsOf(rec)) + Sum(Gone, AmountsOf(rec))
  <2>1. \A i \in Kept \cup Gone : AmountsOf(rec)[i] \in Nat
    BY <1>4, <1>5, <1>7
  <2>2. QED
    BY <1>3, <1>4, <1>5, <2>1, SumUnion
<1>9. Sum(Kept, AmountsOf(Q)) = Sum(Kept, AmountsOf(rec))
  BY <1>6, SumAgrees
<1>10. Sum(Gone, AmountsOf(rec)) \in Nat
  <2>1. \A i \in Gone : AmountsOf(rec)[i] \in Nat
    BY <1>5, <1>7
  <2>2. QED
    BY <1>5, <2>1, SumType
<1>11. Sum(Entering(rec, e, sign), AmountsOf(rec))
         = Sum(Kept, AmountsOf(Q)) + Sum(Gone, AmountsOf(rec))
  BY <1>2, <1>8, <1>9, Zenon
<1>12. QED
  BY <1>10, <1>11 DEF Kept, Gone, Q

LEMMA SoftDeleteManyExplained ==
  ASSUME TypeOK, NEW S \in SUBSET {i \in Ids : ~Grouped(i)}, SoftDeleteMany(S)
  PROVE  Explains(Minus(LinkSum(Victims(S))))
<1> SUFFICES ASSUME NEW e \in Entities
             PROVE  Stored(e)' - Stored(e) = Minus(LinkSum(Victims(S)))[e]
  BY DEF Explains
<1> DEFINE T == S \cap Live
<1>1. /\ T \in SUBSET Ids /\ Victims(S) = T
      /\ \A i \in T : rec[i] \in Record /\ rec[i].group = None
  BY PlainVictims DEF Live
<1>2. rec' = Cleared(T) /\ pay' = pay
  BY <1>1 DEF SoftDeleteMany
<1>3. rec \in Rows /\ rec' \in Rows
  BY <1>2, ClearedType DEF TypeOK, Rows
<1> HIDE DEF T
<1> DEFINE In(sign) == Sum(Entering(rec, e, sign), AmountsOf(rec))
           Out(sign) == Sum(Entering(rec', e, sign), AmountsOf(rec'))
           Gone(sign) == Sum({i \in T : LinkSign(rec[i], e) = sign}, AmountsOf(rec))
<1>4. ASSUME NEW sign \in {-1, 1}
      PROVE  In(sign) = Out(sign) + Gone(sign) /\ Gone(sign) \in Nat
  <2>1. In(sign) = Sum(Entering(Cleared(T), e, sign), AmountsOf(Cleared(T)))
                     + Gone(sign) /\ Gone(sign) \in Nat
    BY <1>1, SignCleared
  <2>2. QED
    BY <1>2, <2>1, Zenon
<1>5. \A sign \in {-1, 1} : In(sign) \in Nat /\ Out(sign) \in Nat
  BY <1>3, EnteringSum
<1>6. /\ PostedBy(rec, e) = In(1) - In(-1)
      /\ PostedBy(rec', e) = Out(1) - Out(-1)
  BY DEF PostedBy
<1>7. LinkSum(T)[e] = Gone(1) - Gone(-1)
  BY DEF LinkSum
<1>8. LinkSum(T) \in Deltas
  BY <1>1, LinkSumType
<1>9. PaidBy(pay, e) \in Int
  BY StoredType
<1>10. /\ Stored(e)' = PostedBy(rec', e) + PaidBy(pay, e)
       /\ Stored(e) = PostedBy(rec, e) + PaidBy(pay, e)
  BY <1>2 DEF Stored
<1> HIDE DEF In, Out, Gone
<1>11. Stored(e)' - Stored(e) = -(Gone(1) - Gone(-1))
  BY <1>4, <1>5, <1>6, <1>9, <1>10
<1>12. Minus(LinkSum(T))[e] = -LinkSum(T)[e]
  BY <1>8, DeltaValues
<1>13. QED
  BY <1>1, <1>7, <1>11, <1>12

-----------------------------------------------------------------------------
(***************************************************************************)
(* Goal payments.                                                          *)
(***************************************************************************)
LEMMA PaidValue ==
  ASSUME NEW o \in Objectives, NEW amt \in Nat, NEW e \in Entities
  PROVE  PaidWorth([objective |-> o, amount |-> amt], e) = OnlyGoal(o, amt)[e]
<1>1. [objective |-> o, amount |-> amt] # None
  BY RowAssumption DEF Payment
<1>2. QED
  BY <1>1 DEF PaidWorth, OnlyGoal

LEMMA AddPaymentExplained ==
  ASSUME TypeOK, NEW p \in PayIds, NEW o \in Objectives, NEW amt \in Amounts,
         AddPayment(p, o, amt)
  PROVE  Explains(OnlyGoal(o, amt))
<1> SUFFICES ASSUME NEW e \in Entities
             PROVE  Stored(e)' - Stored(e) = OnlyGoal(o, amt)[e]
  BY DEF Explains
<1> DEFINE x == [objective |-> o, amount |-> amt]
<1>1. /\ amt \in Nat /\ pay' = [pay EXCEPT ![p] = x] /\ pay[p] = None
      /\ rec' = rec /\ x \in Payment /\ pay \in Payments
  BY LedgerAssumption DEF AddPayment, TypeOK, Payments, Payment
<1>2. PaidWorth(x, e) = OnlyGoal(o, amt)[e] /\ OnlyGoal(o, amt)[e] \in Int
  BY <1>1, PaidValue, GoalDelta DEF Deltas
<1> HIDE DEF x
<1>3. pay' \in Payments /\ pay'[p] = x /\ [pay' EXCEPT ![p] = None] = pay
  BY <1>1 DEF Payments
<1>4. PaidBy(pay', e) = PaidBy([pay' EXCEPT ![p] = None], e) + PaidWorth(pay'[p], e)
  BY <1>3, PaidDrop
<1>5. PaidBy(pay', e) = PaidBy(pay, e) + PaidWorth(x, e)
  BY <1>3, <1>4, Zenon
<1>6. PostedBy(rec, e) \in Int /\ PaidBy(pay, e) \in Int
  BY StoredType
<1>7. /\ Stored(e)' = PostedBy(rec, e) + PaidBy(pay', e)
      /\ Stored(e) = PostedBy(rec, e) + PaidBy(pay, e)
  BY <1>1 DEF Stored
<1>8. QED
  BY <1>2, <1>5, <1>6, <1>7

LEMMA RemovePaymentExplained ==
  ASSUME TypeOK, NEW p \in PayIds, RemovePayment(p)
  PROVE  Explains(OnlyGoal(pay[p].objective, -pay[p].amount))
<1> SUFFICES ASSUME NEW e \in Entities
             PROVE  Stored(e)' - Stored(e)
                      = OnlyGoal(pay[p].objective, -pay[p].amount)[e]
  BY DEF Explains
<1>1. /\ pay' = [pay EXCEPT ![p] = None] /\ pay[p] # None
      /\ rec' = rec /\ pay[p] \in Payment /\ pay \in Payments
  BY DEF RemovePayment, TypeOK, Payments
<1>2. pay[p].amount \in Nat
  BY <1>1 DEF Payment
<1>3. /\ OnlyGoal(pay[p].objective, -pay[p].amount)[e] = -PaidWorth(pay[p], e)
      /\ PaidWorth(pay[p], e) \in Int
  BY <1>1, <1>2 DEF PaidWorth, OnlyGoal
<1>4. PaidBy(pay, e) = PaidBy(pay', e) + PaidWorth(pay[p], e)
  <2>1. PaidBy(pay, e) = PaidBy([pay EXCEPT ![p] = None], e) + PaidWorth(pay[p], e)
    BY <1>1, PaidDrop
  <2>2. QED
    BY <1>1, <2>1, Zenon
<1>5. PaidBy(pay', e) \in Int
  <2>1. pay' \in Payments
    BY <1>1, PaidDrop
  <2>2. QED
    BY <2>1, IntoSum
<1>6. PostedBy(rec, e) \in Int /\ PaidBy(pay, e) \in Int
  BY StoredType
<1>7. /\ Stored(e)' = PostedBy(rec, e) + PaidBy(pay', e)
      /\ Stored(e) = PostedBy(rec, e) + PaidBy(pay, e)
  BY <1>1 DEF Stored
<1>8. QED
  BY <1>3, <1>4, <1>5, <1>6, <1>7

-----------------------------------------------------------------------------
(***************************************************************************)
(* The theorem.                                                            *)
(***************************************************************************)
\* The action of Conservation.
BooksKept ==
  \A e \in Entities \ closed :
    \/ bal'[e] - bal[e] = Stored(e)' - Stored(e)
    \/ \E v \in SetValues : SetBalance(e, v)
    \/ \E t \in Targets \cup {Keep}, b \in SetValues \cap Nat,
          c \in BOOLEAN \cup {Keep} : UpdateObjective(e, t, b, c)

\* A posting that the change of the rows explains keeps the books.
LEMMA ExplainedKept ==
  ASSUME TypeOK, NEW v, Posts(v), Explains(v)
  PROVE  BooksKept
<1> SUFFICES ASSUME NEW e \in Entities \ closed
             PROVE  bal'[e] - bal[e] = Stored(e)' - Stored(e)
  BY DEF BooksKept
<1>1. bal'[e] = bal[e] + v[e] /\ v[e] \in Int /\ bal[e] \in Int
  BY DEF Posts, Booked, Deltas, TypeOK
<1>2. Stored(e)' - Stored(e) = v[e]
  BY DEF Explains
<1>3. QED
  BY <1>1, <1>2

\* Where neither the rows nor the balance change there is nothing to explain.
LEMMA StillBalanced ==
  ASSUME TypeOK, rec' = rec, pay' = pay, NEW e \in Entities, bal'[e] = bal[e]
  PROVE  bal'[e] - bal[e] = Stored(e)' - Stored(e)
<1>1. Stored(e)' = Stored(e)
  BY DEF Stored
<1>2. Stored(e) \in Int /\ bal[e] \in Int
  BY StoredType DEF TypeOK
<1>3. QED
  BY <1>1, <1>2

LEMMA RecordKept ==
  ASSUME TypeOK, RecordNext
  PROVE  BooksKept
<1>1. ASSUME NEW i \in Ids, NEW d \in Draft, Create(i, d)
      PROVE  BooksKept
  BY <1>1, CreatePosts, CreateExplained, ExplainedKept
<1>2. ASSUME NEW i \in Ids, NEW j \in Ids, NEW d \in Draft, NEW c \in Draft,
             CreateMany(i, j, d, c)
      PROVE  BooksKept
  BY <1>2, CreateManyPosts, CreateManyExplained, ExplainedKept
<1>3. ASSUME NEW i \in Ids, NEW j \in Ids, NEW amt \in Amounts \cup {Keep},
             Clone(i, j, amt)
      PROVE  BooksKept
  BY <1>3, ClonePosts, CloneExplained, ExplainedKept
<1>4. ASSUME NEW i \in Ids, SoftDelete(i)
      PROVE  BooksKept
  <2>1. CASE ~Grouped(i)
    BY <1>4, <2>1, SoftDeletePlainPosts, SoftDeletePlainExplained, ExplainedKept
  <2>2. CASE Grouped(i)
    <3>1. PICK f \in Ids, s \in Ids : SoftDeleteTransfer(i, f, s)
      BY <1>4, <2>2, LegsAreRows DEF SoftDelete
    <3>2. QED
      BY <2>2, <3>1, SoftDeleteTransferPosts, SoftDeleteTransferExplained,
         ExplainedKept
  <2>3. QED
    BY <2>1, <2>2
<1>5. QED
  BY <1>1, <1>2, <1>3, <1>4 DEF RecordNext

LEMMA TransferKept ==
  ASSUME TypeOK, TransferNext
  PROVE  BooksKept
<1>1. ASSUME NEW i \in Ids, NEW j \in Ids, NEW src \in Accounts,
             NEW dst \in Accounts \cup Liabilities, NEW amt \in PositiveAmounts,
             NEW obj \in Objectives \cup {None},
             CreateTransfer(i, j, src, dst, amt, obj)
      PROVE  BooksKept
  BY <1>1, CreateTransferPosts, CreateTransferExplained, ExplainedKept
<1>2. ASSUME NEW i \in Ids, NEW f \in Ids, NEW s \in Ids, NEW k \in Ids, NEW l \in Ids,
             NEW amt \in PositiveAmounts \cup {Keep}, CloneTransfer(i, f, s, k, l, amt)
      PROVE  BooksKept
  BY <1>2, CloneTransferPosts, CloneTransferExplained, ExplainedKept
<1>3. QED
  BY <1>1, <1>2, LegsAreRows DEF TransferNext

LEMMA EntityKept ==
  ASSUME TypeOK, EntityNext
  PROVE  BooksKept
<1>1. ASSUME NEW p \in PayIds, NEW o \in Objectives, NEW amt \in Amounts,
             AddPayment(p, o, amt)
      PROVE  BooksKept
  BY <1>1, AddPaymentPosts, AddPaymentExplained, ExplainedKept
<1>2. ASSUME NEW p \in PayIds, RemovePayment(p)
      PROVE  BooksKept
  BY <1>2, RemovePaymentPosts, RemovePaymentExplained, ExplainedKept
<1>3. ASSUME NEW x \in Patrimony, NEW v \in SetValues, SetBalance(x, v)
      PROVE  BooksKept
  <2>1. \A e \in Entities : e # x => bal'[e] = bal[e]
    BY <1>3 DEF SetBalance, TypeOK
  <2>2. rec' = rec /\ pay' = pay
    BY <1>3 DEF SetBalance
  <2>3. \A e \in Entities \ closed : e # x => bal'[e] - bal[e] = Stored(e)' - Stored(e)
    BY <2>1, <2>2, StillBalanced
  <2>4. QED
    BY <1>3, <2>3 DEF BooksKept
<1>4. ASSUME NEW o \in Objectives, NEW t \in Targets \cup {Keep},
             NEW b \in (SetValues \cap Nat) \cup {Keep}, NEW c \in BOOLEAN \cup {Keep},
             UpdateObjective(o, t, b, c)
      PROVE  BooksKept
  <2>1. \A e \in Entities : e # o \/ b = Keep => bal'[e] = bal[e]
    BY <1>4 DEF UpdateObjective, TypeOK
  <2>2. rec' = rec /\ pay' = pay
    BY <1>4 DEF UpdateObjective
  <2>3. \A e \in Entities \ closed :
          e # o \/ b = Keep => bal'[e] - bal[e] = Stored(e)' - Stored(e)
    BY <2>1, <2>2, StillBalanced
  <2>4. CASE b = Keep
    BY <2>3, <2>4 DEF BooksKept
  <2>5. CASE b # Keep
    BY <1>4, <2>3, <2>5 DEF BooksKept
  <2>6. QED
    BY <2>4, <2>5
<1>5. ASSUME NEW x \in Entities, CloseEntity(x)
      PROVE  BooksKept
  <2>1. rec' = rec /\ pay' = pay /\ bal' = bal
    BY <1>5 DEF CloseEntity
  <2>2. \A e \in Entities \ closed : bal'[e] - bal[e] = Stored(e)' - Stored(e)
    BY <2>1, StillBalanced
  <2>3. QED
    BY <2>2 DEF BooksKept
<1>6. QED
  BY <1>1, <1>2, <1>3, <1>4, <1>5 DEF EntityNext

LEMMA OwnKept ==
  ASSUME TypeOK, OwnEndpoint
  PROVE  BooksKept
<1>1. ASSUME NEW i \in Ids, NEW d \in Draft, ~Grouped(i), Update(i, d)
      PROVE  BooksKept
  BY <1>1, UpdatePosts, UpdateExplained, ExplainedKept
<1>2. ASSUME NEW S \in SUBSET {i \in Ids : ~Grouped(i)}, SoftDeleteMany(S)
      PROVE  BooksKept
  <2>1. S \in SUBSET Ids
    OBVIOUS
  <2>2. QED
    BY <1>2, <2>1, SoftDeleteManyPosts, SoftDeleteManyExplained, ExplainedKept
<1>3. ASSUME NEW i \in Ids, NEW f \in Ids, NEW s \in Ids,
             NEW amt \in PositiveAmounts \cup {Keep},
             NEW obj \in Objectives \cup {None, Keep},
             Grouped(i), UpdateTransfer(i, f, s, amt, obj)
      PROVE  BooksKept
  BY <1>3, UpdateTransferPosts, UpdateTransferExplained, ExplainedKept
<1>4. QED
  BY <1>1, <1>2, <1>3, LegsAreRows DEF OwnEndpoint

\* CarefulSpec keeps the types too: each of its steps is a step of Spec.
LEMMA CarefulIsNext == CarefulNext => Next
<1>1. OwnEndpoint => AnyEndpoint
  <2>1. ASSUME NEW S \in SUBSET {i \in Ids : ~Grouped(i)}
        PROVE  S \in SUBSET Ids
    OBVIOUS
  <2>2. QED
    BY <2>1 DEF OwnEndpoint, AnyEndpoint
<1>2. QED
  BY <1>1 DEF CarefulNext, Next

\* When plain movements are edited and bulk-deleted as such and transfers as
\* transfers, every request moves every open balance by exactly what it changes
\* in the sum of the movements and payments stored for it
\* (applyLinkAdjustments, applyTransferAdjustment).
THEOREM BooksBalance == CarefulSpec => Conservation
<1>1. TypeOK /\ [CarefulNext]_vars => TypeOK'
  BY CarefulIsNext, StepCases
<1>2. TypeOK /\ [CarefulNext]_vars => BooksKept
  <2>1. ASSUME TypeOK, CarefulNext
        PROVE  BooksKept
    BY <2>1, RecordKept, TransferKept, EntityKept, OwnKept DEF CarefulNext
  <2>2. ASSUME TypeOK, UNCHANGED vars
        PROVE  BooksKept
    <3>1. rec' = rec /\ pay' = pay /\ bal' = bal
      BY <2>2 DEF vars
    <3>2. \A e \in Entities \ closed : bal'[e] - bal[e] = Stored(e)' - Stored(e)
      BY <2>2, <3>1, StillBalanced
    <3>3. QED
      BY <3>2 DEF BooksKept
  <2>3. QED
    BY <2>1, <2>2
<1>3. CarefulSpec => [][BooksKept]_vars
  BY InitTypes, <1>1, <1>2, PTL DEF CarefulSpec
<1>4. QED
  BY <1>3 DEF Conservation, BooksKept

-----------------------------------------------------------------------------
(***************************************************************************)
(* The amounts of the two legs of a transfer.  A new group shares its name *)
(* with no row that is stored (PairsInv), and PATCH of a transfer writes   *)
(* to all of its legs.                                                     *)
(***************************************************************************)
\* A step that writes to no leg.
LEMMA OtherLegsAgree ==
  ASSUME LegsAgree, \A k \in Ids : Grouped(k)' => rec'[k] = rec[k]
  PROVE  LegsAgree'
BY DEF LegsAgree, Grouped

LEMMA RecordLegsAgree ==
  ASSUME TypeOK, PairsInv, LegsAgree, RecordNext
  PROVE  LegsAgree'
<1>1. ASSUME NEW i \in Ids, NEW d \in Draft, Create(i, d)
      PROVE  LegsAgree'
  <2>1. rec' = [rec EXCEPT ![i] = PlainRow(d)]
    BY <1>1 DEF Create
  <2>2. \A k \in Ids : Grouped(k)' => rec'[k] = rec[k]
    BY <2>1 DEF TypeOK, PlainRow, Grouped
  <2>3. QED
    BY <2>2, OtherLegsAgree
<1>2. ASSUME NEW i \in Ids, NEW j \in Ids, NEW d \in Draft, NEW e \in Draft,
             CreateMany(i, j, d, e)
      PROVE  LegsAgree'
  <2>1. rec' = [rec EXCEPT ![i] = PlainRow(d), ![j] = PlainRow(e)]
    BY <1>2 DEF CreateMany
  <2>2. \A k \in Ids : Grouped(k)' => rec'[k] = rec[k]
    BY <2>1 DEF TypeOK, PlainRow, Grouped
  <2>3. QED
    BY <2>2, OtherLegsAgree
<1>3. ASSUME NEW i \in Ids, NEW j \in Ids, NEW amt \in Amounts \cup {Keep}, Clone(i, j, amt)
      PROVE  LegsAgree'
  <2> DEFINE copy == [rec[i] EXCEPT !.amount = IF amt = Keep THEN @ ELSE amt]
  <2>1. rec' = [rec EXCEPT ![j] = copy] /\ rec[i] # None /\ ~Grouped(i)
    BY <1>3 DEF Clone
  <2>2. rec[i] \in Record /\ rec[i].group = None
    BY <2>1 DEF TypeOK, Grouped
  <2>3. copy.group = None
    BY <2>2 DEF Record
  <2> HIDE DEF copy
  <2>4. \A k \in Ids : Grouped(k)' => rec'[k] = rec[k]
    BY <2>1, <2>3 DEF TypeOK, Grouped
  <2>5. QED
    BY <2>4, OtherLegsAgree
<1>4. ASSUME NEW S \in SUBSET Ids, rec' = Cleared(S)
      PROVE  LegsAgree'
  <2>1. \A k \in Ids : Grouped(k)' => rec'[k] = rec[k]
    BY <1>4 DEF Cleared, Grouped
  <2>2. QED
    BY <2>1, OtherLegsAgree
<1>5. ASSUME NEW i \in Ids, SoftDelete(i)
      PROVE  LegsAgree'
  <2>1. CASE rec' = Cleared({i})
    BY <1>4, <2>1, {i} \in SUBSET Ids
  <2>2. CASE \E f, s \in Legs(i) : SoftDeleteTransfer(i, f, s)
    <3>1. PICK f \in Ids, s \in Ids : rec' = Cleared({f, s})
      BY <2>2, LegsAreRows DEF SoftDeleteTransfer
    <3>2. QED
      BY <1>4, <3>1, {f, s} \in SUBSET Ids
  <2>3. QED
    BY <1>5, <2>1, <2>2 DEF SoftDelete
<1>6. QED
  BY <1>1, <1>2, <1>3, <1>5 DEF RecordNext

\* Rows k and l are new, of one group and one amount.
LEMMA NewLegsAgree ==
  ASSUME PairsInv, LegsAgree, NEW k \in Ids, NEW l \in Ids, rec[k] = None,
         \A n \in Ids \ {k, l} : rec'[n] = rec[n],
         rec'[k].group = k, rec'[l].group = k, rec'[k].amount = rec'[l].amount
  PROVE  LegsAgree'
<1>1. \A n \in Ids : Grouped(n) => rec[n].group # k
  BY DEF PairsInv, InGroup
<1>2. QED
  BY <1>1 DEF LegsAgree, Grouped

LEMMA TransferLegsAgree ==
  ASSUME TypeOK, PairsInv, LegsAgree, TransferNext
  PROVE  LegsAgree'
<1>1. ASSUME NEW i \in Ids, NEW j \in Ids, NEW src \in Accounts,
             NEW dst \in Accounts \cup Liabilities, NEW amt \in PositiveAmounts,
             NEW obj \in Objectives \cup {None}, CreateTransfer(i, j, src, dst, amt, obj)
      PROVE  LegsAgree'
  <2> DEFINE o == OriginLeg(amt, src, i)
             d == CreditLeg(amt, dst, obj, i)
  <2>1. i # j /\ rec[i] = None
    BY <1>1 DEF CreateTransfer, Unused
  <2>2. rec' = [rec EXCEPT ![i] = o, ![j] = d]
    BY <1>1, CreateTransferPosts
  <2>3. o.group = i /\ d.group = i /\ o.amount = amt /\ d.amount = amt
    BY DEF OriginLeg, CreditLeg, Leg
  <2> HIDE DEF o, d
  <2>4. rec'[i] = o /\ rec'[j] = d /\ \A n \in Ids \ {i, j} : rec'[n] = rec[n]
    BY <2>1, <2>2 DEF TypeOK
  <2>5. QED
    BY <2>1, <2>3, <2>4, NewLegsAgree
<1>2. ASSUME NEW i \in Ids, NEW f \in Ids, NEW s \in Ids, NEW k \in Ids, NEW l \in Ids,
             NEW amt \in PositiveAmounts \cup {Keep}, CloneTransfer(i, f, s, k, l, amt)
      PROVE  LegsAgree'
  <2>1. /\ rec[k] = None /\ (k = l <=> f = s)
        /\ rec'[k] = CopiedLeg(rec[f], Paying(f, amt), k)
        /\ l # k => rec'[l] = CopiedSecond(f, s, amt, k)
        /\ \A n \in Ids \ {k, l} : rec'[n] = rec[n]
    <3>1. rec[k] = None /\ (k = l <=> f = s)
      BY <1>2 DEF CloneTransfer, Unused
    <3>2. QED
      BY SMTT(60), <1>2, <3>1, CloneTransferPosts
  <2>2. rec'[l] = CopiedLeg(rec[IF k = l THEN f ELSE s], Paying(f, amt), k)
    BY <2>1 DEF CopiedSecond
  <2>3. \A r : /\ CopiedLeg(r, Paying(f, amt), k).group = k
               /\ CopiedLeg(r, Paying(f, amt), k).amount = Paying(f, amt)
    BY DEF CopiedLeg, Leg
  <2>4. QED
    BY <2>1, <2>2, <2>3, NewLegsAgree
<1>3. QED
  BY <1>1, <1>2, LegsAreRows DEF TransferNext

LEMMA OwnLegsAgree ==
  ASSUME TypeOK, PairsInv, LegsAgree, OwnEndpoint
  PROVE  LegsAgree'
<1>1. ASSUME NEW i \in Ids, NEW d \in Draft, ~Grouped(i), Update(i, d)
      PROVE  LegsAgree'
  <2>1. rec' = [rec EXCEPT ![i] = Merged(rec[i], d)] /\ rec[i] \in Record /\ rec[i].group = None
    BY <1>1 DEF Update, TypeOK, Grouped
  <2>2. Merged(rec[i], d).group = None
    BY <2>1 DEF Merged, Record
  <2>3. \A k \in Ids : Grouped(k)' => rec'[k] = rec[k]
    BY <2>1, <2>2 DEF TypeOK, Grouped
  <2>4. QED
    BY <2>3, OtherLegsAgree
<1>2. ASSUME NEW S \in SUBSET Ids, SoftDeleteMany(S)
      PROVE  LegsAgree'
  <2>1. \A k \in Ids : Grouped(k)' => rec'[k] = rec[k]
    BY <1>2 DEF SoftDeleteMany, Cleared, Grouped
  <2>2. QED
    BY <2>1, OtherLegsAgree
<1>3. ASSUME NEW i \in Ids, NEW f \in Ids, NEW s \in Ids, Grouped(i),
             NEW amt \in PositiveAmounts \cup {Keep},
             NEW obj \in Objectives \cup {None, Keep}, UpdateTransfer(i, f, s, amt, obj)
      PROVE  LegsAgree'
  <2>1. /\ rec[f] \in Record /\ rec[s] \in Record /\ Legs(i) = {f, s}
        /\ rec'[f] = Amended(rec[f], amt, obj)
        /\ rec'[s] = Amended(rec[s], amt, obj)
        /\ \A k \in Ids \ {f, s} : rec'[k] = rec[k]
    BY <1>3, SecondType, LegsLive DEF UpdateTransfer, InOrder
  <2>2. \A r \in Record :
          /\ Amended(r, amt, obj).group = r.group
          /\ Amended(r, amt, obj).amount = IF amt = Keep THEN r.amount ELSE amt
    BY DEF Amended, Record
  <2>3. \A k \in Ids : k \in {f, s} <=> Grouped(k) /\ rec[k].group = rec[i].group
    BY <1>3, <2>1 DEF Legs, Live, Grouped
  <2>4. \A k \in Ids : Grouped(k)' => Grouped(k) /\ rec'[k].group = rec[k].group
    BY <2>1, <2>2, <2>3 DEF Grouped
  <2>5. rec[f].amount = rec[s].amount
    BY <2>3 DEF LegsAgree
  <2>6. ASSUME NEW m \in Ids, NEW n \in Ids, Grouped(m)', Grouped(n)',
               rec'[m].group = rec'[n].group
        PROVE  rec'[m].amount = rec'[n].amount
    <3>1. Grouped(m) /\ Grouped(n) /\ rec[m].group = rec[n].group
      BY <2>4, <2>6
    <3>2. m \in {f, s} <=> n \in {f, s}
      BY <2>3, <3>1
    <3>3. CASE m \in {f, s}
      BY <2>1, <2>2, <2>5, <3>2, <3>3
    <3>4. CASE m \notin {f, s}
      BY <2>1, <3>1, <3>2, <3>4 DEF LegsAgree
    <3>5. QED
      BY <3>3, <3>4
  <2>7. QED
    BY <2>6 DEF LegsAgree
<1>4. QED
  BY <1>1, <1>2, <1>3, LegsAreRows DEF OwnEndpoint

\* When each row is changed through the endpoint of its kind, the two legs of a transfer
\* always carry the same amount.
THEOREM LegsStayEqual == CarefulSpec => []LegsAgree
<1>1. Init => TypeOK /\ PairsInv /\ LegsAgree
  BY InitTypes DEF Init, PairsInv, LegsAgree, Grouped, InGroup
<1>2. TypeOK /\ PairsInv /\ LegsAgree /\ [CarefulNext]_vars => (TypeOK /\ PairsInv /\ LegsAgree)'
  <2> SUFFICES ASSUME TypeOK, PairsInv, LegsAgree, [CarefulNext]_vars
               PROVE  (TypeOK /\ PairsInv /\ LegsAgree)'
    OBVIOUS
  <2>1. TypeOK' /\ PairsInv'
    BY CarefulIsNext, StepCases, PairsStep
  <2>2. CASE EntityNext \/ UNCHANGED vars
    <3>1. rec' = rec
      BY <2>2 DEF vars, EntityNext, AddPayment, RemovePayment, SetBalance,
                  UpdateObjective, CloseEntity
    <3>2. QED
      BY <2>1, <3>1, OtherLegsAgree
  <2>3. QED
    BY <2>1, <2>2, RecordLegsAgree, TransferLegsAgree, OwnLegsAgree DEF CarefulNext
<1>3. QED
  BY <1>1, <1>2, PTL DEF CarefulSpec
=============================================================================

--------------------------- MODULE LedgerTxProofs ---------------------------
(***************************************************************************)
(* Under any interleaving of any number of requests every variable of      *)
(* LedgerTx keeps its type, no account is overdrawn, and the legs of a     *)
(* transfer stay together and carry the same amount.  A request that read  *)
(* nothing another one has changed since commits what one of the serial    *)
(* requests of Ledger does, so its balances follow its movements; and      *)
(* requests that touch different rows implement the serial specification.  *)
(***************************************************************************)
EXTENDS LedgerTx, MoneyProofs

\* The statements a plan may hold: a removal names a row that exists, a PATCH
\* does not carry an overdrawn account.
Runnable ==
  {s \in Statements :
     /\ s.op = "remove" => rec[s.id] # None
     /\ s.op = "patch" /\ s.entity \in Accounts => s.value >= 0}

Adjustments == {s \in Statements : s.op = "adjust"}

\* What a SELECT returned belongs to the statement in progress.
Selected ==
  \A w \in Workers : saw[w] # None =>
    \/ Doing(w, "save") /\ saw[w] \in Version /\ RowSeen(w, Now(w).id) # None
    \/ Doing(w, "adjust") /\ saw[w] \in [balance: Int]

\* Neither a committed account nor one about to be committed is overdrawn.
Solvent ==
  /\ NeverOverdrawn
  /\ \A w \in Workers : \A a \in Accounts \cap DOMAIN bals[w] : bals[w][a] >= 0

IInv ==
  /\ TypeOK
  /\ plan \in [Workers -> Seq(Runnable)]
  /\ Selected
  /\ Solvent

-----------------------------------------------------------------------------
(***************************************************************************)
(* The rows and the statements that requests are made of.                  *)
(***************************************************************************)
LEMMA PlainRowType ==
  ASSUME NEW d \in Draft
  PROVE  L!PlainRow(d) \in L!Record
  BY LedgerTxAssumption
  DEF Draft, L!PlainRow, L!Record, L!TxTypes, L!Patrimony, Amounts, Entities

LEMMA MergedType ==
  ASSUME NEW r \in L!Record, NEW d \in Draft
  PROVE  L!Merged(r, d) \in L!Record
  BY LedgerTxAssumption
  DEF Draft, L!Merged, L!Record, L!TxTypes, L!Patrimony, Amounts, Entities

LEMMA LiveRowType ==
  ASSUME TypeOK, NEW i \in Ids, LiveRows[i] # None
  PROVE  LiveRows[i] \in L!Record /\ rec[i] # None
  BY DEF TypeOK, LiveRows, Version

LEMMA NoLegType == L!NoLeg \in L!Record
  BY DEF L!NoLeg, L!Leg, L!Record, L!TxTypes

LEMMA OwnType ==
  ASSUME NEW r \in L!Record
  PROVE  Own(r) \in Int
  <1>1. r.amount \in Int
    BY DEF L!Record
  <1>2. L!LinkSign(r, r.patrimony) \in {-1, 0, 1}
    BY DEF L!LinkSign
  <1> QED
    BY <1>1, <1>2 DEF Own

LEMMA AdjustmentsRun == Seq(Adjustments) \subseteq Seq(Runnable)
  <1>1. Adjustments \subseteq Runnable
    BY DEF Adjustments, Runnable
  <1> QED
    BY <1>1

LEMMA NudgeType ==
  ASSUME NEW e \in Entities \cup {None}, NEW n \in Int
  PROVE  Nudge(e, n) \in Seq(Adjustments)
  <1>1. CASE e = None \/ n = 0
    BY <1>1 DEF Nudge
  <1>2. CASE e \in Entities /\ ~(e = None \/ n = 0)
    <2>1. Adjust(e, n) \in Adjustments
      BY <1>2 DEF Adjust, Adjustments, Statements
    <2> QED
      BY <1>2, <2>1 DEF Nudge
  <1> QED
    BY <1>1, <1>2

LEMMA LinkMovesType ==
  ASSUME NEW old \in L!Record, NEW new \in L!Record
  PROVE  LinkMoves(old, new) \in Seq(Adjustments)
  <1>1. Own(old) \in Int /\ Own(new) \in Int
    BY OwnType
  <1>2. old.patrimony \in Entities \cup {None} /\ new.patrimony \in Entities \cup {None}
    BY DEF L!Record, L!Patrimony, Entities
  <1>3. Own(new) - Own(old) \in Int /\ -Own(old) \in Int
    BY <1>1
  <1>4. Nudge(new.patrimony, Own(new) - Own(old)) \in Seq(Adjustments)
    BY <1>2, <1>3, NudgeType
  <1>5. Nudge(old.patrimony, -Own(old)) \in Seq(Adjustments)
    BY <1>2, <1>3, NudgeType
  <1>6. Nudge(new.patrimony, Own(new)) \in Seq(Adjustments)
    BY <1>1, <1>2, NudgeType
  <1> QED
    BY <1>4, <1>5, <1>6 DEF LinkMoves

LEMMA LegMovesType ==
  ASSUME NEW r \in L!Record, NEW sign \in {1, -1}
  PROVE  LegMoves(r, sign) \in Seq(Adjustments)
  <1>1. /\ r.origin \in Entities \cup {None} /\ r.dest \in Entities \cup {None}
        /\ r.patrimony \in Entities \cup {None}
        /\ r.amount \in Int
    BY DEF L!Record, L!Patrimony, Entities
  <1>2. r.amount * sign \in Int /\ -r.amount * sign \in Int
    BY <1>1
  <1>3. Nudge(r.origin, -r.amount * sign) \in Seq(Adjustments)
    BY <1>1, <1>2, NudgeType
  <1>4. Nudge(r.dest, r.amount * sign) \in Seq(Adjustments)
    BY <1>1, <1>2, NudgeType
  <1>5. Nudge(r.patrimony, -r.amount * sign) \in Seq(Adjustments)
    BY <1>1, <1>2, NudgeType
  <1> QED
    BY <1>3, <1>4, <1>5 DEF LegMoves

LEMMA SaveType ==
  ASSUME NEW i \in Ids, NEW r \in L!Record
  PROVE  <<Save(i, r)>> \in Seq(Runnable)
  <1>1. Save(i, r) \in Runnable
    BY DEF Save, Runnable, Statements
  <1> QED
    BY <1>1

LEMMA RemoveType ==
  ASSUME NEW i \in Ids, rec[i] # None
  PROVE  <<Remove(i)>> \in Seq(Runnable)
  <1>1. Remove(i) \in Runnable
    BY DEF Remove, Runnable, Statements
  <1> QED
    BY <1>1

LEMMA FinishType == <<Finish>> \in Seq(Runnable)
  <1>1. Finish \in Runnable
    BY DEF Finish, Runnable, Statements
  <1> QED
    BY <1>1

LEMMA PatchType ==
  ASSUME NEW e \in Entities, NEW v \in Int, NEW b \in BOOLEAN,
         e \in Accounts => v >= 0
  PROVE  <<Patch(e, v, b)>> \in Seq(Runnable)
  <1>1. Patch(e, v, b) \in Runnable
    BY DEF Patch, Runnable, Statements
  <1> QED
    BY <1>1
-----------------------------------------------------------------------------
(***************************************************************************)
(* Requests.                                                               *)
(***************************************************************************)
\* A request whose plan is runnable keeps the invariant when it begins.
LEMMA BeginKeeps ==
  ASSUME IInv, NEW w \in Workers, NEW ss \in Seq(Runnable),
         NEW loaded \in SUBSET (Ids \cup Entities), Begin(w, ss, loaded)
  PROVE  IInv'
  <1>1. Runnable' = Runnable
    BY DEF Begin, Runnable
  <1>2. Runnable \subseteq Statements
    BY DEF Runnable
  <1>3. plan' \in [Workers -> Seq(Runnable)]
    BY DEF Begin, IInv
  <1>4. plan' \in [Workers -> Seq(Statements)]
    BY <1>2, <1>3
  <1>5. TypeOK'
    BY <1>4 DEF TypeOK, Begin, IInv
  <1>6. saw[w] = None
    BY DEF IInv, Selected, Begin, Idle, Doing
  <1>7. Selected'
    BY <1>6 DEF Selected, IInv, Begin, Doing, Idle, Now, RowSeen, TypeOK
  <1>8. Solvent'
    BY DEF Solvent, NeverOverdrawn, IInv, Begin
  <1> QED
    BY <1>1, <1>3, <1>5, <1>7, <1>8 DEF IInv

LEMMA MovementKeeps ==
  ASSUME IInv, NEW w \in Workers, Movement(w)
  PROVE  IInv'
  <1>1. ASSUME NEW i \in Ids, NEW d \in Draft, Create(w, i, d)
        PROVE  IInv'
    <2> DEFINE new == L!PlainRow(d)
    <2>1. new \in L!Record
      BY PlainRowType
    <2>2. Begin(w, <<Save(i, new)>> \o LinkMoves(L!NoLeg, new) \o <<Finish>>, {})
      BY <1>1 DEF Create
    <2> HIDE DEF new
    <2>3. <<Save(i, new)>> \in Seq(Runnable) /\ LinkMoves(L!NoLeg, new) \in Seq(Runnable)
      BY <2>1, SaveType, NoLegType, LinkMovesType, AdjustmentsRun
    <2>4. <<Save(i, new)>> \o LinkMoves(L!NoLeg, new) \o <<Finish>> \in Seq(Runnable)
      BY <2>3, FinishType
    <2>5. {} \in SUBSET (Ids \cup Entities)
      OBVIOUS
    <2> QED
      BY <2>2, <2>4, <2>5, BeginKeeps
  <1>2. ASSUME NEW i \in Ids, NEW d \in Draft, Update(w, i, d)
        PROVE  IInv'
    <2> DEFINE new == L!Merged(LiveRows[i], d)
    <2>1. LiveRows[i] \in L!Record
      BY <1>2, LiveRowType DEF Update, IInv
    <2>2. new \in L!Record
      BY <2>1, MergedType
    <2>3. Begin(w, <<Save(i, new)>> \o LinkMoves(LiveRows[i], new) \o <<Finish>>, {i})
      BY <1>2 DEF Update
    <2> HIDE DEF new
    <2>4. <<Save(i, new)>> \in Seq(Runnable) /\ LinkMoves(LiveRows[i], new) \in Seq(Runnable)
      BY <2>1, <2>2, SaveType, LinkMovesType, AdjustmentsRun
    <2>5. <<Save(i, new)>> \o LinkMoves(LiveRows[i], new) \o <<Finish>> \in Seq(Runnable)
      BY <2>4, FinishType
    <2> QED
      BY <2>3, <2>5, BeginKeeps
  <1>3. ASSUME NEW i \in Ids, SoftDelete(w, i)
        PROVE  IInv'
    <2>1. LiveRows[i] \in L!Record /\ rec[i] # None
      BY <1>3, LiveRowType DEF SoftDelete, IInv
    <2>2. <<Remove(i)>> \in Seq(Runnable) /\ LinkMoves(LiveRows[i], L!NoLeg) \in Seq(Runnable)
      BY <2>1, RemoveType, NoLegType, LinkMovesType, AdjustmentsRun
    <2>3. <<Remove(i)>> \o LinkMoves(LiveRows[i], L!NoLeg) \o <<Finish>> \in Seq(Runnable)
      BY <2>2, FinishType
    <2> QED
      BY <1>3, <2>3, BeginKeeps DEF SoftDelete
  <1> QED
    BY <1>1, <1>2, <1>3 DEF Movement
\* The legs of a live row are live rows.
LEMMA LegsLive ==
  ASSUME TypeOK, NEW i \in Ids, L!Grouped(i), NEW f \in L!Legs(i)
  PROVE  f \in Ids /\ LiveRows[f] \in L!Record /\ rec[f] # None
  <1>1. f \in Ids /\ LiveRows[f] # None
    BY DEF L!Legs, L!Live
  <1> QED
    BY <1>1, LiveRowType

LEMMA TransferKeeps ==
  ASSUME IInv, NEW w \in Workers, Transfer(w)
  PROVE  IInv'
  <1> USE DEF IInv
  <1>1. ASSUME NEW i \in Ids, NEW j \in Ids, NEW src \in Accounts,
               NEW dst \in Entities, NEW amt \in TransferAmounts,
               CreateTransfer(w, i, j, src, dst, amt)
        PROVE  IInv'
    <2> DEFINE o == L!Leg(amt, src, None, None, None, i)
               d == IF dst \in Accounts THEN L!Leg(amt, None, dst, None, None, i)
                                        ELSE L!Leg(amt, None, None, dst, None, i)
               ss == <<Save(i, o), Save(j, d)>> \o LegMoves(o, 1) \o LegMoves(d, 1)
                       \o <<Finish>>
    <2>1. amt \in Nat
      BY LedgerTxAssumption DEF Amounts
    <2>2. o \in L!Record
      BY <2>1 DEF L!Leg, L!Record, L!TxTypes, L!Patrimony
    <2>3. d \in L!Record
      BY <2>1 DEF L!Leg, L!Record, L!TxTypes, L!Patrimony, Entities
    <2>4. Begin(w, ss, {})
      BY <1>1 DEF CreateTransfer
    <2> HIDE DEF o, d
    <2>5. <<Save(i, o)>> \in Seq(Runnable) /\ <<Save(j, d)>> \in Seq(Runnable)
      BY <2>2, <2>3, SaveType
    <2>6. LegMoves(o, 1) \in Seq(Runnable) /\ LegMoves(d, 1) \in Seq(Runnable)
      BY <2>2, <2>3, LegMovesType, AdjustmentsRun
    <2>7. <<Save(i, o), Save(j, d)>> \in Seq(Runnable)
      BY <2>5
    <2>8. ss \in Seq(Runnable)
      BY <2>6, <2>7, FinishType
    <2> HIDE DEF ss
    <2> QED
      BY <2>4, <2>8, BeginKeeps
  <1>2. ASSUME NEW i \in Ids, NEW f \in L!Legs(i), NEW s \in L!Legs(i),
               NEW amt \in TransferAmounts, UpdateTransfer(w, i, f, s, amt)
        PROVE  IInv'
    <2> DEFINE Amend(k) == [LiveRows[k] EXCEPT !.amount = amt]
               Revert(k) == LegMoves(LiveRows[k], -1)
               Apply(k) == <<Save(k, Amend(k))>> \o LegMoves(Amend(k), 1)
               ss == ForLegs(f, s, Revert) \o ForLegs(f, s, Apply) \o <<Finish>>
    <2>1. L!Grouped(i)
      BY <1>2 DEF UpdateTransfer
    <2>2. ASSUME NEW k \in {f, s}
          PROVE  Revert(k) \in Seq(Runnable) /\ Apply(k) \in Seq(Runnable) /\ k \in Ids
      <3>1. k \in Ids /\ LiveRows[k] \in L!Record
        BY <2>1, LegsLive
      <3>2. Amend(k) \in L!Record
        BY <3>1, LedgerTxAssumption DEF L!Record, Amounts
      <3> HIDE DEF Amend
      <3>3. LegMoves(LiveRows[k], -1) \in Seq(Runnable)
        BY <3>1, LegMovesType, AdjustmentsRun
      <3>4. LegMoves(Amend(k), 1) \in Seq(Runnable) /\ <<Save(k, Amend(k))>> \in Seq(Runnable)
        BY <3>1, <3>2, LegMovesType, SaveType, AdjustmentsRun
      <3> QED
        BY <3>1, <3>3, <3>4
    <2>3. Begin(w, ss, {f, s})
      BY <1>2 DEF UpdateTransfer
    <2> HIDE DEF Revert, Apply
    <2>4. ForLegs(f, s, Revert) \in Seq(Runnable)
      BY <2>2 DEF ForLegs
    <2>5. ForLegs(f, s, Apply) \in Seq(Runnable)
      BY <2>2 DEF ForLegs
    <2>6. ss \in Seq(Runnable)
      BY <2>4, <2>5, FinishType
    <2>7. {f, s} \in SUBSET (Ids \cup Entities)
      BY <2>2
    <2> HIDE DEF ss
    <2> QED
      BY <2>3, <2>6, <2>7, BeginKeeps
  <1>3. ASSUME NEW i \in Ids, NEW f \in L!Legs(i), NEW s \in L!Legs(i),
               SoftDeleteTransfer(w, i, f, s)
        PROVE  IInv'
    <2> DEFINE Drop(k) == LegMoves(LiveRows[k], -1) \o <<Remove(k)>>
               ss == ForLegs(f, s, Drop) \o <<Finish>>
    <2>1. L!Grouped(i)
      BY <1>3 DEF SoftDeleteTransfer
    <2>2. ASSUME NEW k \in {f, s}
          PROVE  Drop(k) \in Seq(Runnable) /\ k \in Ids
      <3>1. k \in Ids /\ LiveRows[k] \in L!Record /\ rec[k] # None
        BY <2>1, LegsLive
      <3>2. LegMoves(LiveRows[k], -1) \in Seq(Runnable) /\ <<Remove(k)>> \in Seq(Runnable)
        BY <3>1, LegMovesType, AdjustmentsRun, RemoveType
      <3> QED
        BY <3>1, <3>2
    <2>3. Begin(w, ss, {f, s})
      BY <1>3 DEF SoftDeleteTransfer
    <2> HIDE DEF Drop
    <2>4. ForLegs(f, s, Drop) \in Seq(Runnable)
      BY <2>2 DEF ForLegs
    <2>5. ss \in Seq(Runnable)
      BY <2>4, FinishType
    <2>6. {f, s} \in SUBSET (Ids \cup Entities)
      BY <2>2
    <2> HIDE DEF ss
    <2> QED
      BY <2>3, <2>5, <2>6, BeginKeeps
  <1> QED
    BY <1>1, <1>2, <1>3 DEF Transfer

LEMMA PatchKeeps ==
  ASSUME IInv, NEW w \in Workers, PatchEntity(w)
  PROVE  IInv'
  <1>1. ASSUME NEW e \in Patched, NEW v \in SetValues, PatchBalance(w, e, v)
        PROVE  IInv'
    <2>1. e \in Entities /\ v \in Int /\ v >= 0
      BY LedgerTxAssumption
    <2>2. <<Patch(e, v, TRUE)>> \in Seq(Runnable)
      BY <2>1, PatchType
    <2> QED
      BY <1>1, <2>1, <2>2, BeginKeeps DEF PatchBalance
  <1>2. ASSUME NEW e \in Patched, PatchOther(w, e)
        PROVE  IInv'
    <2>1. e \in Entities /\ bal[e] \in Int /\ (e \in Accounts => bal[e] >= 0)
      BY LedgerTxAssumption DEF IInv, TypeOK, Solvent, NeverOverdrawn
    <2>2. <<Patch(e, bal[e], FALSE)>> \in Seq(Runnable)
      BY <2>1, PatchType
    <2> QED
      BY <1>2, <2>1, <2>2, BeginKeeps DEF PatchOther
  <1> QED
    BY <1>1, <1>2 DEF PatchEntity
-----------------------------------------------------------------------------
(***************************************************************************)
(* Statements.                                                             *)
(***************************************************************************)
LEMMA HeadRunnable ==
  ASSUME IInv, NEW w \in Workers, ~Idle(w)
  PROVE  /\ Now(w) \in Runnable
         /\ Tail(plan[w]) \in Seq(Runnable)
  <1>1. plan[w] \in Seq(Runnable) /\ plan[w] # <<>>
    BY DEF IInv, Idle
  <1> QED
    BY <1>1 DEF Now

\* Going on to the next statement keeps the invariant if what the statement
\* wrote has its type and overdraws no account.
LEMMA AdvanceKeeps ==
  ASSUME IInv, NEW w \in Workers, ~Idle(w), Advance(w),
         UNCHANGED <<rec, bal, seen, stale>>,
         \A v \in Workers :
           /\ DOMAIN rows'[v] \subseteq Ids /\ rows'[v] \in [DOMAIN rows'[v] -> Version]
           /\ DOMAIN bals'[v] \subseteq Entities /\ bals'[v] \in [DOMAIN bals'[v] -> Int]
           /\ \A a \in Accounts \cap DOMAIN bals'[v] : bals'[v][a] >= 0,
         \A v \in Workers \ {w} : rows'[v] = rows[v]
  PROVE  IInv'
  <1>1. Runnable' = Runnable
    BY DEF Runnable
  <1>2. plan' \in [Workers -> Seq(Runnable)]
    BY HeadRunnable DEF Advance, IInv
  <1>3. Seq(Runnable) \subseteq Seq(Statements)
    BY DEF Runnable
  <1>4. TypeOK'
    BY <1>2, <1>3 DEF TypeOK, Advance, IInv
  <1>5. ASSUME NEW v \in Workers, saw'[v] # None
        PROVE  \/ Doing(v, "save")' /\ saw'[v] \in Version /\ RowSeen(v, Now(v).id)' # None
               \/ Doing(v, "adjust")' /\ saw'[v] \in [balance: Int]
    <2>1. v # w /\ saw'[v] = saw[v] /\ plan'[v] = plan[v]
      BY <1>5 DEF Advance, IInv, TypeOK
    <2>2. rows'[v] = rows[v] /\ rec' = rec
      BY <2>1
    <2> QED
      BY <1>5, <2>1, <2>2 DEF IInv, Selected, Doing, Idle, Now, RowSeen
  <1>6. Selected'
    BY <1>5 DEF Selected
  <1>7. Solvent'
    BY DEF Solvent, NeverOverdrawn, IInv
  <1> QED
    BY <1>1, <1>2, <1>4, <1>6, <1>7 DEF IInv

\* Writing a version of a movement keeps it.
LEMMA WriteRowKeeps ==
  ASSUME IInv, NEW w \in Workers, ~Idle(w), Advance(w),
         NEW i \in Ids, NEW new \in Version,
         rows' = [rows EXCEPT ![w] = Put(@, i, new)],
         UNCHANGED <<rec, bal, bals, seen, stale>>
  PROVE  IInv'
  <1>2. /\ DOMAIN Put(rows[w], i, new) \subseteq Ids
        /\ Put(rows[w], i, new) \in [DOMAIN Put(rows[w], i, new) -> Version]
    BY DEF IInv, TypeOK, Put
  <1>3. \A v \in Workers : rows'[v] = rows[v] \/ (v = w /\ rows'[v] = Put(rows[w], i, new))
    OBVIOUS
  <1>4. \A v \in Workers :
           /\ DOMAIN rows'[v] \subseteq Ids /\ rows'[v] \in [DOMAIN rows'[v] -> Version]
    BY <1>2, <1>3 DEF IInv, TypeOK
  <1>5. \A v \in Workers :
           /\ DOMAIN bals'[v] \subseteq Entities /\ bals'[v] \in [DOMAIN bals'[v] -> Int]
           /\ \A a \in Accounts \cap DOMAIN bals'[v] : bals'[v][a] >= 0
    BY DEF IInv, TypeOK, Solvent
  <1> QED
    BY <1>3, <1>4, <1>5, AdvanceKeeps

\* A request that ends keeps it, whatever it leaves committed.
LEMMA EndKeeps ==
  ASSUME IInv, NEW w \in Workers, EndOf(w),
         rec' \in [Ids -> Version \cup {None}],
         \A i \in Ids : rec[i] # None => rec'[i] # None,
         bal' \in [Entities -> Int],
         \A a \in Accounts : bal'[a] >= 0,
         stale' \subseteq Workers
  PROVE  IInv'
  <1>1. Runnable \subseteq Runnable'
    BY DEF Runnable, Statements
  <1>2. plan' \in [Workers -> Seq(Runnable)]
    BY DEF EndOf, IInv
  <1>3. plan' \in [Workers -> Seq(Runnable)']
    BY <1>1, <1>2
  <1>4. Seq(Runnable) \subseteq Seq(Statements)
    BY DEF Runnable
  <1>5. TypeOK'
    BY <1>2, <1>4 DEF TypeOK, EndOf, IInv, Nowhere
  <1>6. ASSUME NEW v \in Workers, saw'[v] # None
        PROVE  \/ Doing(v, "save")' /\ saw'[v] \in Version /\ RowSeen(v, Now(v).id)' # None
               \/ Doing(v, "adjust")' /\ saw'[v] \in [balance: Int]
    <2>1. /\ v # w /\ saw'[v] = saw[v] /\ plan'[v] = plan[v] /\ rows'[v] = rows[v]
      BY <1>6 DEF EndOf, IInv, TypeOK
    <2>2. CASE Doing(v, "save") /\ saw[v] \in Version /\ RowSeen(v, Now(v).id) # None
      <3>1. Now(v) \in Runnable
        BY <2>2, HeadRunnable DEF Doing
      <3>2. Now(v).id \in Ids
        BY <2>2, <3>1 DEF Runnable, Statements, Doing
      <3> QED
        BY <2>1, <2>2, <3>2 DEF Doing, Idle, Now, RowSeen
    <2>3. CASE Doing(v, "adjust") /\ saw[v] \in [balance: Int]
      BY <2>1, <2>3 DEF Doing, Idle, Now
    <2> QED
      BY <1>6, <2>1, <2>2, <2>3 DEF IInv, Selected
  <1>7. Selected'
    BY <1>6 DEF Selected
  <1>8. ASSUME NEW v \in Workers
        PROVE  bals'[v] = bals[v] \/ DOMAIN bals'[v] = {}
    BY DEF EndOf, Nowhere
  <1>9. Solvent'
    BY <1>8 DEF Solvent, NeverOverdrawn, IInv
  <1> QED
    BY <1>3, <1>5, <1>7, <1>9 DEF IInv
LEMMA RowSeenType ==
  ASSUME IInv, NEW w \in Workers, NEW i \in Ids
  PROVE  RowSeen(w, i) \in Version \cup {None}
  BY DEF IInv, TypeOK, RowSeen

LEMMA StatementKeeps ==
  ASSUME IInv, NEW w \in Workers, Statement(w)
  PROVE  IInv'
  <1>1. CASE SelectRow(w)
    <2>1. Now(w) \in Runnable /\ Now(w).op = "save"
      BY <1>1, HeadRunnable DEF SelectRow, Doing
    <2>2. Now(w).id \in Ids
      BY <2>1 DEF Runnable, Statements
    <2>3. RowSeen(w, Now(w).id) \in Version
      BY <1>1, <2>2, RowSeenType DEF SelectRow
    <2>4. Runnable' = Runnable
      BY <1>1 DEF SelectRow, Runnable
    <2>5. TypeOK'
      BY <1>1, <2>2, <2>3 DEF SelectRow, TypeOK, IInv
    <2>6. Selected'
      BY <1>1, <2>3 DEF SelectRow, Selected, IInv, TypeOK, Doing, Idle, Now, RowSeen
    <2>7. Solvent'
      BY <1>1 DEF SelectRow, Solvent, NeverOverdrawn, IInv
    <2>8. plan' \in [Workers -> Seq(Runnable)]
      BY <1>1 DEF SelectRow, IInv
    <2> QED
      BY <2>4, <2>5, <2>6, <2>7, <2>8 DEF IInv
  <1>2. CASE UpdateRow(w)
    <2> DEFINE i == Now(w).id
               new == Overlay(Now(w).row, saw[w], RowSeen(w, i))
    <2>1. ~Idle(w) /\ Now(w).op = "save" /\ Now(w) \in Runnable
      BY <1>2, HeadRunnable DEF UpdateRow, Doing
    <2>2. i \in Ids /\ Now(w).row \in L!Record
      BY <2>1 DEF Runnable, Statements
    <2>3. saw[w] \in Version /\ RowSeen(w, i) # None
      BY <1>2 DEF UpdateRow, IInv, Selected, Doing
    <2>4. RowSeen(w, i) \in Version
      BY <2>2, <2>3, RowSeenType
    <2>5. ASSUME NEW want \in L!Record, NEW old \in Version, NEW now \in Version
          PROVE  Overlay(want, old, now) \in Version
      BY DEF Overlay, Version, L!Record
    <2>6. new \in Version
      BY <2>2, <2>3, <2>4, <2>5
    <2>7. /\ rows' = [rows EXCEPT ![w] = Put(@, i, new)]
          /\ Advance(w) /\ UNCHANGED <<rec, bal, bals, seen, stale>>
      BY <1>2 DEF UpdateRow
    <2> HIDE DEF i, new
    <2> QED
      BY <2>1, <2>2, <2>6, <2>7, WriteRowKeeps
  <1>3. CASE InsertRow(w)
    <2> DEFINE i == Now(w).id
               new == [row |-> Now(w).row, gone |-> FALSE]
    <2>1. ~Idle(w) /\ Now(w).op = "save" /\ Now(w) \in Runnable
      BY <1>3, HeadRunnable DEF InsertRow, Doing
    <2>2. i \in Ids /\ Now(w).row \in L!Record
      BY <2>1 DEF Runnable, Statements
    <2>3. new \in Version
      BY <2>2 DEF Version
    <2>4. /\ rows' = [rows EXCEPT ![w] = Put(@, i, new)]
          /\ Advance(w) /\ UNCHANGED <<rec, bal, bals, seen, stale>>
      BY <1>3 DEF InsertRow
    <2> HIDE DEF i, new
    <2> QED
      BY <2>1, <2>2, <2>3, <2>4, WriteRowKeeps
  <1>4. CASE SoftRemoveRow(w)
    <2> DEFINE i == Now(w).id
               new == [RowSeen(w, i) EXCEPT !.gone = TRUE]
    <2>1. ~Idle(w) /\ Now(w).op = "remove" /\ Now(w) \in Runnable
      BY <1>4, HeadRunnable DEF SoftRemoveRow, Doing
    <2>2. i \in Ids /\ rec[i] # None
      BY <2>1 DEF Runnable, Statements
    <2>3. RowSeen(w, i) \in Version
      BY <2>2 DEF RowSeen, IInv, TypeOK
    <2>4. new \in Version
      BY <2>3 DEF Version
    <2>5. /\ rows' = [rows EXCEPT ![w] = Put(@, i, new)]
          /\ Advance(w) /\ UNCHANGED <<rec, bal, bals, seen, stale>>
      BY <1>4 DEF SoftRemoveRow
    <2> HIDE DEF i, new
    <2> QED
      BY <2>1, <2>2, <2>4, <2>5, WriteRowKeeps
  <1>5. CASE ReadBalance(w)
    <2>1. Now(w) \in Runnable /\ Now(w).op = "adjust"
      BY <1>5, HeadRunnable DEF ReadBalance, Doing
    <2>2. Now(w).entity \in Entities
      BY <2>1 DEF Runnable, Statements
    <2>3. BalanceSeen(w, Now(w).entity) \in Int
      BY <2>2 DEF BalanceSeen, IInv, TypeOK
    <2>4. Runnable' = Runnable
      BY <1>5 DEF ReadBalance, Runnable
    <2>5. TypeOK'
      BY <1>5, <2>2, <2>3 DEF ReadBalance, TypeOK, IInv
    <2>6. Selected'
      BY <1>5, <2>3 DEF ReadBalance, Selected, IInv, TypeOK, Doing, Idle, Now, RowSeen
    <2>7. Solvent'
      BY <1>5 DEF ReadBalance, Solvent, NeverOverdrawn, IInv
    <2>8. plan' \in [Workers -> Seq(Runnable)]
      BY <1>5 DEF ReadBalance, IInv
    <2> QED
      BY <2>4, <2>5, <2>6, <2>7, <2>8 DEF IInv
  <1>6. CASE WriteBalance(w)
    <2> DEFINE e == Now(w).entity
               v == saw[w].balance + Now(w).delta
    <2>1. ~Idle(w) /\ Now(w).op = "adjust" /\ Now(w) \in Runnable
      BY <1>6, HeadRunnable DEF WriteBalance, Doing
    <2>2. e \in Entities /\ Now(w).delta \in Int
      BY <2>1 DEF Runnable, Statements
    <2>3. saw[w].balance \in Int
      BY <1>6 DEF WriteBalance, IInv, Selected, Doing
    <2>4. v \in Int /\ (e \in Accounts => v >= 0)
      BY <1>6, <2>2, <2>3 DEF WriteBalance, Allowed
    <2>5. /\ bals' = [bals EXCEPT ![w] = Put(@, e, v)] /\ rows' = rows
          /\ Advance(w) /\ UNCHANGED <<rec, bal, seen, stale>>
      BY <1>6 DEF WriteBalance
    <2> HIDE DEF e, v
    <2>6. /\ DOMAIN Put(bals[w], e, v) \subseteq Entities
          /\ Put(bals[w], e, v) \in [DOMAIN Put(bals[w], e, v) -> Int]
          /\ \A a \in Accounts \cap DOMAIN Put(bals[w], e, v) : Put(bals[w], e, v)[a] >= 0
      BY <2>2, <2>4 DEF IInv, TypeOK, Put, Solvent
    <2>7. \A x \in Workers : bals'[x] = bals[x] \/ bals'[x] = Put(bals[w], e, v)
      BY <2>5
    <2>8. \A x \in Workers :
           /\ DOMAIN rows'[x] \subseteq Ids /\ rows'[x] \in [DOMAIN rows'[x] -> Version]
           /\ DOMAIN bals'[x] \subseteq Entities /\ bals'[x] \in [DOMAIN bals'[x] -> Int]
           /\ \A a \in Accounts \cap DOMAIN bals'[x] : bals'[x][a] >= 0
      BY <2>5, <2>6, <2>7 DEF IInv, TypeOK, Solvent
    <2> QED
      BY <2>1, <2>5, <2>8, AdvanceKeeps
  <1>7. CASE Refuse(w)
    BY <1>7, EndKeeps DEF Refuse, IInv, TypeOK, Solvent, NeverOverdrawn
  <1>8. CASE Commit(w)
    <2>1. rec' \in [Ids -> Version \cup {None}]
      BY <1>8 DEF Commit, IInv, TypeOK
    <2>2. ASSUME NEW i \in Ids, rec[i] # None
          PROVE  rec'[i] # None
      BY <1>8, <2>2, VersionAssumption DEF Commit, IInv, TypeOK
    <2>3. bal' \in [Entities -> Int]
      BY <1>8 DEF Commit, IInv, TypeOK
    <2>4. \A a \in Accounts : bal'[a] >= 0
      BY <1>8 DEF Commit, IInv, Solvent, NeverOverdrawn, Entities
    <2>5. stale' \subseteq Workers /\ EndOf(w)
      BY <1>8 DEF Commit, Outdates
    <2> QED
      BY <2>1, <2>2, <2>3, <2>4, <2>5, EndKeeps
  <1>9. CASE SavePatch(w)
    <2>1. Now(w) \in Runnable /\ Now(w).op = "patch"
      BY <1>9, HeadRunnable DEF SavePatch, Doing
    <2>2. /\ Now(w).value \in Int
          /\ Now(w).entity \in Accounts => Now(w).value >= 0
      BY <2>1 DEF Runnable, Statements
    <2>3. bal \in [Entities -> Int] /\ \A a \in Accounts : a \in Entities /\ bal[a] >= 0
      BY DEF IInv, TypeOK, Solvent, NeverOverdrawn, Entities
    <2>4. bal' \in [Entities -> Int] /\ \A a \in Accounts : bal'[a] >= 0
      BY <1>9, <2>2, <2>3 DEF SavePatch
    <2>5. stale' \subseteq Workers /\ EndOf(w) /\ rec' = rec
      BY <1>9 DEF SavePatch, Outdates
    <2> QED
      BY <2>4, <2>5, EndKeeps DEF IInv, TypeOK
  <1> QED
    BY <1>1, <1>2, <1>3, <1>4, <1>5, <1>6, <1>7, <1>8, <1>9 DEF Statement

-----------------------------------------------------------------------------
LEMMA InitHolds == Init => IInv
  <1> SUFFICES ASSUME Init PROVE IInv
    OBVIOUS
  <1>1. DOMAIN Nowhere = {} /\ Nowhere \in [{} -> Version] /\ Nowhere \in [{} -> Int]
    BY DEF Nowhere
  <1>2. bal \in [Entities -> Int] /\ \A a \in Accounts : bal[a] >= 0
    <2>1. bal \in [Entities -> SetValues]
      BY DEF Init
    <2>2. \A v \in SetValues : v \in Int /\ v >= 0
      BY LedgerTxAssumption
    <2>3. \A e \in Entities : bal[e] \in Int /\ bal[e] >= 0
      BY <2>1, <2>2
    <2> QED
      BY <2>1, <2>3 DEF Entities
  <1>3. \A w \in Workers : rows[w] = Nowhere /\ bals[w] = Nowhere
    BY DEF Init
  <1>4. /\ rec \in [Ids -> Version \cup {None}]
        /\ plan \in [Workers -> Seq(Statements)]
        /\ saw \in [Workers -> Version \cup [balance: Int] \cup {None}]
        /\ seen \in [Workers -> SUBSET (Ids \cup Entities)]
        /\ stale \subseteq Workers
    BY DEF Init
  <1>5. TypeOK
    BY <1>1, <1>2, <1>3, <1>4 DEF TypeOK
  <1>6. plan \in [Workers -> Seq(Runnable)]
    BY DEF Init
  <1>7. Selected
    BY DEF Init, Selected
  <1>8. Solvent
    BY <1>1, <1>2, <1>3 DEF Solvent, NeverOverdrawn
  <1> QED
    BY <1>5, <1>6, <1>7, <1>8 DEF IInv

LEMMA NextKeeps == IInv /\ [Next]_vars => IInv'
  <1> SUFFICES ASSUME IInv, [Next]_vars PROVE IInv'
    OBVIOUS
  <1>1. CASE UNCHANGED vars
    BY <1>1 DEF vars, IInv, TypeOK, Runnable, Selected, Solvent, NeverOverdrawn,
                Doing, Idle, Now, RowSeen
  <1>2. ASSUME NEW w \in Workers, Request(w)
        PROVE  IInv'
    BY <1>2, MovementKeeps, TransferKeeps, PatchKeeps DEF Request
  <1>3. ASSUME NEW w \in Workers, Crash(w) \/ Victim(w)
        PROVE  IInv'
    BY <1>3, EndKeeps DEF Crash, Victim, IInv, TypeOK, Solvent, NeverOverdrawn
  <1> QED
    BY <1>1, <1>2, <1>3, StatementKeeps DEF Next

LEMMA InductiveInvariant == Spec => []IInv
  BY InitHolds, NextKeeps, PTL DEF Spec

\* Every variable keeps its type, however the statements of any number of
\* requests, crashes and deadlock victims interleave.
THEOREM RacingTypes == Spec => []TypeOK
  <1>1. IInv => TypeOK
    BY DEF IInv
  <1> QED
    BY InductiveInvariant, <1>1, PTL

\* The check of applyToEntity holds for every number of racing requests: no
\* account is ever overdrawn by movements or transfers.
THEOREM RacingNeverOverdraws == Spec => []NeverOverdrawn
  <1>1. IInv => NeverOverdrawn
    BY DEF IInv, Solvent
  <1> QED
    BY InductiveInvariant, <1>1, PTL

-----------------------------------------------------------------------------
(***************************************************************************)
(* Transfers in races.  A stored row is plain or one of the two legs of a  *)
(* pair, and a request is at any time of one of four kinds: it writes      *)
(* plain rows only, it creates a pair of rows no one else knows of, or it  *)
(* edits or deletes a pair.  Of the last two the first statement adjusts   *)
(* the origin account of the pair, so that its row lock is held by the     *)
(* time a leg is written and kept until both are committed.                *)
(***************************************************************************)
Bare(r) == r.group = None /\ r.origin = None /\ r.dest = None

\* The columns of the two legs of transfer g.
Twins(g, o, d) ==
  /\ o.group = g /\ o.origin # None /\ o.dest = None
  /\ d.group = g /\ d.origin = None
  /\ o.amount = d.amount /\ o.amount # 0

Group(g) == {i \in Ids : rec[i] # None /\ rec[i].row.group = g}

Pair(g, s) ==
  /\ g \in Ids /\ s \in Ids /\ g # s
  /\ Group(g) = {g, s}
  /\ Twins(g, rec[g].row, rec[s].row)
  /\ rec[g].gone = rec[s].gone

Paired ==
  \A i \in Ids : rec[i] # None =>
    \/ Bare(rec[i].row)
    \/ \E s \in Ids : Pair(rec[i].row.group, s)

\* Statements.
Endings == {"commit", "patch"}
Plain ==
  {s \in Statements :
     /\ s.op = "save" => Bare(s.row) /\ (rec[s.id] # None => Bare(rec[s.id].row))
     /\ s.op = "remove" => rec[s.id] # None /\ Bare(rec[s.id].row)}

Has(p, s) == \E k \in 1 .. Len(p) : p[k] = s

\* The last statement of a request, and no other, ends it.
EndsLast(p) == \A k \in 1 .. Len(p) : p[k].op \in Endings <=> k = Len(p)

\* w writes no leg of a transfer.
Plainly(w) ==
  /\ plan[w] \in Seq(Plain)
  /\ \A i \in DOMAIN rows[w] : /\ Bare(rows[w][i].row)
                               /\ rec[i] # None => Bare(rec[i].row)

\* w writes o to row i and d to row j, from what it finds there.
Writing(w, i, j, o, d) ==
  /\ plan[w] \in Seq(Adjustments \cup {Save(i, o), Save(j, d), Finish})
  /\ \A k \in DOMAIN rows[w] : \/ k = i /\ rows[w][k] = [row |-> o, gone |-> FALSE]
                               \/ k = j /\ rows[w][k] = [row |-> d, gone |-> FALSE]
  /\ i \in DOMAIN rows[w] \/ Has(plan[w], Save(i, o))
  /\ j \in DOMAIN rows[w] \/ Has(plan[w], Save(j, d))
  /\ Doing(w, "save") /\ saw[w] # None => saw[w] = RowSeen(w, Now(w).id)

\* w removes rows i and j.
Removing(w, i, j) ==
  /\ plan[w] \in Seq(Adjustments \cup {Remove(i), Remove(j), Finish})
  /\ \A k \in DOMAIN rows[w] : /\ k = i \/ k = j
                               /\ rows[w][k] = [rec[k] EXCEPT !.gone = TRUE]
  /\ i \in DOMAIN rows[w] \/ Has(plan[w], Remove(i))
  /\ j \in DOMAIN rows[w] \/ Has(plan[w], Remove(j))

\* w holds the row lock of balance e, or begins by taking it.
LocksFirst(w, e) ==
  \/ e \in DOMAIN bals[w]
  \/ rows[w] = Nowhere /\ Doing(w, "adjust") /\ Now(w).entity = e

\* Two versions of a row that differ in the amount only.
Alike(r, q) == q = [r EXCEPT !.amount = q.amount]

CreatingPair(w, i, j, o, d) ==
  /\ i # j /\ rec[i] = None /\ rec[j] = None
  /\ Twins(i, o, d) /\ Writing(w, i, j, o, d)

UpdatingPair(w, g, s, o, d) ==
  /\ Pair(g, s) /\ Twins(g, o, d)
  /\ Alike(rec[g].row, o) /\ Alike(rec[s].row, d)
  /\ Writing(w, g, s, o, d)
  /\ LocksFirst(w, rec[g].row.origin)

DeletingPair(w, g, s) ==
  /\ Pair(g, s) /\ Removing(w, g, s)
  /\ LocksFirst(w, rec[g].row.origin)

Creating(w) == \E i, j \in Ids, o, d \in L!Record : CreatingPair(w, i, j, o, d)
Updating(w) == \E g, s \in Ids, o, d \in L!Record : UpdatingPair(w, g, s, o, d)
Deleting(w) == \E g, s \in Ids : DeletingPair(w, g, s)

InOneOfFourWays(w) == Plainly(w) \/ Creating(w) \/ Updating(w) \/ Deleting(w)

\* An id that w has been given, or is going to write.
Holds(w, i) ==
  \/ i \in DOMAIN rows[w]
  \/ \E k \in 1 .. Len(plan[w]) : plan[w][k].op = "save" /\ plan[w][k].id = i

\* No two requests have written the same balance, or were given the same id.
OneOwner ==
  \A v, w \in Workers : v # w =>
    /\ DOMAIN bals[v] \cap DOMAIN bals[w] = {}
    /\ \A i \in Ids : rec[i] = None => ~(Holds(v, i) /\ Holds(w, i))

RacesInv ==
  /\ IInv
  /\ DOMAIN rows = Workers /\ DOMAIN bals = Workers
  /\ Paired
  /\ OneOwner
  /\ \A w \in Workers : /\ EndsLast(plan[w])
                        /\ Idle(w) => rows[w] = Nowhere
                        /\ InOneOfFourWays(w)

-----------------------------------------------------------------------------
(***************************************************************************)
(* Sequences of statements.                                                *)
(***************************************************************************)
LEMMA HasConcat ==
  ASSUME NEW S, NEW p \in Seq(S), NEW q \in Seq(S), NEW s, Has(p, s) \/ Has(q, s)
  PROVE  Has(p \o q, s)
  <1>1. /\ p \o q \in Seq(S) /\ Len(p \o q) = Len(p) + Len(q)
        /\ Len(p) \in Nat /\ Len(q) \in Nat
    OBVIOUS
  <1>2. ASSUME NEW k \in 1 .. Len(p), p[k] = s
        PROVE  Has(p \o q, s)
    <2>1. k \in 1 .. Len(p \o q) /\ (p \o q)[k] = s
      BY <1>1, <1>2
    <2> QED
      BY <2>1 DEF Has
  <1>3. ASSUME NEW k \in 1 .. Len(q), q[k] = s
        PROVE  Has(p \o q, s)
    <2>1. Len(p) + k \in 1 .. Len(p \o q) /\ (p \o q)[Len(p) + k] = s
      BY <1>1, <1>3
    <2> QED
      BY <2>1 DEF Has
  <1> QED
    BY <1>2, <1>3 DEF Has

LEMMA HasTail ==
  ASSUME NEW S, NEW p \in Seq(S), p # <<>>, NEW s, Has(p, s)
  PROVE  s = Head(p) \/ Has(Tail(p), s)
  <1>1. PICK k \in 1 .. Len(p) : p[k] = s
    BY DEF Has
  <1>2. CASE k = 1
    BY <1>1, <1>2
  <1>3. CASE k # 1
    <2>1. k - 1 \in 1 .. Len(Tail(p)) /\ Tail(p)[k - 1] = s
      BY <1>1, <1>3
    <2> QED
      BY <2>1 DEF Has
  <1> QED
    BY <1>2, <1>3

LEMMA EndsLastTail ==
  ASSUME NEW S, NEW p \in Seq(S), p # <<>>, EndsLast(p), Head(p).op \notin Endings
  PROVE  EndsLast(Tail(p)) /\ Tail(p) # <<>>
  <1>1. Len(p) \in Nat /\ Len(p) # 0 /\ Head(p) = p[1]
    OBVIOUS
  <1>2. Len(p) # 1
    BY <1>1 DEF EndsLast
  <1>3. Len(Tail(p)) = Len(p) - 1 /\ \A k \in 1 .. Len(Tail(p)) : Tail(p)[k] = p[k + 1]
    OBVIOUS
  <1>4. ASSUME NEW k \in 1 .. Len(Tail(p))
        PROVE  Tail(p)[k].op \in Endings <=> k = Len(Tail(p))
    <2>1. k + 1 \in 1 .. Len(p) /\ (k + 1 = Len(p) <=> k = Len(Tail(p)))
      BY <1>1, <1>3
    <2>2. p[k + 1].op \in Endings <=> k + 1 = Len(p)
      BY <2>1 DEF EndsLast
    <2> QED
      BY ZenonT(60), <1>3, <2>1, <2>2
  <1>5. Len(Tail(p)) # 0
    BY <1>1, <1>2, <1>3
  <1> QED
    BY <1>4, <1>5 DEF EndsLast

LEMMA EndsLastEnd ==
  ASSUME NEW S, NEW p \in Seq(S), p # <<>>, EndsLast(p), Head(p).op \in Endings,
         NEW s, Has(p, s)
  PROVE  s = Head(p)
  <1>1. Len(p) \in Nat /\ Len(p) # 0 /\ Head(p) = p[1]
    OBVIOUS
  <1>2. 1 \in 1 .. Len(p)
    BY <1>1
  <1>3. p[1].op \in Endings <=> 1 = Len(p)
    BY <1>2 DEF EndsLast
  <1>4. Len(p) = 1
    BY <1>1, <1>3
  <1> QED
    BY <1>1, <1>4 DEF Has

LEMMA EndsLastFinish ==
  ASSUME NEW S, NEW p \in Seq(S), \A s \in S : s.op \notin Endings
  PROVE  EndsLast(p \o <<Finish>>)
  <1>1. /\ Len(p \o <<Finish>>) = Len(p) + 1 /\ Len(p) \in Nat
        /\ (p \o <<Finish>>)[Len(p) + 1] = Finish
        /\ \A k \in 1 .. Len(p) : (p \o <<Finish>>)[k] = p[k] /\ p[k] \in S
    OBVIOUS
  <1>2. Finish.op \in Endings
    BY DEF Finish, Endings
  <1> QED
    BY <1>1, <1>2 DEF EndsLast

-----------------------------------------------------------------------------
(***************************************************************************)
(* Pairs.                                                                  *)
(***************************************************************************)
\* A row is in one pair at most.
LEMMA OnePair ==
  ASSUME NEW g, NEW s, NEW h, NEW t, Pair(g, s), Pair(h, t), NEW x,
         x = g \/ x = s, x = h \/ x = t
  PROVE  g = h /\ s = t
  <1>1. x \in Group(g) /\ x \in Group(h)
    BY DEF Pair
  <1>2. g = h
    BY <1>1 DEF Group
  <1>3. Group(g) = {g, s} /\ Group(g) = {g, t} /\ g # s /\ g # t
    BY <1>2 DEF Pair
  <1> QED
    BY <1>2, <1>3

\* The rows of a pair are rows.
LEMMA PairStored ==
  ASSUME IInv, NEW g, NEW s, Pair(g, s)
  PROVE  /\ g \in Ids /\ s \in Ids
         /\ rec[g] \in Version /\ rec[s] \in Version
         /\ rec[g] # None /\ rec[s] # None
         /\ rec[g].row.group = g /\ rec[s].row.group = g
  <1>1. g \in Group(g) /\ s \in Group(g)
    BY DEF Pair
  <1> QED
    BY <1>1 DEF Group, IInv, TypeOK

\* The legs that queries return of a live leg are the pair it is in.
LEMMA LegsArePair ==
  ASSUME IInv, Paired, NEW i \in Ids, L!Grouped(i)
  PROVE  \E s \in Ids : /\ Pair(LiveRows[i].group, s)
                        /\ i = LiveRows[i].group \/ i = s
                        /\ L!Legs(i) = {LiveRows[i].group, s}
                        /\ LiveRows[s] = rec[s].row
                        /\ LiveRows[LiveRows[i].group] = rec[LiveRows[i].group].row
  <1>1. /\ rec[i] # None /\ ~rec[i].gone /\ LiveRows[i] = rec[i].row
        /\ rec[i].row.group # None
    BY DEF L!Grouped, LiveRows
  <1>2. PICK g : g = rec[i].row.group
    OBVIOUS
  <1>3. PICK s \in Ids : Pair(g, s)
    BY <1>1, <1>2 DEF Paired, Bare
  <1>4. i \in Group(g) /\ Group(g) = {g, s}
    BY <1>1, <1>2, <1>3 DEF Group, Pair
  <1>5. ~rec[g].gone /\ ~rec[s].gone
    BY <1>1, <1>3, <1>4 DEF Pair
  <1>6. LiveRows[g] = rec[g].row /\ LiveRows[s] = rec[s].row
    BY <1>3, <1>5, PairStored DEF LiveRows
  <1>7. ASSUME NEW k \in Ids
        PROVE  (k \in L!Live /\ LiveRows[k].group = g) <=> (k = g \/ k = s)
    <2>1. CASE k = g \/ k = s
      <3>1. rec[k] # None /\ LiveRows[k] = rec[k].row /\ rec[k].row.group = g
        BY <2>1, <1>3, <1>6, PairStored
      <3>2. LiveRows[k] # None
        <4>1. rec[k].row \in L!Record
          BY <3>1 DEF IInv, TypeOK, Version
        <4> QED
          BY <3>1, <4>1, VersionAssumption
      <3> QED
        BY <2>1, <3>1, <3>2 DEF L!Live
    <2>2. CASE ~(k = g \/ k = s)
      <3>1. k \notin Group(g)
        BY <2>2, <1>4
      <3>2. LiveRows[k] = None \/ LiveRows[k].group # g
        BY <3>1 DEF Group, LiveRows
      <3> QED
        BY <2>2, <3>2 DEF L!Live
    <2> QED
      BY <2>1, <2>2
  <1>8. L!Legs(i) = {g, s}
    <2>1. L!Legs(i) = {k \in L!Live : LiveRows[k].group = g}
      BY <1>1, <1>2 DEF L!Legs
    <2>2. L!Live \subseteq Ids /\ g \in Ids
      BY <1>3 DEF L!Live, Pair
    <2> QED
      BY <2>1, <2>2, <1>7
  <1> QED
    BY <1>1, <1>2, <1>3, <1>4, <1>6, <1>8

\* What queries return of pairs is whole.
LEMMA PairedEnough ==
  ASSUME IInv, Paired
  PROVE  RacingTransfersWhole
  <1>1. L!PairsWhole
    <2> SUFFICES ASSUME NEW i \in Ids, L!Grouped(i)
                 PROVE  /\ LiveRows[i].origin # None =>
                             \E j \in Ids : /\ L!Legs(i) = {i, j}
                                            /\ LiveRows[j].origin = None
                        /\ LiveRows[i].dest # None =>
                             \E j \in Ids : /\ L!Legs(i) = {i, j}
                                            /\ LiveRows[j].origin # None
                                            /\ LiveRows[j].dest = None
      BY DEF L!PairsWhole
    <2>1. PICK g : g = LiveRows[i].group
      OBVIOUS
    <2>2. PICK s \in Ids : /\ Pair(g, s)
                           /\ i = g \/ i = s
                           /\ L!Legs(i) = {g, s}
                           /\ LiveRows[s] = rec[s].row /\ LiveRows[g] = rec[g].row
      BY LegsArePair, <2>1
    <2>3. /\ Twins(g, rec[g].row, rec[s].row) /\ g \in Ids
      BY <2>2 DEF Pair
    <2> QED
      BY <2>2, <2>3 DEF Twins
  <1>2. L!LegsAgree
    <2> SUFFICES ASSUME NEW i \in Ids, NEW j \in Ids, L!Grouped(i), L!Grouped(j),
                        LiveRows[i].group = LiveRows[j].group
                 PROVE  LiveRows[i].amount = LiveRows[j].amount
      BY DEF L!LegsAgree
    <2>1. PICK g : g = LiveRows[i].group
      OBVIOUS
    <2>2. PICK s \in Ids : /\ Pair(g, s)
                           /\ i = g \/ i = s
                           /\ LiveRows[s] = rec[s].row /\ LiveRows[g] = rec[g].row
      BY LegsArePair, <2>1
    <2>3. PICK t \in Ids : Pair(g, t) /\ (j = g \/ j = t)
      BY LegsArePair, <2>1
    <2>4. s = t
      BY <2>2, <2>3, OnePair
    <2> QED
      BY <2>2, <2>3, <2>4 DEF Pair, Twins
  <1> QED
    BY <1>1, <1>2 DEF RacingTransfersWhole

\* What a request does is of the same kind while it and the committed rows rest.
LEMMA KindRests ==
  ASSUME NEW x \in Workers, InOneOfFourWays(x), rec' = rec, plan'[x] = plan[x],
         saw'[x] = saw[x], rows'[x] = rows[x], bals'[x] = bals[x]
  PROVE  InOneOfFourWays(x)'
  <1>1. Plainly(x) => Plainly(x)'
    <2>1. Plain' = Plain
      BY DEF Plain
    <2> QED
      BY <2>1 DEF Plainly
  <1>2. ASSUME NEW i, NEW j, NEW o, NEW d, Writing(x, i, j, o, d)
        PROVE  Writing(x, i, j, o, d)'
    <2>1. Doing(x, "save")' => Doing(x, "save") /\ Now(x)' = Now(x)
      BY DEF Doing, Idle, Now
    <2>2. \A k : RowSeen(x, k)' = RowSeen(x, k)
      BY DEF RowSeen
    <2> QED
      BY <1>2, <2>1, <2>2 DEF Writing, Has
  <1>3. \A i, j : Removing(x, i, j) => Removing(x, i, j)'
    BY ZenonT(60) DEF Removing, Has
  <1>4. \A e : LocksFirst(x, e) => LocksFirst(x, e)'
    BY DEF LocksFirst, Doing, Idle, Now
  <1>5. \A g, s : Pair(g, s) <=> Pair(g, s)'
    BY DEF Pair, Group
  <1>6. Creating(x) => Creating(x)'
    BY <1>2 DEF Creating, CreatingPair
  <1>7. Updating(x) => Updating(x)'
    BY <1>2, <1>4, <1>5 DEF Updating, UpdatingPair
  <1>8. Deleting(x) => Deleting(x)'
    BY <1>3, <1>4, <1>5 DEF Deleting, DeletingPair
  <1> QED
    BY <1>1, <1>6, <1>7, <1>8 DEF InOneOfFourWays

-----------------------------------------------------------------------------
(***************************************************************************)
(* Steps of one request that commit no row.                                *)
(***************************************************************************)
LEMMA StepKeepsRaces ==
  ASSUME RacesInv, IInv', NEW w \in Workers, rec' = rec,
         DOMAIN rows' = DOMAIN rows, DOMAIN bals' = DOMAIN bals,
         \A x \in Workers \ {w} : /\ plan'[x] = plan[x] /\ saw'[x] = saw[x]
                                  /\ rows'[x] = rows[x] /\ bals'[x] = bals[x],
         InOneOfFourWays(w)', EndsLast(plan'[w]),
         plan'[w] = <<>> => rows'[w] = Nowhere,
         \A x \in Workers \ {w} : DOMAIN bals'[w] \cap DOMAIN bals[x] = {},
         \A i \in Ids : rec[i] = None /\ Holds(w, i)' =>
                          Holds(w, i) \/ \A x \in Workers : ~Holds(x, i)
  PROVE  RacesInv'
  <1>1. Paired'
    BY DEF RacesInv, Paired, Pair, Group
  <1>2. ASSUME NEW x \in Workers \ {w}
        PROVE  /\ InOneOfFourWays(x)' /\ EndsLast(plan'[x])
               /\ Idle(x)' => rows'[x] = Nowhere
    <2>1. InOneOfFourWays(x)'
      BY <1>2, KindRests DEF RacesInv
    <2> QED
      BY <1>2, <2>1 DEF RacesInv, Idle
  <1>3. \A x \in Workers \ {w} : \A i : Holds(x, i)' = Holds(x, i)
    BY DEF Holds
  <1>4. OneOwner'
    <2> SUFFICES ASSUME NEW v \in Workers, NEW x \in Workers, v # x
                 PROVE  /\ DOMAIN bals'[v] \cap DOMAIN bals'[x] = {}
                        /\ \A i \in Ids : rec[i] = None => ~(Holds(v, i)' /\ Holds(x, i)')
      BY DEF OneOwner
    <2>1. DOMAIN bals'[v] \cap DOMAIN bals'[x] = {}
      BY DEF RacesInv, OneOwner
    <2>2. ASSUME NEW i \in Ids, rec[i] = None, Holds(v, i)', Holds(x, i)'
          PROVE  FALSE
      <3>1. Holds(v, i) \/ \A y \in Workers : ~Holds(y, i)
        BY <1>3, <2>2
      <3>2. Holds(x, i) \/ \A y \in Workers : ~Holds(y, i)
        BY <1>3, <2>2
      <3>3. ~(Holds(v, i) /\ Holds(x, i))
        BY <2>2 DEF RacesInv, OneOwner
      <3>4. Holds(v, i) \/ Holds(x, i)
        BY <1>3, <2>2
      <3> QED
        BY <3>1, <3>2, <3>3, <3>4
    <2> QED
      BY <2>1, <2>2
  <1>5. \A x \in Workers : /\ EndsLast(plan[x])'
                           /\ (Idle(x) => rows[x] = Nowhere)'
                           /\ InOneOfFourWays(x)'
    BY <1>2 DEF Idle
  <1> QED
    BY <1>1, <1>4, <1>5 DEF RacesInv

\* A request that is rolled back leaves no trace.
LEMMA RollbackKeepsRaces ==
  ASSUME RacesInv, IInv', NEW w \in Workers, rec' = rec, EndOf(w)
  PROVE  RacesInv'
  <1>1. /\ plan'[w] = <<>> /\ rows'[w] = Nowhere /\ bals'[w] = Nowhere
        /\ \A x \in Workers \ {w} : /\ plan'[x] = plan[x] /\ saw'[x] = saw[x]
                                    /\ rows'[x] = rows[x] /\ bals'[x] = bals[x]
        /\ DOMAIN rows' = DOMAIN rows /\ DOMAIN bals' = DOMAIN bals
    BY DEF EndOf, RacesInv, IInv, TypeOK
  <1>2. DOMAIN Nowhere = {}
    BY DEF Nowhere
  <1>3. Plainly(w)'
    <2>1. <<>> \in Seq(Plain')
      OBVIOUS
    <2> QED
      BY <1>1, <1>2, <2>1 DEF Plainly
  <1>4. \A i : ~Holds(w, i)'
    BY <1>1, <1>2 DEF Holds
  <1>5. EndsLast(plan'[w])
    BY <1>1 DEF EndsLast
  <1> QED
    BY <1>1, <1>2, <1>3, <1>4, <1>5, StepKeepsRaces DEF InOneOfFourWays

\* Running a statement that does not end the request.
LEMMA AdvanceKeepsRaces ==
  ASSUME RacesInv, IInv', NEW w \in Workers, ~Idle(w), Advance(w), rec' = rec,
         DOMAIN rows' = DOMAIN rows, DOMAIN bals' = DOMAIN bals,
         Now(w).op \notin Endings,
         \A x \in Workers \ {w} : rows'[x] = rows[x] /\ bals'[x] = bals[x],
         InOneOfFourWays(w)',
         \A x \in Workers \ {w} : DOMAIN bals'[w] \cap DOMAIN bals[x] = {},
         \A i \in DOMAIN rows'[w] : \/ i \in DOMAIN rows[w] \/ rec[i] # None
                                    \/ Now(w).op = "save" /\ Now(w).id = i
  PROVE  RacesInv'
  <1>1. /\ plan[w] \in Seq(Statements) /\ plan[w] # <<>> /\ EndsLast(plan[w])
        /\ Head(plan[w]).op \notin Endings
    BY DEF RacesInv, IInv, TypeOK, Idle, Now
  <1>2. plan'[w] = Tail(plan[w])
    BY DEF Advance, RacesInv, IInv, TypeOK
  <1>3. EndsLast(plan'[w]) /\ plan'[w] # <<>>
    BY <1>1, <1>2, EndsLastTail
  <1>4. \A x \in Workers \ {w} : plan'[x] = plan[x] /\ saw'[x] = saw[x]
    BY DEF Advance, RacesInv, IInv, TypeOK
  <1>5. ASSUME NEW i \in Ids, rec[i] = None, Holds(w, i)'
        PROVE  Holds(w, i)
    <2>1. CASE i \in DOMAIN rows'[w]
      <3>1. i \in DOMAIN rows[w] \/ (Now(w).op = "save" /\ Now(w).id = i)
        BY <1>5, <2>1
      <3>2. 1 \in 1 .. Len(plan[w]) /\ plan[w][1] = Now(w)
        BY <1>1 DEF Now
      <3> QED
        BY <3>1, <3>2 DEF Holds
    <2>2. CASE \E k \in 1 .. Len(Tail(plan[w])) :
                 Tail(plan[w])[k].op = "save" /\ Tail(plan[w])[k].id = i
      <3>1. PICK k \in 1 .. Len(Tail(plan[w])) :
              Tail(plan[w])[k].op = "save" /\ Tail(plan[w])[k].id = i
        BY <2>2
      <3>2. k + 1 \in 1 .. Len(plan[w]) /\ plan[w][k + 1] = Tail(plan[w])[k]
        BY <1>1
      <3> QED
        BY <3>1, <3>2 DEF Holds
    <2> QED
      BY <1>2, <1>5, <2>1, <2>2 DEF Holds
  <1> QED
    BY <1>3, <1>4, <1>5, StepKeepsRaces

-----------------------------------------------------------------------------
(***************************************************************************)
(* Each statement leaves a request of its kind.                            *)
(***************************************************************************)
\* save() of a row that nobody has changed since it was selected.
LEMMA OverlayWants ==
  ASSUME NEW want \in L!Record, NEW now \in Version
  PROVE  Overlay(want, now, now) = [row |-> want, gone |-> FALSE]
  <1> DEFINE new == [c \in DOMAIN now.row |-> IF want[c] # now.row[c] THEN want[c]
                                                                     ELSE now.row[c]]
  <1>1. now.row \in L!Record /\ now.gone \in BOOLEAN
    BY DEF Version
  <1>2. DOMAIN now.row = DOMAIN want
    BY <1>1 DEF L!Record
  <1>3. want = [c \in DOMAIN want |-> want[c]]
    BY DEF L!Record
  <1>4. \A c \in DOMAIN want : new[c] = want[c]
    BY <1>2
  <1>5. new = want
    BY <1>2, <1>3, <1>4
  <1>6. (now.gone /\ ~now.gone) = FALSE
    OBVIOUS
  <1> QED
    BY <1>5, <1>6 DEF Overlay

\* save() of a plain row over a plain row.
LEMMA OverlayBare ==
  ASSUME NEW want \in L!Record, NEW old \in Version, NEW now \in Version,
         Bare(want), Bare(now.row)
  PROVE  Bare(Overlay(want, old, now).row)
  BY DEF Overlay, Bare, Version, L!Record

LEMMA NowAndRest ==
  ASSUME RacesInv, NEW w \in Workers, ~Idle(w), NEW S, plan[w] \in Seq(S)
  PROVE  /\ Now(w) \in S /\ Tail(plan[w]) \in Seq(S)
         /\ \A s : Has(plan[w], s) => s = Now(w) \/ Has(Tail(plan[w]), s)
  <1>1. plan[w] # <<>>
    BY DEF Idle
  <1> QED
    BY <1>1, HasTail DEF Now

LEMMA AdvancePlan ==
  ASSUME RacesInv, NEW w \in Workers, Advance(w)
  PROVE  plan'[w] = Tail(plan[w]) /\ saw'[w] = None
  BY DEF Advance, RacesInv, IInv, TypeOK

\* What a save writes is the row of the statement, when it writes over nothing
\* or over what it has selected.
LEMMA SavedRow ==
  ASSUME RacesInv, NEW w \in Workers, UpdateRow(w) \/ InsertRow(w),
         saw[w] # None => saw[w] = RowSeen(w, Now(w).id)
  PROVE  rows' = [rows EXCEPT ![w] = Put(@, Now(w).id, [row |-> Now(w).row, gone |-> FALSE])]
  <1>1. CASE InsertRow(w)
    BY <1>1 DEF InsertRow
  <1>2. CASE UpdateRow(w)
    <2>1. Now(w) \in Statements /\ Now(w).op = "save"
      BY <1>2, HeadRunnable DEF UpdateRow, Doing, RacesInv, Runnable
    <2>2. Now(w).id \in Ids /\ Now(w).row \in L!Record
      BY <2>1 DEF Statements
    <2>3. saw[w] = RowSeen(w, Now(w).id) /\ saw[w] # None
      BY <1>2 DEF UpdateRow
    <2>4. saw[w] \in Version
      BY <2>2, <2>3, RowSeenType DEF RacesInv
    <2> QED
      BY <1>2, <2>2, <2>3, <2>4, OverlayWants DEF UpdateRow
  <1> QED
    BY <1>1, <1>2

LEMMA WritingSaves ==
  ASSUME RacesInv, NEW w \in Workers, UpdateRow(w) \/ InsertRow(w),
         NEW i, NEW j, NEW o, NEW d, Writing(w, i, j, o, d)
  PROVE  Writing(w, i, j, o, d)'
  <1> DEFINE S == Adjustments \cup {Save(i, o), Save(j, d), Finish}
  <1>k. PICK k : k = Now(w).id
    OBVIOUS
  <1>n. PICK new : new = [row |-> Now(w).row, gone |-> FALSE]
    OBVIOUS
  <1>1. ~Idle(w) /\ Now(w).op = "save" /\ Advance(w) /\ rec' = rec
    BY DEF UpdateRow, InsertRow, Doing
  <1>2. plan[w] \in Seq(S)
    BY DEF Writing
  <1>3. /\ Now(w) \in S /\ Tail(plan[w]) \in Seq(S)
        /\ \A s : Has(plan[w], s) => s = Now(w) \/ Has(Tail(plan[w]), s)
    BY <1>1, <1>2, NowAndRest
  <1>4. Now(w) = Save(i, o) \/ Now(w) = Save(j, d)
    BY <1>1, <1>3 DEF Adjustments, Finish
  <1>5. (k = i /\ Now(w).row = o) \/ (k = j /\ Now(w).row = d)
    BY <1>k, <1>4 DEF Save
  <1>6. rows' = [rows EXCEPT ![w] = Put(@, k, new)]
    BY <1>k, <1>n, <1>1, SavedRow DEF Writing, Doing
  <1>7. plan'[w] = Tail(plan[w]) /\ saw'[w] = None
    BY <1>1, AdvancePlan
  <1>8. /\ DOMAIN rows'[w] = DOMAIN rows[w] \cup {k}
        /\ \A x \in DOMAIN rows'[w] : rows'[w][x] = IF x = k THEN new ELSE rows[w][x]
    BY <1>6 DEF RacesInv, Put
  <1>9. \A x \in DOMAIN rows'[w] : \/ x = i /\ rows'[w][x] = [row |-> o, gone |-> FALSE]
                                   \/ x = j /\ rows'[w][x] = [row |-> d, gone |-> FALSE]
    BY <1>n, <1>5, <1>8 DEF Writing
  <1>10. i \in DOMAIN rows'[w] \/ Has(plan'[w], Save(i, o))
    <2>1. CASE Save(i, o) = Now(w)
      <3>1. Save(i, o).id = i
        BY DEF Save
      <3> QED
        BY <1>k, <1>8, <2>1, <3>1
    <2> QED
      BY <1>3, <1>7, <1>8, <2>1 DEF Writing
  <1>11. j \in DOMAIN rows'[w] \/ Has(plan'[w], Save(j, d))
    <2>1. CASE Save(j, d) = Now(w)
      <3>1. Save(j, d).id = j
        BY DEF Save
      <3> QED
        BY <1>k, <1>8, <2>1, <3>1
    <2> QED
      BY <1>3, <1>7, <1>8, <2>1 DEF Writing
  <1>12. S' = S
    BY DEF Adjustments, Save, Finish, Statements
  <1>13. plan'[w] \in Seq(S)
    BY <1>3, <1>7
  <1> HIDE DEF S
  <1> QED
    BY <1>7, <1>9, <1>10, <1>11, <1>13 DEF Writing, S

\* Statements of w that write no row.
LEMMA WritingReads ==
  ASSUME RacesInv, NEW w \in Workers, SelectRow(w) \/ ReadBalance(w),
         NEW i, NEW j, NEW o, NEW d, Writing(w, i, j, o, d)
  PROVE  Writing(w, i, j, o, d)'
  <1>1. /\ plan'[w] = plan[w] /\ rows'[w] = rows[w] /\ rec' = rec
        /\ ~Idle(w) /\ saw \in [Workers -> Version \cup [balance: Int] \cup {None}]
    BY DEF SelectRow, ReadBalance, Doing, RacesInv, IInv, TypeOK
  <1>2. \A x : RowSeen(w, x)' = RowSeen(w, x)
    BY <1>1 DEF RowSeen
  <1>3. Now(w)' = Now(w) /\ Idle(w)' = Idle(w)
    BY <1>1 DEF Now, Idle
  <1>4. (Doing(w, "save") /\ saw[w] # None => saw[w] = RowSeen(w, Now(w).id))'
    <2>1. CASE SelectRow(w)
      <3>1. saw'[w] = RowSeen(w, Now(w).id)
        BY <1>1, <2>1 DEF SelectRow
      <3> QED
        BY <1>2, <1>3, <3>1
    <2>2. CASE ReadBalance(w)
      <3>1. Now(w).op = "adjust"
        BY <2>2 DEF ReadBalance, Doing
      <3> QED
        BY <1>3, <3>1 DEF Doing
    <2> QED
      BY <2>1, <2>2
  <1> QED
    BY <1>1, <1>4 DEF Writing

LEMMA WritingAdjusts ==
  ASSUME RacesInv, NEW w \in Workers, WriteBalance(w),
         NEW i, NEW j, NEW o, NEW d, Writing(w, i, j, o, d)
  PROVE  Writing(w, i, j, o, d)'
  <1> DEFINE S == Adjustments \cup {Save(i, o), Save(j, d), Finish}
  <1>1. ~Idle(w) /\ Now(w).op = "adjust" /\ Advance(w) /\ rows' = rows
    BY DEF WriteBalance, Doing
  <1>2. plan[w] \in Seq(S)
    BY DEF Writing
  <1>3. /\ Tail(plan[w]) \in Seq(S)
        /\ \A s : Has(plan[w], s) => s = Now(w) \/ Has(Tail(plan[w]), s)
    BY <1>1, <1>2, NowAndRest
  <1>4. plan'[w] = Tail(plan[w]) /\ saw'[w] = None
    BY <1>1, AdvancePlan
  <1>5. Now(w) # Save(i, o) /\ Now(w) # Save(j, d)
    BY <1>1 DEF Save
  <1> HIDE DEF S
  <1>6. plan'[w] \in Seq(S)
    BY <1>3, <1>4
  <1>7. \A s : Has(plan[w], s) /\ s # Now(w) => Has(plan'[w], s)
    BY <1>3, <1>4
  <1> QED
    BY <1>1, <1>4, <1>5, <1>6, <1>7 DEF Writing, S

LEMMA RemovingSteps ==
  ASSUME RacesInv, NEW w \in Workers, Statement(w), ~Doing(w, "commit"), ~Refuse(w),
         NEW i \in Ids, NEW j \in Ids, Removing(w, i, j), rec[i] # None, rec[j] # None
  PROVE  Removing(w, i, j)'
  <1> DEFINE S == Adjustments \cup {Remove(i), Remove(j), Finish}
  <1>1. ~Idle(w) /\ plan[w] \in Seq(S)
    BY DEF Removing, Statement, SelectRow, UpdateRow, InsertRow, SoftRemoveRow,
           ReadBalance, WriteBalance, Refuse, Commit, SavePatch, Doing
  <1>2. /\ Now(w) \in S /\ Tail(plan[w]) \in Seq(S)
        /\ \A s : Has(plan[w], s) => s = Now(w) \/ Has(Tail(plan[w]), s)
    BY <1>1, NowAndRest
  <1>3. Now(w).op = "adjust" \/ Now(w) = Remove(i) \/ Now(w) = Remove(j)
    BY <1>1, <1>2 DEF Adjustments, Finish, Doing
  <1>4. Now(w).op = "adjust" \/ Now(w).op = "remove"
    BY <1>3 DEF Remove
  <1>5. CASE ReadBalance(w)
    BY <1>5 DEF ReadBalance, Removing
  <1>6. CASE WriteBalance(w)
    <2>1. Now(w).op = "adjust" /\ Advance(w) /\ rows' = rows /\ rec' = rec
      BY <1>6 DEF WriteBalance, Doing
    <2>2. Now(w) # Remove(i) /\ Now(w) # Remove(j)
      BY <2>1 DEF Remove
    <2>3. plan'[w] = Tail(plan[w])
      BY <2>1, AdvancePlan
    <2> HIDE DEF S
    <2>4. plan'[w] \in Seq(S)
      BY <1>2, <2>3
    <2>5. \A s : Has(plan[w], s) /\ s # Now(w) => Has(plan'[w], s)
      BY <1>2, <2>3
    <2> QED
      BY <2>1, <2>2, <2>4, <2>5 DEF Removing, S
  <1>7. CASE SoftRemoveRow(w)
    <2>k. PICK k : k = Now(w).id
      OBVIOUS
    <2>n. PICK new : new = [RowSeen(w, k) EXCEPT !.gone = TRUE]
      OBVIOUS
    <2>1. Now(w).op = "remove" /\ Advance(w) /\ rec' = rec
      BY <1>7 DEF SoftRemoveRow, Doing
    <2>2. k = i \/ k = j
      BY <1>3, <2>k, <2>1 DEF Remove
    <2>3. rows' = [rows EXCEPT ![w] = Put(@, k, new)]
      BY <1>7, <2>k, <2>n DEF SoftRemoveRow
    <2>4. /\ DOMAIN rows'[w] = DOMAIN rows[w] \cup {k}
          /\ \A x \in DOMAIN rows'[w] : rows'[w][x] = IF x = k THEN new ELSE rows[w][x]
      BY <2>3 DEF RacesInv, Put
    <2>5. new = [rec[k] EXCEPT !.gone = TRUE]
      <3>1. rec[k] \in Version
        BY <2>2 DEF RacesInv, IInv, TypeOK
      <3>2. CASE k \in DOMAIN rows[w]
        <4>1. rows[w][k] = [rec[k] EXCEPT !.gone = TRUE]
          BY <3>2 DEF Removing
        <4> QED
          BY <2>n, <3>1, <3>2, <4>1 DEF RowSeen, Version
      <3>3. CASE k \notin DOMAIN rows[w]
        BY <2>n, <3>3 DEF RowSeen
      <3> QED
        BY <3>2, <3>3
    <2>6. plan'[w] = Tail(plan[w])
      BY <2>1, AdvancePlan
    <2>7. \A x \in DOMAIN rows'[w] : /\ x = i \/ x = j
                                     /\ rows'[w][x] = [rec[x] EXCEPT !.gone = TRUE]
      BY <2>2, <2>4, <2>5 DEF Removing
    <2>8. i \in DOMAIN rows'[w] \/ Has(plan'[w], Remove(i))
      <3>1. CASE Remove(i) = Now(w)
        <4>1. Remove(i).id = i
          BY DEF Remove
        <4> QED
          BY <2>k, <2>4, <3>1, <4>1
      <3> QED
        BY <1>2, <2>4, <2>6, <3>1 DEF Removing
    <2>9. j \in DOMAIN rows'[w] \/ Has(plan'[w], Remove(j))
      <3>1. CASE Remove(j) = Now(w)
        <4>1. Remove(j).id = j
          BY DEF Remove
        <4> QED
          BY <2>k, <2>4, <3>1, <4>1
      <3> QED
        BY <1>2, <2>4, <2>6, <3>1 DEF Removing
    <2> HIDE DEF S
    <2>10. plan'[w] \in Seq(S)
      BY <1>2, <2>6
    <2> QED
      BY <2>1, <2>7, <2>8, <2>9, <2>10 DEF Removing, S
  <1> QED
    BY <1>4, <1>5, <1>6, <1>7
    DEF Statement, SelectRow, UpdateRow, InsertRow, Commit, SavePatch, Doing

LEMMA PlainlySteps ==
  ASSUME RacesInv, NEW w \in Workers, Plainly(w),
         SelectRow(w) \/ UpdateRow(w) \/ InsertRow(w) \/ SoftRemoveRow(w)
           \/ ReadBalance(w) \/ WriteBalance(w)
  PROVE  Plainly(w)'
  <1>1. ~Idle(w) /\ plan[w] \in Seq(Plain) /\ rec' = rec
    BY DEF Plainly, SelectRow, UpdateRow, InsertRow, SoftRemoveRow, ReadBalance,
           WriteBalance, Doing
  <1>2. Now(w) \in Plain /\ Tail(plan[w]) \in Seq(Plain)
    BY <1>1, NowAndRest
  <1>3. Plain' = Plain
    BY <1>1 DEF Plain
  <1>4. CASE SelectRow(w) \/ ReadBalance(w)
    BY <1>3, <1>4 DEF Plainly, SelectRow, ReadBalance
  <1>5. CASE WriteBalance(w)
    <2>1. plan'[w] = Tail(plan[w]) /\ rows' = rows
      BY <1>5, AdvancePlan DEF WriteBalance
    <2> QED
      BY <1>1, <1>2, <1>3, <2>1 DEF Plainly
  <1>6. ASSUME NEW k \in Ids, NEW new \in Version, Advance(w),
               rows' = [rows EXCEPT ![w] = Put(@, k, new)],
               Bare(new.row), rec[k] # None => Bare(rec[k].row)
        PROVE  Plainly(w)'
    <2>1. plan'[w] = Tail(plan[w])
      BY <1>6, AdvancePlan
    <2>2. /\ DOMAIN rows'[w] = DOMAIN rows[w] \cup {k}
          /\ \A x \in DOMAIN rows'[w] : rows'[w][x] = IF x = k THEN new ELSE rows[w][x]
      BY <1>6 DEF RacesInv, Put
    <2>3. \A x \in DOMAIN rows'[w] : /\ Bare(rows'[w][x].row)
                                     /\ rec[x] # None => Bare(rec[x].row)
      BY <1>6, <2>2 DEF Plainly
    <2> QED
      BY <1>1, <1>2, <1>3, <2>1, <2>3 DEF Plainly
  <1>k. PICK k : k = Now(w).id
    OBVIOUS
  <1>7. CASE UpdateRow(w) \/ InsertRow(w)
    <2>1. Now(w).op = "save" /\ Advance(w)
      BY <1>7 DEF UpdateRow, InsertRow, Doing
    <2>2. /\ k \in Ids /\ Now(w).row \in L!Record /\ Bare(Now(w).row)
          /\ rec[k] # None => Bare(rec[k].row)
      BY <1>k, <1>2, <2>1 DEF Plain, Statements
    <2>3. CASE InsertRow(w)
      <3>1. PICK new : new = [row |-> Now(w).row, gone |-> FALSE]
        OBVIOUS
      <3>2. new \in Version /\ Bare(new.row)
        BY <2>2, <3>1 DEF Version
      <3>3. rows' = [rows EXCEPT ![w] = Put(@, k, new)]
        BY <1>k, <2>3, <3>1 DEF InsertRow
      <3> QED
        BY <1>6, <2>1, <2>2, <3>2, <3>3
    <2>4. CASE UpdateRow(w)
      <3>1. PICK new : new = Overlay(Now(w).row, saw[w], RowSeen(w, k))
        OBVIOUS
      <3>2. saw[w] \in Version /\ RowSeen(w, k) # None
        BY <1>k, <2>4 DEF UpdateRow, RacesInv, IInv, Selected, Doing
      <3>3. RowSeen(w, k) \in Version
        BY <2>2, <3>2, RowSeenType DEF RacesInv
      <3>4. Bare(RowSeen(w, k).row)
        BY <2>2, <3>2 DEF RowSeen, Plainly
      <3>5. Bare(new.row)
        BY <2>2, <3>1, <3>2, <3>3, <3>4, OverlayBare
      <3>6. new \in Version
        BY <2>2, <3>1, <3>2, <3>3 DEF Overlay, Version, L!Record
      <3>7. rows' = [rows EXCEPT ![w] = Put(@, k, new)]
        BY <1>k, <2>4, <3>1 DEF UpdateRow
      <3> QED
        BY <1>6, <2>1, <2>2, <3>5, <3>6, <3>7
    <2> QED
      BY <1>7, <2>3, <2>4
  <1>8. CASE SoftRemoveRow(w)
    <2>1. Now(w).op = "remove" /\ Advance(w)
      BY <1>8 DEF SoftRemoveRow, Doing
    <2>2. k \in Ids /\ rec[k] # None /\ Bare(rec[k].row)
      BY <1>k, <1>2, <2>1 DEF Plain, Statements
    <2>3. RowSeen(w, k) \in Version /\ Bare(RowSeen(w, k).row)
      BY <2>2 DEF RowSeen, Plainly, RacesInv, IInv, TypeOK
    <2>4. PICK new : new = [RowSeen(w, k) EXCEPT !.gone = TRUE]
      OBVIOUS
    <2>5. new \in Version /\ Bare(new.row)
      BY <2>3, <2>4 DEF Version
    <2>6. rows' = [rows EXCEPT ![w] = Put(@, k, new)]
      BY <1>k, <1>8, <2>4 DEF SoftRemoveRow
    <2> QED
      BY <1>6, <2>1, <2>2, <2>5, <2>6
  <1> QED
    BY <1>4, <1>5, <1>7, <1>8

\* The row lock of the origin account is kept, and taken by the first write.
LEMMA LocksSteps ==
  ASSUME RacesInv, NEW w \in Workers, NEW e, LocksFirst(w, e),
         SelectRow(w) \/ UpdateRow(w) \/ InsertRow(w) \/ SoftRemoveRow(w)
           \/ ReadBalance(w) \/ WriteBalance(w)
  PROVE  LocksFirst(w, e)'
  <1>1. CASE e \in DOMAIN bals[w]
    BY <1>1 DEF LocksFirst, SelectRow, UpdateRow, InsertRow, SoftRemoveRow, ReadBalance,
                WriteBalance, Put, RacesInv
  <1>2. CASE rows[w] = Nowhere /\ Doing(w, "adjust") /\ Now(w).entity = e
    <2>1. CASE ReadBalance(w)
      BY <1>2, <2>1 DEF LocksFirst, ReadBalance, Doing, Idle, Now
    <2>2. CASE WriteBalance(w)
      <3>1. PICK v : bals' = [bals EXCEPT ![w] = Put(@, e, v)]
        BY <1>2, <2>2 DEF WriteBalance
      <3>2. e \in DOMAIN bals'[w]
        BY <3>1 DEF Put, RacesInv
      <3> QED
        BY <3>2 DEF LocksFirst
    <2> QED
      BY <1>2, <2>1, <2>2 DEF SelectRow, UpdateRow, InsertRow, SoftRemoveRow, Doing
  <1> QED
    BY <1>1, <1>2 DEF LocksFirst

\* Whatever statement that does not end it a request runs, it stays of its kind.
LEMMA KindSteps ==
  ASSUME RacesInv, NEW w \in Workers,
         SelectRow(w) \/ UpdateRow(w) \/ InsertRow(w) \/ SoftRemoveRow(w)
           \/ ReadBalance(w) \/ WriteBalance(w)
  PROVE  InOneOfFourWays(w)'
  <1>1. rec' = rec
    BY DEF SelectRow, UpdateRow, InsertRow, SoftRemoveRow, ReadBalance, WriteBalance
  <1>2. \A g, s : Pair(g, s)' <=> Pair(g, s)
    BY <1>1 DEF Pair, Group
  <1>3. ASSUME NEW i \in Ids, NEW j \in Ids, NEW o, NEW d, Writing(w, i, j, o, d)
        PROVE  Writing(w, i, j, o, d)'
    <2>1. CASE SoftRemoveRow(w)
      <3>1. Now(w) \in Adjustments \cup {Save(i, o), Save(j, d), Finish}
        BY <1>3, <2>1, NowAndRest DEF Writing, SoftRemoveRow, Doing
      <3>2. Now(w).op # "remove"
        BY <3>1 DEF Adjustments, Save, Finish
      <3> QED
        BY <2>1, <3>2 DEF SoftRemoveRow, Doing
    <2> QED
      BY <1>3, <2>1, WritingSaves, WritingReads, WritingAdjusts
  <1>4. CASE Plainly(w)
    BY <1>4, PlainlySteps DEF InOneOfFourWays
  <1>5. CASE Creating(w)
    <2>1. PICK i, j \in Ids, o, d \in L!Record : CreatingPair(w, i, j, o, d)
      BY <1>5 DEF Creating
    <2>2. CreatingPair(w, i, j, o, d)'
      BY <1>1, <1>3, <2>1 DEF CreatingPair
    <2> QED
      BY <2>2 DEF Creating, InOneOfFourWays
  <1>6. CASE Updating(w)
    <2>1. PICK g, s \in Ids, o, d \in L!Record : UpdatingPair(w, g, s, o, d)
      BY <1>6 DEF Updating
    <2>2. PICK e : e = rec[g].row.origin
      OBVIOUS
    <2>3. LocksFirst(w, e)'
      BY <2>1, <2>2, LocksSteps DEF UpdatingPair
    <2>4. UpdatingPair(w, g, s, o, d)'
      BY <1>1, <1>2, <1>3, <2>1, <2>2, <2>3 DEF UpdatingPair
    <2> QED
      BY <2>4 DEF Updating, InOneOfFourWays
  <1>7. CASE Deleting(w)
    <2>1. PICK g, s \in Ids : DeletingPair(w, g, s)
      BY <1>7 DEF Deleting
    <2>2. PICK e : e = rec[g].row.origin
      OBVIOUS
    <2>3. LocksFirst(w, e)'
      BY <2>1, <2>2, LocksSteps DEF DeletingPair
    <2>4. ~Doing(w, "commit") /\ ~Refuse(w) /\ Statement(w)
      BY DEF SelectRow, UpdateRow, InsertRow, SoftRemoveRow, ReadBalance, WriteBalance,
             Refuse, Doing, Statement
    <2>5. rec[g] # None /\ rec[s] # None
      BY <2>1, PairStored DEF DeletingPair, RacesInv
    <2>6. Removing(w, g, s)'
      BY <2>1, <2>4, <2>5, RemovingSteps DEF DeletingPair
    <2>7. DeletingPair(w, g, s)'
      BY <1>1, <1>2, <2>1, <2>2, <2>3, <2>6 DEF DeletingPair
    <2> QED
      BY <2>7 DEF Deleting, InOneOfFourWays
  <1> QED
    BY <1>4, <1>5, <1>6, <1>7 DEF RacesInv, InOneOfFourWays

LEMMA StatementKeepsRaces ==
  ASSUME RacesInv, IInv', NEW w \in Workers, Statement(w), ~Commit(w)
  PROVE  RacesInv'
  <1>1. CASE Refuse(w) \/ SavePatch(w)
    BY <1>1, RollbackKeepsRaces DEF Refuse, SavePatch
  <1>2. CASE SelectRow(w) \/ ReadBalance(w)
    <2>1. /\ rec' = rec /\ plan'[w] = plan[w] /\ rows' = rows /\ bals' = bals /\ ~Idle(w)
          /\ \A x \in Workers \ {w} : plan'[x] = plan[x] /\ saw'[x] = saw[x]
      BY <1>2 DEF SelectRow, ReadBalance, Doing, RacesInv, IInv, TypeOK
    <2>2. InOneOfFourWays(w)'
      BY <1>2, KindSteps
    <2>3. \A i : Holds(w, i)' = Holds(w, i)
      BY <2>1 DEF Holds
    <2>4. plan'[w] # <<>> /\ EndsLast(plan'[w])
      BY <2>1 DEF Idle, RacesInv
    <2>5. \A x \in Workers \ {w} : DOMAIN bals'[w] \cap DOMAIN bals[x] = {}
      BY <2>1 DEF RacesInv, OneOwner
    <2> QED
      BY <2>1, <2>2, <2>3, <2>4, <2>5, StepKeepsRaces
  <1>3. CASE UpdateRow(w) \/ InsertRow(w) \/ SoftRemoveRow(w)
    <2>1. /\ ~Idle(w) /\ Advance(w) /\ rec' = rec /\ bals' = bals
          /\ Now(w).op \in {"save", "remove"}
      BY <1>3 DEF UpdateRow, InsertRow, SoftRemoveRow, Doing
    <2>2. InOneOfFourWays(w)'
      BY <1>3, KindSteps
    <2>3. Now(w).op \notin Endings
      BY <2>1 DEF Endings
    <2>4. \A x \in Workers \ {w} : DOMAIN bals'[w] \cap DOMAIN bals[x] = {}
      BY <2>1 DEF RacesInv, OneOwner
    <2>5. /\ DOMAIN rows' = DOMAIN rows
          /\ \A x \in Workers \ {w} : rows'[x] = rows[x]
          /\ DOMAIN rows'[w] = DOMAIN rows[w] \cup {Now(w).id}
      BY <1>3 DEF UpdateRow, InsertRow, SoftRemoveRow, RacesInv, Put
    <2>6. Now(w).op = "remove" => rec[Now(w).id] # None
      BY <2>1, HeadRunnable DEF Runnable, RacesInv
    <2>7. \A i \in DOMAIN rows'[w] : \/ i \in DOMAIN rows[w] \/ rec[i] # None
                                     \/ Now(w).op = "save" /\ Now(w).id = i
      BY <2>1, <2>5, <2>6
    <2> QED
      BY <2>1, <2>2, <2>3, <2>4, <2>5, <2>7, AdvanceKeepsRaces
  <1>4. CASE WriteBalance(w)
    <2>1. /\ ~Idle(w) /\ Advance(w) /\ rec' = rec /\ rows' = rows /\ Now(w).op = "adjust"
          /\ Free(w) /\ saw[w] # None
      BY <1>4 DEF WriteBalance, Doing
    <2>2. InOneOfFourWays(w)'
      BY <1>4, KindSteps
    <2>3. Now(w).op \notin Endings
      BY <2>1 DEF Endings
    <2>4. /\ DOMAIN bals' = DOMAIN bals
          /\ \A x \in Workers \ {w} : bals'[x] = bals[x]
          /\ DOMAIN bals'[w] = DOMAIN bals[w] \cup {Now(w).entity}
      BY <1>4 DEF WriteBalance, RacesInv, Put
    <2>5. Target(w) = {Now(w).entity}
      BY <2>1 DEF Target, Doing
    <2>6. \A x \in Workers \ {w} : Now(w).entity \notin DOMAIN bals[x]
      BY <2>1, <2>5 DEF Free, Holders, Locks
    <2>7. \A x \in Workers \ {w} : DOMAIN bals'[w] \cap DOMAIN bals[x] = {}
      BY <2>4, <2>6 DEF RacesInv, OneOwner
    <2> QED
      BY <2>1, <2>2, <2>3, <2>4, <2>7, AdvanceKeepsRaces
  <1> QED
    BY <1>1, <1>2, <1>3, <1>4 DEF Statement

-----------------------------------------------------------------------------
(***************************************************************************)
(* What a commit does to the stored rows.                                  *)
(***************************************************************************)
PlainCommit ==
  \A i \in Ids :
    \/ rec'[i] = rec[i]
    \/ rec'[i] # None /\ Bare(rec'[i].row) /\ (rec[i] # None => Bare(rec[i].row))

\* The rows of g and s become the legs of transfer g; the others stay.
LegsWritten(g, s) ==
  /\ g \in Ids /\ s \in Ids /\ g # s
  /\ rec'[g] \in Version /\ rec'[s] \in Version
  /\ Twins(g, rec'[g].row, rec'[s].row)
  /\ rec'[g].gone = rec'[s].gone
  /\ \A k \in Ids \ {g, s} : rec'[k] = rec[k]

NewPairCommit(i, j) == LegsWritten(i, j) /\ rec[i] = None /\ rec[j] = None

PairCommit(w, g, s) ==
  /\ Pair(g, s) /\ LegsWritten(g, s)
  /\ Alike(rec[g].row, rec'[g].row) /\ Alike(rec[s].row, rec'[s].row)
  /\ rec[g].row.origin \in DOMAIN bals[w]

LEMMA CommitCases ==
  ASSUME RacesInv, NEW w \in Workers, Commit(w)
  PROVE  \/ PlainCommit
         \/ \E i, j \in Ids : NewPairCommit(i, j)
         \/ \E g, s \in Ids : PairCommit(w, g, s)
  <1>1. /\ ~Idle(w) /\ Now(w).op = "commit"
        /\ rec' = [i \in Ids |-> IF i \in DOMAIN rows[w] THEN rows[w][i] ELSE rec[i]]
    BY DEF Commit, Doing
  <1>2. \A s : Has(plan[w], s) => s = Now(w)
    <2>1. plan[w] \in Seq(Statements) /\ plan[w] # <<>> /\ EndsLast(plan[w])
      BY <1>1 DEF RacesInv, IInv, TypeOK, Idle
    <2>2. Head(plan[w]).op \in Endings
      BY <1>1 DEF Now, Endings
    <2> QED
      BY <2>1, <2>2, EndsLastEnd DEF Now
  <1>3. \A i, o : ~Has(plan[w], Save(i, o)) /\ ~Has(plan[w], Remove(i))
    <2>1. \A i, o : Save(i, o).op # "commit" /\ Remove(i).op # "commit"
      BY DEF Save, Remove
    <2> QED
      BY <1>1, <1>2, <2>1
  <1>4. CASE Plainly(w)
    <2>1. ASSUME NEW i \in Ids
          PROVE  \/ rec'[i] = rec[i]
                 \/ rec'[i] # None /\ Bare(rec'[i].row) /\ (rec[i] # None => Bare(rec[i].row))
      <3>1. CASE i \in DOMAIN rows[w]
        <4>1. rows[w][i] \in Version
          BY <3>1 DEF RacesInv, IInv, TypeOK
        <4> QED
          BY <1>1, <1>4, <3>1, <4>1, VersionAssumption DEF Plainly
      <3>2. CASE i \notin DOMAIN rows[w]
        BY <1>1, <3>2
      <3> QED
        BY <3>1, <3>2
    <2> QED
      BY <2>1 DEF PlainCommit
  <1>5. ASSUME NEW i \in Ids, NEW j \in Ids, i # j, NEW o \in L!Record, NEW d \in L!Record,
               Twins(i, o, d), Writing(w, i, j, o, d)
        PROVE  /\ LegsWritten(i, j)
               /\ rec'[i].row = o /\ rec'[j].row = d
               /\ rows[w] # Nowhere
    <2>1. i \in DOMAIN rows[w] /\ j \in DOMAIN rows[w]
      BY <1>3, <1>5 DEF Writing
    <2>2. rec'[i] = [row |-> o, gone |-> FALSE] /\ rec'[j] = [row |-> d, gone |-> FALSE]
      BY <1>1, <1>5, <2>1 DEF Writing
    <2>3. \A k \in Ids \ {i, j} : rec'[k] = rec[k]
      BY <1>1, <1>5 DEF Writing
    <2>4. rec'[i] \in Version /\ rec'[j] \in Version
      BY <2>2 DEF Version
    <2>5. rows[w] # Nowhere
      BY <2>1 DEF Nowhere
    <2> QED
      BY <1>5, <2>2, <2>3, <2>4, <2>5 DEF LegsWritten
  <1>6. CASE Creating(w)
    <2>1. PICK i, j \in Ids, o, d \in L!Record : CreatingPair(w, i, j, o, d)
      BY <1>6 DEF Creating
    <2>2. NewPairCommit(i, j)
      BY <1>5, <2>1 DEF CreatingPair, NewPairCommit
    <2> QED
      BY <2>2
  <1>7. CASE Updating(w)
    <2>1. PICK g, s \in Ids, o, d \in L!Record : UpdatingPair(w, g, s, o, d)
      BY <1>7 DEF Updating
    <2>2. /\ LegsWritten(g, s) /\ rec'[g].row = o /\ rec'[s].row = d
          /\ rows[w] # Nowhere
      BY <1>5, <2>1 DEF UpdatingPair, Pair
    <2>3. rec[g].row.origin \in DOMAIN bals[w]
      BY <2>1, <2>2 DEF UpdatingPair, LocksFirst
    <2>4. PairCommit(w, g, s)
      BY <2>1, <2>2, <2>3 DEF UpdatingPair, PairCommit
    <2> QED
      BY <2>4
  <1>8. CASE Deleting(w)
    <2>1. PICK g, s \in Ids : DeletingPair(w, g, s)
      BY <1>8 DEF Deleting
    <2>2. g \in DOMAIN rows[w] /\ s \in DOMAIN rows[w]
      BY <1>3, <2>1 DEF DeletingPair, Removing
    <2>3. /\ rec'[g] = [rec[g] EXCEPT !.gone = TRUE] /\ rec'[s] = [rec[s] EXCEPT !.gone = TRUE]
          /\ \A k \in Ids \ {g, s} : rec'[k] = rec[k]
      BY <1>1, <2>1, <2>2 DEF DeletingPair, Removing
    <2>4. rec[g] \in Version /\ rec[s] \in Version /\ Pair(g, s)
      BY <2>1, PairStored DEF DeletingPair, RacesInv
    <2>5. /\ rec'[g].row = rec[g].row /\ rec'[s].row = rec[s].row
          /\ rec'[g].gone = TRUE /\ rec'[s].gone = TRUE
          /\ rec'[g] \in Version /\ rec'[s] \in Version
      BY <2>3, <2>4 DEF Version
    <2>6. LegsWritten(g, s)
      BY <2>3, <2>4, <2>5 DEF LegsWritten, Pair
    <2>7. \A r \in L!Record : Alike(r, r)
      BY DEF Alike, L!Record
    <2>8. rec[g].row \in L!Record /\ rec[s].row \in L!Record
      BY <2>4 DEF Version
    <2>9. rec[g].row.origin \in DOMAIN bals[w]
      <3>1. rows[w] # Nowhere
        BY <2>2 DEF Nowhere
      <3> QED
        BY <2>1, <3>1 DEF DeletingPair, LocksFirst
    <2>10. PairCommit(w, g, s)
      BY <2>4, <2>5, <2>6, <2>7, <2>8, <2>9 DEF PairCommit
    <2> QED
      BY <2>10
  <1> QED
    BY <1>4, <1>6, <1>7, <1>8 DEF RacesInv, InOneOfFourWays

\* Pairs stay pairs, of the same columns but the amount, and a pair changes only
\* under the row lock of its origin account.
LEMMA CommitPairs ==
  ASSUME RacesInv, NEW w \in Workers, Commit(w), NEW h, NEW t, Pair(h, t)
  PROVE  /\ Pair(h, t)'
         /\ Alike(rec[h].row, rec'[h].row) /\ Alike(rec[t].row, rec'[t].row)
         /\ \/ rec'[h] = rec[h] /\ rec'[t] = rec[t]
            \/ rec[h].row.origin \in DOMAIN bals[w]
  <1>1. /\ h \in Ids /\ t \in Ids /\ h # t
        /\ rec[h] \in Version /\ rec[t] \in Version /\ rec[h] # None /\ rec[t] # None
        /\ rec[h].row.group = h /\ rec[t].row.group = h
        /\ Group(h) = {h, t} /\ h # None
    BY PairStored, LedgerTxAssumption DEF Pair, RacesInv
  <1>2. \A r \in L!Record : Alike(r, r)
    BY DEF Alike, L!Record
  <1>3. rec[h].row \in L!Record /\ rec[t].row \in L!Record
    BY <1>1 DEF Version
  <1>4. ASSUME rec'[h] = rec[h], rec'[t] = rec[t],
               \A k \in Ids \ {h, t} :
                 rec'[k] # None => rec'[k] = rec[k] \/ rec'[k].row.group # h
        PROVE  Pair(h, t)'
    <2>1. Group(h)' = {h, t}
      BY <1>1, <1>4 DEF Group
    <2> QED
      BY <1>4, <2>1 DEF Pair
  <1>5. CASE PlainCommit
    <2>1. ~Bare(rec[h].row) /\ ~Bare(rec[t].row)
      BY <1>1 DEF Bare
    <2>2. rec'[h] = rec[h] /\ rec'[t] = rec[t]
      BY <1>1, <1>5, <2>1 DEF PlainCommit
    <2>3. \A k \in Ids : rec'[k] = rec[k] \/ rec'[k].row.group # h
      BY <1>1, <1>5 DEF PlainCommit, Bare
    <2> QED
      BY <1>2, <1>3, <1>4, <2>2, <2>3
  <1>6. ASSUME NEW i \in Ids, NEW j \in Ids, NewPairCommit(i, j)
        PROVE  /\ Pair(h, t)' /\ rec'[h] = rec[h] /\ rec'[t] = rec[t]
    <2>1. /\ i # h /\ i # t /\ j # h /\ j # t
          /\ rec'[i].row.group = i /\ rec'[j].row.group = i
          /\ \A k \in Ids \ {i, j} : rec'[k] = rec[k]
      BY <1>1, <1>6 DEF NewPairCommit, LegsWritten, Twins
    <2>2. rec'[h] = rec[h] /\ rec'[t] = rec[t]
      BY <1>1, <2>1
    <2>3. \A k \in Ids : rec'[k] = rec[k] \/ rec'[k].row.group # h
      BY <2>1
    <2> QED
      BY <1>4, <2>2, <2>3
  <1>7. ASSUME NEW g \in Ids, NEW s \in Ids, PairCommit(w, g, s), g # h
        PROVE  /\ Pair(h, t)' /\ rec'[h] = rec[h] /\ rec'[t] = rec[t]
    <2>1. g # t /\ s # h /\ s # t
      BY <1>7, OnePair DEF PairCommit
    <2>2. /\ rec'[g].row.group = g /\ rec'[s].row.group = g
          /\ \A k \in Ids \ {g, s} : rec'[k] = rec[k]
      BY <1>7 DEF PairCommit, LegsWritten, Twins
    <2>3. rec'[h] = rec[h] /\ rec'[t] = rec[t]
      BY <1>1, <1>7, <2>1, <2>2
    <2>4. \A k \in Ids : rec'[k] = rec[k] \/ rec'[k].row.group # h
      BY <1>7, <2>2
    <2> QED
      BY <1>4, <2>3, <2>4
  <1>8. ASSUME NEW s \in Ids, PairCommit(w, h, s)
        PROVE  /\ Pair(h, t)' /\ s = t
               /\ Alike(rec[h].row, rec'[h].row) /\ Alike(rec[t].row, rec'[t].row)
               /\ rec[h].row.origin \in DOMAIN bals[w]
    <2>1. s = t
      BY <1>8, OnePair DEF PairCommit
    <2>2. /\ rec'[h].row.group = h /\ rec'[t].row.group = h
          /\ rec'[h] # None /\ rec'[t] # None
          /\ \A k \in Ids \ {h, t} : rec'[k] = rec[k]
      BY <1>8, <2>1, VersionAssumption DEF PairCommit, LegsWritten, Twins
    <2>3. Group(h)' = {h, t}
      BY <1>1, <2>2 DEF Group
    <2>4. Pair(h, t)'
      BY <1>1, <1>8, <2>1, <2>3 DEF Pair, PairCommit, LegsWritten
    <2> QED
      BY <1>8, <2>1, <2>4 DEF PairCommit
  <1> QED
    BY <1>2, <1>3, <1>5, <1>6, <1>7, <1>8, CommitCases

\* A plain row stays plain.
LEMMA CommitBare ==
  ASSUME RacesInv, NEW w \in Workers, Commit(w), NEW k \in Ids, rec[k] # None,
         Bare(rec[k].row)
  PROVE  rec'[k] # None /\ Bare(rec'[k].row)
  <1>1. CASE PlainCommit
    BY <1>1 DEF PlainCommit
  <1>2. ASSUME NEW i \in Ids, NEW j \in Ids, NewPairCommit(i, j)
        PROVE  rec'[k] = rec[k]
    BY <1>2 DEF NewPairCommit, LegsWritten
  <1>3. ASSUME NEW g \in Ids, NEW s \in Ids, PairCommit(w, g, s)
        PROVE  rec'[k] = rec[k]
    <2>1. rec[g].row.group # None /\ rec[s].row.group # None
      BY <1>3, PairStored, LedgerTxAssumption DEF PairCommit, RacesInv
    <2>2. k # g /\ k # s
      BY <2>1 DEF Bare
    <2> QED
      BY <1>3, <2>2 DEF PairCommit, LegsWritten
  <1> QED
    BY <1>1, <1>2, <1>3, CommitCases

LEMMA CommitPaired ==
  ASSUME RacesInv, NEW w \in Workers, Commit(w)
  PROVE  Paired'
  <1> SUFFICES ASSUME NEW i \in Ids, rec'[i] # None, ~Bare(rec'[i].row),
                      NEW h, h = rec'[i].row.group
               PROVE  \E s \in Ids : Pair(h, s)'
    BY DEF Paired
  <1>1. ASSUME rec[i] # None
        PROVE  \E s \in Ids : Pair(h, s)'
    <2>1. ~Bare(rec[i].row)
      BY <1>1, CommitBare
    <2>2. PICK g : g = rec[i].row.group
      OBVIOUS
    <2>3. PICK s \in Ids : Pair(g, s)
      BY <1>1, <2>1, <2>2 DEF RacesInv, Paired
    <2>4. i = g \/ i = s
      BY <1>1, <2>2, <2>3 DEF Pair, Group
    <2>5. Pair(g, s)' /\ Alike(rec[i].row, rec'[i].row)
      BY <2>3, <2>4, CommitPairs
    <2>6. rec[i].row \in L!Record
      BY <1>1 DEF RacesInv, IInv, TypeOK, Version
    <2>7. rec'[i].row.group = g
      BY <2>2, <2>5, <2>6 DEF Alike, L!Record
    <2> QED
      BY <2>5, <2>7
  <1>2. ASSUME rec[i] = None
        PROVE  \E s \in Ids : Pair(h, s)'
    <2>1. rec'[i] # rec[i] /\ ~PlainCommit
      BY <1>2 DEF PlainCommit
    <2>2. ASSUME NEW g \in Ids, NEW s \in Ids, PairCommit(w, g, s)
          PROVE  FALSE
      <3>1. rec[g] # None /\ rec[s] # None
        BY <2>2, PairStored DEF PairCommit, RacesInv
      <3> QED
        BY <1>2, <2>1, <2>2, <3>1 DEF PairCommit, LegsWritten
    <2>3. PICK g, s \in Ids : NewPairCommit(g, s)
      BY <2>1, <2>2, CommitCases
    <2>4. (i = g \/ i = s) /\ rec'[i].row.group = g
      BY <2>1, <2>3 DEF NewPairCommit, LegsWritten, Twins
    <2>5. ASSUME NEW k \in Ids, rec[k] # None
          PROVE  rec[k].row.group # g
      <3>1. CASE rec[k].row.group = g
        <4>1. ~Bare(rec[k].row)
          BY <3>1, LedgerTxAssumption DEF Bare
        <4>2. PICK t \in Ids : Pair(g, t)
          BY <2>5, <3>1, <4>1 DEF RacesInv, Paired
        <4>3. rec[g] # None
          BY <4>2, PairStored DEF RacesInv
        <4> QED
          BY <2>3, <4>3 DEF NewPairCommit
      <3> QED
        BY <3>1
    <2>6. /\ rec'[g] # None /\ rec'[s] # None
          /\ rec'[g].row.group = g /\ rec'[s].row.group = g
          /\ \A k \in Ids \ {g, s} : rec'[k] = rec[k]
      BY <2>3, VersionAssumption DEF NewPairCommit, LegsWritten, Twins
    <2>7. Group(g)' = {g, s}
      BY <2>5, <2>6 DEF Group
    <2>8. Pair(g, s)'
      BY <2>3, <2>7 DEF NewPairCommit, LegsWritten, Pair
    <2> QED
      BY <2>4, <2>8
  <1> QED
    BY <1>1, <1>2

\* The others are of their kind as before.
LEMMA CommitElsewhere ==
  ASSUME RacesInv, NEW w \in Workers, Commit(w), NEW x \in Workers \ {w},
         plan'[x] = plan[x], saw'[x] = saw[x], rows'[x] = rows[x], bals'[x] = bals[x]
  PROVE  InOneOfFourWays(x)'
  <1>1. ASSUME NEW k \in Ids, rec[k] = None, Holds(x, k)
        PROVE  rec'[k] = None
    <2>1. k \notin DOMAIN rows[w]
      BY <1>1 DEF RacesInv, OneOwner, Holds
    <2> QED
      BY <1>1, <2>1 DEF Commit
  <1>2. CASE Plainly(x)
    <2>1. ASSUME NEW k \in 1 .. Len(plan[x])
          PROVE  plan[x][k] \in Plain'
      <3>1. plan[x][k] \in Plain
        BY <1>2 DEF Plainly
      <3>2. CASE plan[x][k].op = "save"
        <4>1. Holds(x, plan[x][k].id) /\ plan[x][k].id \in Ids
          BY <3>1, <3>2 DEF Holds, Plain, Statements
        <4>2. rec'[plan[x][k].id] # None => Bare(rec'[plan[x][k].id].row)
          BY <1>1, <3>1, <3>2, <4>1, CommitBare DEF Plain
        <4> QED
          BY <3>1, <3>2, <4>2 DEF Plain
      <3>3. CASE plan[x][k].op = "remove"
        <4>1. plan[x][k].id \in Ids
          BY <3>1, <3>3 DEF Plain, Statements
        <4>2. rec'[plan[x][k].id] # None /\ Bare(rec'[plan[x][k].id].row)
          BY <3>1, <3>3, <4>1, CommitBare DEF Plain
        <4> QED
          BY <3>1, <3>3, <4>2 DEF Plain
      <3>4. CASE plan[x][k].op \notin {"save", "remove"}
        BY <3>1, <3>4 DEF Plain
      <3> QED
        BY <3>2, <3>3, <3>4
    <2>2. plan[x] \in Seq(Statements)
      BY DEF RacesInv, IInv, TypeOK
    <2>3. plan[x] \in Seq(Plain')
      BY <2>1, <2>2
    <2>4. ASSUME NEW i \in DOMAIN rows[x], rec'[i] # None
          PROVE  Bare(rec'[i].row)
      <3>1. i \in Ids /\ Holds(x, i)
        BY <2>4 DEF RacesInv, IInv, TypeOK, Holds
      <3> QED
        BY <1>1, <1>2, <2>4, <3>1, CommitBare DEF Plainly
    <2> QED
      BY <1>2, <2>3, <2>4 DEF Plainly, InOneOfFourWays
  <1>3. ASSUME NEW i \in Ids, NEW j \in Ids, NEW o, NEW d, Writing(x, i, j, o, d),
               Doing(x, "save") => rec'[i] = rec[i] /\ rec'[j] = rec[j]
        PROVE  Writing(x, i, j, o, d)'
    <2>1. Doing(x, "save")' = Doing(x, "save") /\ Now(x)' = Now(x)
      BY DEF Doing, Idle, Now
    <2>2. ASSUME Doing(x, "save"), saw[x] # None
          PROVE  saw[x] = RowSeen(x, Now(x).id)'
      <3>1. Now(x) \in Adjustments \cup {Save(i, o), Save(j, d), Finish}
        BY <1>3, <2>2, NowAndRest DEF Writing, Doing
      <3>2. Now(x).id = i \/ Now(x).id = j
        BY <2>2, <3>1 DEF Doing, Adjustments, Save, Finish
      <3>3. RowSeen(x, Now(x).id)' = RowSeen(x, Now(x).id)
        BY <1>3, <2>1, <2>2, <3>2 DEF RowSeen
      <3> QED
        BY <1>3, <2>2, <3>3 DEF Writing
    <2> QED
      BY <1>3, <2>1, <2>2 DEF Writing
  <1>4. CASE Creating(x)
    <2>1. PICK i, j \in Ids, o, d \in L!Record : CreatingPair(x, i, j, o, d)
      BY <1>4 DEF Creating
    <2>2. \A s : Has(plan[x], s) /\ s.op = "save" => Holds(x, s.id)
      BY DEF Has, Holds
    <2>3. \A k, r : Save(k, r).op = "save" /\ Save(k, r).id = k
      BY DEF Save
    <2>4. Holds(x, i) /\ Holds(x, j)
      BY <2>1, <2>2, <2>3 DEF CreatingPair, Writing, Holds
    <2>5. rec'[i] = None /\ rec'[j] = None
      BY <1>1, <2>1, <2>4 DEF CreatingPair
    <2>6. CreatingPair(x, i, j, o, d)'
      BY <1>3, <2>1, <2>5 DEF CreatingPair
    <2> QED
      BY <2>6 DEF Creating, InOneOfFourWays
  <1>5. ASSUME NEW g \in Ids, NEW s \in Ids, Pair(g, s), LocksFirst(x, rec[g].row.origin)
        PROVE  /\ Pair(g, s)' /\ LocksFirst(x, rec[g].row.origin)'
               /\ Alike(rec[g].row, rec'[g].row) /\ Alike(rec[s].row, rec'[s].row)
               /\ rec[g].row \in L!Record /\ rec[s].row \in L!Record
               /\ Doing(x, "save") \/ rows[x] # Nowhere
                    => rec'[g] = rec[g] /\ rec'[s] = rec[s]
    <2>1. /\ Pair(g, s)'
          /\ Alike(rec[g].row, rec'[g].row) /\ Alike(rec[s].row, rec'[s].row)
          /\ \/ rec'[g] = rec[g] /\ rec'[s] = rec[s]
             \/ rec[g].row.origin \in DOMAIN bals[w]
      BY <1>5, CommitPairs
    <2>2. rec[g].row \in L!Record /\ rec[s].row \in L!Record
      BY <1>5, PairStored DEF RacesInv, Version
    <2>3. rec'[g].row.origin = rec[g].row.origin
      BY <2>1, <2>2 DEF Alike, L!Record
    <2>4. LocksFirst(x, rec[g].row.origin)'
      BY <1>5, <2>3 DEF LocksFirst, Doing, Idle, Now
    <2>5. ASSUME Doing(x, "save") \/ rows[x] # Nowhere
          PROVE  rec'[g] = rec[g] /\ rec'[s] = rec[s]
      <3>1. rec[g].row.origin \in DOMAIN bals[x]
        BY <1>5, <2>5 DEF LocksFirst, Doing
      <3>2. rec[g].row.origin \notin DOMAIN bals[w]
        BY <3>1 DEF RacesInv, OneOwner
      <3> QED
        BY <2>1, <3>2
    <2> QED
      BY <2>1, <2>2, <2>4, <2>5
  <1>6. CASE Updating(x)
    <2>1. PICK g, s \in Ids, o, d \in L!Record : UpdatingPair(x, g, s, o, d)
      BY <1>6 DEF Updating
    <2>2. /\ Pair(g, s)' /\ LocksFirst(x, rec[g].row.origin)'
          /\ Alike(rec[g].row, rec'[g].row) /\ Alike(rec[s].row, rec'[s].row)
          /\ rec[g].row \in L!Record /\ rec[s].row \in L!Record
          /\ Doing(x, "save") => rec'[g] = rec[g] /\ rec'[s] = rec[s]
      BY <1>5, <2>1 DEF UpdatingPair
    <2>3. ASSUME NEW r \in L!Record, NEW q, NEW t, Alike(r, q), Alike(r, t)
          PROVE  Alike(q, t)
      BY <2>3 DEF Alike, L!Record
    <2>4. Alike(rec'[g].row, o) /\ Alike(rec'[s].row, d)
      BY <2>1, <2>2, <2>3 DEF UpdatingPair
    <2>5. Writing(x, g, s, o, d)'
      BY <1>3, <2>1, <2>2 DEF UpdatingPair
    <2>6. UpdatingPair(x, g, s, o, d)'
      BY <2>1, <2>2, <2>4, <2>5 DEF UpdatingPair
    <2> QED
      BY <2>6 DEF Updating, InOneOfFourWays
  <1>7. CASE Deleting(x)
    <2>1. PICK g, s \in Ids : DeletingPair(x, g, s)
      BY <1>7 DEF Deleting
    <2>2. /\ Pair(g, s)' /\ LocksFirst(x, rec[g].row.origin)'
          /\ rows[x] # Nowhere => rec'[g] = rec[g] /\ rec'[s] = rec[s]
      BY <1>5, <2>1 DEF DeletingPair
    <2>3. ASSUME NEW k \in DOMAIN rows[x]
          PROVE  (k = g \/ k = s) /\ rec'[k] = rec[k]
      <3>1. rows[x] # Nowhere
        BY <2>3 DEF Nowhere
      <3> QED
        BY <2>1, <2>2, <3>1 DEF DeletingPair, Removing
    <2>4. Removing(x, g, s)'
      BY <2>1, <2>3 DEF DeletingPair, Removing
    <2>5. DeletingPair(x, g, s)'
      BY <2>2, <2>4 DEF DeletingPair
    <2> QED
      BY <2>5 DEF Deleting, InOneOfFourWays
  <1> QED
    BY <1>2, <1>4, <1>6, <1>7 DEF RacesInv, InOneOfFourWays

LEMMA CommitKeepsRaces ==
  ASSUME RacesInv, IInv', NEW w \in Workers, Commit(w)
  PROVE  RacesInv'
  <1>1. /\ plan'[w] = <<>> /\ rows'[w] = Nowhere /\ bals'[w] = Nowhere
        /\ DOMAIN rows' = DOMAIN rows /\ DOMAIN bals' = DOMAIN bals
        /\ \A x \in Workers \ {w} : /\ plan'[x] = plan[x] /\ saw'[x] = saw[x]
                                    /\ rows'[x] = rows[x] /\ bals'[x] = bals[x]
    BY DEF Commit, EndOf, RacesInv, IInv, TypeOK
  <1>2. DOMAIN Nowhere = {}
    BY DEF Nowhere
  <1>3. Plainly(w)'
    <2>1. <<>> \in Seq(Plain')
      OBVIOUS
    <2> QED
      BY <1>1, <1>2, <2>1 DEF Plainly
  <1>4. ASSUME NEW x \in Workers
        PROVE  /\ EndsLast(plan'[x])
               /\ plan'[x] = <<>> => rows'[x] = Nowhere
               /\ InOneOfFourWays(x)'
    <2>1. CASE x = w
      BY <1>1, <1>3, <2>1 DEF InOneOfFourWays, EndsLast
    <2>2. CASE x # w
      <3>1. InOneOfFourWays(x)'
        BY <1>1, <2>2, CommitElsewhere
      <3> QED
        BY <1>1, <2>2, <3>1 DEF RacesInv, Idle
    <2> QED
      BY <2>1, <2>2
  <1>5. /\ \A i : ~Holds(w, i)'
        /\ \A x \in Workers \ {w} : \A i : Holds(x, i)' = Holds(x, i)
    BY <1>1, <1>2 DEF Holds
  <1>6. ASSUME NEW i \in Ids, rec'[i] = None
        PROVE  rec[i] = None
    BY <1>6, VersionAssumption DEF Commit, RacesInv, IInv, TypeOK
  <1>7. OneOwner'
    <2> SUFFICES ASSUME NEW v \in Workers, NEW x \in Workers, v # x
                 PROVE  /\ DOMAIN bals'[v] \cap DOMAIN bals'[x] = {}
                        /\ \A i \in Ids : rec'[i] = None => ~(Holds(v, i)' /\ Holds(x, i)')
      BY DEF OneOwner
    <2>1. DOMAIN bals'[v] \cap DOMAIN bals'[x] = {}
      BY <1>1, <1>2 DEF RacesInv, OneOwner
    <2>2. ASSUME NEW i \in Ids, rec'[i] = None, Holds(v, i)', Holds(x, i)'
          PROVE  FALSE
      <3>1. v # w /\ x # w /\ Holds(v, i) /\ Holds(x, i)
        BY <1>5, <2>2
      <3> QED
        BY <1>6, <2>2, <3>1 DEF RacesInv, OneOwner
    <2> QED
      BY <2>1, <2>2
  <1>8. Paired'
    BY CommitPaired
  <1> QED
    BY <1>1, <1>4, <1>7, <1>8 DEF RacesInv, Idle

-----------------------------------------------------------------------------
(***************************************************************************)
(* Requests begin as one of the four kinds.                                *)
(***************************************************************************)
\* A request may save what is stored, or what it was given a new id for.
LEMMA BeginKeepsRaces ==
  ASSUME RacesInv, IInv', NEW w \in Workers, NEW T, NEW ss \in Seq(T), NEW loaded,
         Begin(w, ss, loaded), EndsLast(ss),
         \A s \in T : s.op = "save" /\ rec[s.id] = None
                        => \A x \in Workers : ~Holds(x, s.id),
         InOneOfFourWays(w)'
  PROVE  RacesInv'
  <1>1. /\ rec' = rec /\ saw' = saw /\ rows' = rows /\ bals' = bals
        /\ plan'[w] = ss /\ rows[w] = Nowhere
        /\ \A x \in Workers \ {w} : plan'[x] = plan[x]
    BY DEF Begin, RacesInv, IInv, TypeOK
  <1>2. DOMAIN Nowhere = {}
    BY DEF Nowhere
  <1>3. ASSUME NEW i \in Ids, rec[i] = None, Holds(w, i)'
        PROVE  \A x \in Workers : ~Holds(x, i)
    <2>1. PICK k \in 1 .. Len(ss) : ss[k].op = "save" /\ ss[k].id = i
      BY <1>1, <1>2, <1>3 DEF Holds
    <2>2. ss[k] \in T
      OBVIOUS
    <2> QED
      BY <1>3, <2>1, <2>2
  <1>4. \A x \in Workers \ {w} : DOMAIN bals'[w] \cap DOMAIN bals[x] = {}
    BY <1>1 DEF RacesInv, OneOwner
  <1> QED
    BY <1>1, <1>3, <1>4, StepKeepsRaces

\* A request of plain rows begins.
LEMMA BeginPlainly ==
  ASSUME RacesInv, IInv', NEW w \in Workers, NEW ss \in Seq(Plain), NEW loaded,
         Begin(w, ss, loaded), EndsLast(ss),
         \A k \in 1 .. Len(ss) : ss[k].op = "save" /\ rec[ss[k].id] = None
                                   => \A x \in Workers : ~Holds(x, ss[k].id)
  PROVE  RacesInv'
  <1>1. rec' = rec /\ rows' = rows /\ plan'[w] = ss /\ rows[w] = Nowhere
    BY DEF Begin, RacesInv, IInv, TypeOK
  <1>2. Plain' = Plain /\ DOMAIN Nowhere = {}
    BY <1>1 DEF Plain, Nowhere
  <1>3. Plainly(w)'
    BY <1>1, <1>2 DEF Plainly
  <1> DEFINE T == {ss[k] : k \in 1 .. Len(ss)}
  <1>4. ss \in Seq(T)
    OBVIOUS
  <1>5. \A s \in T : s.op = "save" /\ rec[s.id] = None
                       => \A x \in Workers : ~Holds(x, s.id)
    OBVIOUS
  <1> HIDE DEF T
  <1> QED
    BY <1>3, <1>4, <1>5, BeginKeepsRaces DEF InOneOfFourWays

LEMMA FreshUnheld ==
  ASSUME NEW i, Fresh(i)
  PROVE  \A x \in Workers : ~Holds(x, i)
  BY DEF Fresh, Holds

\* A live row without a group is plain.
LEMMA UngroupedBare ==
  ASSUME RacesInv, NEW i \in Ids, LiveRows[i] # None, ~L!Grouped(i)
  PROVE  rec[i] # None /\ LiveRows[i] = rec[i].row /\ Bare(rec[i].row)
  <1>1. rec[i] # None /\ LiveRows[i] = rec[i].row /\ rec[i].row.group = None
    BY DEF L!Grouped, LiveRows
  <1>2. \A s : ~Pair(None, s)
    BY LedgerTxAssumption DEF Pair
  <1> QED
    BY <1>1, <1>2 DEF RacesInv, Paired

\* One statement about a plain row, adjustments, and the end.
LEMMA PlainPlan ==
  ASSUME RacesInv, NEW s \in Plain, s.op \notin Endings, NEW moves \in Seq(Adjustments)
  PROVE  /\ <<s>> \o moves \o <<Finish>> \in Seq(Plain)
         /\ EndsLast(<<s>> \o moves \o <<Finish>>)
         /\ \A k \in 1 .. Len(<<s>> \o moves \o <<Finish>>) :
              (<<s>> \o moves \o <<Finish>>)[k].op = "save"
                => (<<s>> \o moves \o <<Finish>>)[k] = s
  <1> DEFINE S == {s} \cup Adjustments
             body == <<s>> \o moves
  <1>1. Adjustments \subseteq Plain /\ Finish \in Plain
    BY DEF Adjustments, Plain, Finish, Statements
  <1>2. body \in Seq(S) /\ S \subseteq Plain
    BY <1>1
  <1>3. \A x \in S : x.op \notin Endings
    BY DEF Adjustments, Endings
  <1>4. EndsLast(body \o <<Finish>>)
    BY <1>2, <1>3, EndsLastFinish
  <1>5. \A x \in S \cup {Finish} : x.op = "save" => x = s
    BY DEF Adjustments, Finish
  <1> HIDE DEF S, body
  <1>6. body \o <<Finish>> \in Seq(Plain) /\ body \o <<Finish>> \in Seq(S \cup {Finish})
    BY <1>1, <1>2
  <1>7. \A k \in 1 .. Len(body \o <<Finish>>) :
          (body \o <<Finish>>)[k].op = "save" => (body \o <<Finish>>)[k] = s
    BY <1>5, <1>6
  <1> QED
    BY <1>4, <1>6, <1>7 DEF body

LEMMA MovementKeepsRaces ==
  ASSUME RacesInv, IInv', NEW w \in Workers, Movement(w)
  PROVE  RacesInv'
  <1>0. IInv
    BY DEF RacesInv
  <1>1. ASSUME NEW i \in Ids, NEW d \in Draft, Create(w, i, d)
        PROVE  RacesInv'
    <2> DEFINE new == L!PlainRow(d)
               s == Save(i, new)
               ss == <<s>> \o LinkMoves(L!NoLeg, new) \o <<Finish>>
    <2>1. new \in L!Record /\ Bare(new)
      BY PlainRowType DEF L!PlainRow, Bare
    <2>2. Begin(w, ss, {}) /\ Fresh(i)
      BY <1>1 DEF Create
    <2> HIDE DEF new
    <2>3. s \in Plain /\ s.op \notin Endings /\ s.id = i
      BY <2>1, <2>2 DEF Save, Plain, Statements, Endings, Fresh
    <2>4. LinkMoves(L!NoLeg, new) \in Seq(Adjustments)
      BY <2>1, NoLegType, LinkMovesType
    <2> HIDE DEF s
    <2>5. /\ ss \in Seq(Plain) /\ EndsLast(ss)
          /\ \A k \in 1 .. Len(ss) : ss[k].op = "save" => ss[k] = s
      BY <2>3, <2>4, PlainPlan
    <2> HIDE DEF ss
    <2> QED
      BY <2>2, <2>3, <2>5, FreshUnheld, BeginPlainly
  <1>2. ASSUME NEW i \in Ids, NEW d \in Draft, Update(w, i, d)
        PROVE  RacesInv'
    <2> DEFINE new == L!Merged(LiveRows[i], d)
               s == Save(i, new)
               ss == <<s>> \o LinkMoves(LiveRows[i], new) \o <<Finish>>
    <2>1. rec[i] # None /\ LiveRows[i] = rec[i].row /\ Bare(rec[i].row)
      BY <1>2, UngroupedBare DEF Update
    <2>2. LiveRows[i] \in L!Record
      BY <1>0, <1>2, LiveRowType DEF Update, IInv
    <2>3. new \in L!Record /\ Bare(new)
      BY <2>1, <2>2, MergedType DEF L!Merged, Bare, L!Record
    <2>4. Begin(w, ss, {i})
      BY <1>2 DEF Update
    <2> HIDE DEF new
    <2>5. s \in Plain /\ s.op \notin Endings /\ s.id = i
      BY <2>1, <2>3 DEF Save, Plain, Statements, Endings
    <2>6. LinkMoves(LiveRows[i], new) \in Seq(Adjustments)
      BY <2>2, <2>3, LinkMovesType
    <2> HIDE DEF s
    <2>7. /\ ss \in Seq(Plain) /\ EndsLast(ss)
          /\ \A k \in 1 .. Len(ss) : ss[k].op = "save" => ss[k] = s
      BY <2>5, <2>6, PlainPlan
    <2> HIDE DEF ss
    <2> QED
      BY <2>1, <2>4, <2>5, <2>7, BeginPlainly
  <1>3. ASSUME NEW i \in Ids, SoftDelete(w, i)
        PROVE  RacesInv'
    <2> DEFINE s == Remove(i)
               ss == <<s>> \o LinkMoves(LiveRows[i], L!NoLeg) \o <<Finish>>
    <2>1. rec[i] # None /\ Bare(rec[i].row)
      BY <1>3, UngroupedBare DEF SoftDelete
    <2>2. LiveRows[i] \in L!Record
      BY <1>0, <1>3, LiveRowType DEF SoftDelete, IInv
    <2>3. Begin(w, ss, {i})
      BY <1>3 DEF SoftDelete
    <2>4. s \in Plain /\ s.op \notin Endings /\ s.op # "save"
      BY <2>1 DEF Remove, Plain, Statements, Endings
    <2>5. LinkMoves(LiveRows[i], L!NoLeg) \in Seq(Adjustments)
      BY <2>2, NoLegType, LinkMovesType
    <2> HIDE DEF s
    <2>6. /\ ss \in Seq(Plain) /\ EndsLast(ss)
          /\ \A k \in 1 .. Len(ss) : ss[k].op = "save" => ss[k] = s
      BY <2>4, <2>5, PlainPlan
    <2> HIDE DEF ss
    <2> QED
      BY <2>3, <2>4, <2>6, BeginPlainly
  <1> QED
    BY <1>1, <1>2, <1>3 DEF Movement

LEMMA PatchKeepsRaces ==
  ASSUME RacesInv, IInv', NEW w \in Workers, PatchEntity(w)
  PROVE  RacesInv'
  <1>1. ASSUME NEW e \in Entities, NEW v \in Int, NEW b \in BOOLEAN,
               Begin(w, <<Patch(e, v, b)>>, {e})
        PROVE  RacesInv'
    <2>1. Patch(e, v, b) \in Plain /\ Patch(e, v, b).op = "patch"
      BY DEF Patch, Plain, Statements
    <2> DEFINE ss == <<Patch(e, v, b)>>
    <2>2. ss \in Seq(Plain) /\ Len(ss) = 1 /\ ss[1].op = "patch"
      BY <2>1
    <2>3. EndsLast(ss)
      BY <2>2 DEF EndsLast, Endings
    <2>4. \A k \in 1 .. Len(ss) : ss[k].op # "save"
      BY <2>2
    <2> HIDE DEF ss
    <2>5. Begin(w, ss, {e})
      BY <1>1 DEF ss
    <2> QED
      BY <2>2, <2>3, <2>4, <2>5, BeginPlainly
  <1>2. \A e \in Patched : e \in Entities /\ bal[e] \in Int
    BY LedgerTxAssumption DEF RacesInv, IInv, TypeOK
  <1>3. SetValues \subseteq Int
    BY LedgerTxAssumption
  <1> QED
    BY <1>1, <1>2, <1>3 DEF PatchEntity, PatchBalance, PatchOther

\* The statements over two legs: first those of the origin.
LEMMA TransferPlan ==
  ASSUME RacesInv, NEW S, NEW p \in Seq(S), NEW q \in Seq(S),
         \A s \in S : s.op \notin Endings
  PROVE  /\ p \o q \o <<Finish>> \in Seq(S \cup {Finish})
         /\ EndsLast(p \o q \o <<Finish>>)
         /\ \A s : Has(p, s) \/ Has(q, s) => Has(p \o q \o <<Finish>>, s)
         /\ p # <<>> => /\ p \o q \o <<Finish>> # <<>>
                        /\ Head(p \o q \o <<Finish>>) = Head(p)
  <1>1. p \o q \in Seq(S)
    OBVIOUS
  <1>2. EndsLast(p \o q \o <<Finish>>)
    BY <1>1, EndsLastFinish
  <1>3. /\ <<Finish>> \in Seq(S \cup {Finish}) /\ p \o q \in Seq(S \cup {Finish})
        /\ p \in Seq(S \cup {Finish}) /\ q \in Seq(S \cup {Finish})
    BY <1>1
  <1>4. \A s : Has(p, s) \/ Has(q, s) => Has(p \o q, s)
    BY HasConcat
  <1>5. \A s : Has(p \o q, s) => Has(p \o q \o <<Finish>>, s)
    BY <1>3, HasConcat
  <1>6. p # <<>> => /\ p \o q \o <<Finish>> # <<>>
                    /\ Head(p \o q \o <<Finish>>) = Head(p)
    BY <1>1, <1>3
  <1>7. p \o q \o <<Finish>> \in Seq(S \cup {Finish})
    BY <1>3
  <1> QED
    BY <1>2, <1>4, <1>5, <1>6, <1>7

LEMMA HasOne ==
  ASSUME NEW s
  PROVE  Has(<<s>>, s)
  <1>1. 1 \in 1 .. Len(<<s>>) /\ <<s>>[1] = s
    OBVIOUS
  <1> QED
    BY <1>1 DEF Has

LEMMA CreateTransferKeepsRaces ==
  ASSUME RacesInv, IInv', NEW w \in Workers,
         NEW i \in Ids, NEW j \in Ids, NEW src \in Accounts, NEW dst \in Entities,
         NEW amt \in TransferAmounts, CreateTransfer(w, i, j, src, dst, amt)
  PROVE  RacesInv'
  <1> DEFINE o == L!Leg(amt, src, None, None, None, i)
             d == IF dst \in Accounts THEN L!Leg(amt, None, dst, None, None, i)
                                      ELSE L!Leg(amt, None, None, dst, None, i)
             S == Adjustments \cup {Save(i, o), Save(j, d)}
             saves == <<Save(i, o), Save(j, d)>>
             moves == LegMoves(o, 1) \o LegMoves(d, 1)
             ss == saves \o LegMoves(o, 1) \o LegMoves(d, 1) \o <<Finish>>
             T == S \cup {Finish}
  <1>1. amt \in Nat /\ amt # 0 /\ src # None
    BY LedgerTxAssumption DEF Amounts, Entities
  <1>2. o \in L!Record /\ d \in L!Record
    BY <1>1 DEF L!Leg, L!Record, L!TxTypes, L!Patrimony, Entities
  <1>3. Twins(i, o, d)
    BY <1>1 DEF L!Leg, Twins
  <1>4. Begin(w, ss, {}) /\ i # j /\ Fresh(i) /\ Fresh(j)
    BY DEF CreateTransfer
  <1>5. rec[i] = None /\ rec[j] = None
    BY <1>4 DEF Fresh
  <1> HIDE DEF o, d
  <1>6. /\ Save(i, o).op = "save" /\ Save(i, o).id = i
        /\ Save(j, d).op = "save" /\ Save(j, d).id = j /\ Finish.op = "commit"
        /\ \A s \in Adjustments : s.op = "adjust"
    BY DEF Save, Finish, Adjustments
  <1>7. LegMoves(o, 1) \in Seq(Adjustments) /\ LegMoves(d, 1) \in Seq(Adjustments)
    BY <1>2, LegMovesType
  <1>8. LegMoves(o, 1) \in Seq(S) /\ LegMoves(d, 1) \in Seq(S) /\ saves \in Seq(S)
    BY <1>7
  <1>9. moves \in Seq(S)
    BY <1>8
  <1>10. ss = saves \o moves \o <<Finish>>
    <2>1. saves \o LegMoves(o, 1) \o LegMoves(d, 1) = saves \o moves
      <3> HIDE DEF saves, S
      <3> QED
        BY <1>8
    <2> QED
      BY <2>1
  <1>11. Has(saves, Save(i, o)) /\ Has(saves, Save(j, d))
    <2>1. /\ 1 \in 1 .. Len(saves) /\ saves[1] = Save(i, o)
          /\ 2 \in 1 .. Len(saves) /\ saves[2] = Save(j, d)
      OBVIOUS
    <2> QED
      BY <2>1 DEF Has
  <1>12. \A s \in S : s.op \notin Endings
    BY <1>6 DEF Endings
  <1>13. \A s \in T : s.op = "save" /\ rec[s.id] = None
                        => \A x \in Workers : ~Holds(x, s.id)
    BY <1>4, <1>6, FreshUnheld
  <1> HIDE DEF S, saves, moves
  <1>14. /\ ss \in Seq(T) /\ EndsLast(ss)
         /\ Has(ss, Save(i, o)) /\ Has(ss, Save(j, d))
    BY <1>8, <1>9, <1>10, <1>11, <1>12, TransferPlan
  <1> HIDE DEF ss
  <1>15. rec' = rec /\ plan'[w] = ss /\ rows'[w] = Nowhere /\ saw'[w] = None
    BY <1>4 DEF Begin, RacesInv, IInv, TypeOK, Selected, Doing, Idle
  <1>16. Writing(w, i, j, o, d)'
    <2>1. DOMAIN Nowhere = {} /\ ss \in Seq(Adjustments \cup {Save(i, o), Save(j, d), Finish})
      <3>1. T = Adjustments \cup {Save(i, o), Save(j, d), Finish}
        BY DEF S
      <3> QED
        BY <1>14, <3>1 DEF Nowhere
    <2> QED
      BY <1>14, <1>15, <2>1 DEF Writing
  <1>17. Creating(w)'
    BY <1>2, <1>3, <1>4, <1>5, <1>15, <1>16 DEF Creating, CreatingPair
  <1> HIDE DEF T
  <1> QED
    BY <1>4, <1>13, <1>14, <1>17, BeginKeepsRaces DEF InOneOfFourWays

\* Reverting an origin leg begins with its origin account.
LEMMA OriginFirst ==
  ASSUME NEW r \in L!Record, r.origin # None, r.amount # 0
  PROVE  /\ LegMoves(r, -1) # <<>>
         /\ Head(LegMoves(r, -1)).op = "adjust"
         /\ Head(LegMoves(r, -1)).entity = r.origin
  <1> DEFINE n == -r.amount * (-1)
             p == Nudge(r.origin, n)
             q == Nudge(r.dest, r.amount * (-1))
             t == Nudge(r.patrimony, -r.amount * (-1))
  <1>1. r.amount \in Nat /\ n \in Int /\ n # 0
    BY DEF L!Record
  <1>2. p = <<Adjust(r.origin, n)>>
    BY <1>1 DEF Nudge
  <1>3. q \in Seq(Adjustments) /\ t \in Seq(Adjustments) /\ p \in Seq(Adjustments)
    <2>1. /\ r.origin \in Entities \cup {None} /\ r.dest \in Entities \cup {None}
          /\ r.patrimony \in Entities \cup {None}
          /\ r.amount * (-1) \in Int
      BY <1>1 DEF L!Record, L!Patrimony, Entities
    <2> HIDE DEF n
    <2> QED
      BY <1>1, <2>1, NudgeType DEF n
  <1>4. LegMoves(r, -1) = p \o q \o t
    BY DEF LegMoves
  <1> HIDE DEF p, q, t
  <1>5. p # <<>> => p \o q \o t # <<>> /\ Head(p \o q \o t) = Head(p)
    BY <1>3
  <1>6. p # <<>> /\ Head(p) = Adjust(r.origin, n)
    BY <1>2
  <1> QED
    BY <1>4, <1>5, <1>6 DEF Adjust

\* A transfer that is edited or deleted is a pair, in the order of its legs.
LEMMA TransferInOrder ==
  ASSUME RacesInv, NEW i \in Ids, NEW f \in L!Legs(i), NEW s \in L!Legs(i),
         L!Grouped(i), L!InOrder(i, f, s)
  PROVE  /\ Pair(f, s) /\ f \in Ids /\ s \in Ids /\ f # s
         /\ LiveRows[f] = rec[f].row /\ LiveRows[s] = rec[s].row
         /\ rec[f].row \in L!Record /\ rec[s].row \in L!Record
         /\ rec[f] # None /\ rec[s] # None
         /\ LegMoves(rec[f].row, -1) # <<>>
         /\ Head(LegMoves(rec[f].row, -1)).op = "adjust"
         /\ Head(LegMoves(rec[f].row, -1)).entity = rec[f].row.origin
  <1>1. IInv /\ Paired
    BY DEF RacesInv
  <1>2. PICK g : g = LiveRows[i].group
    OBVIOUS
  <1>3. PICK t \in Ids : /\ Pair(g, t) /\ L!Legs(i) = {g, t}
                         /\ LiveRows[t] = rec[t].row /\ LiveRows[g] = rec[g].row
    BY <1>1, <1>2, LegsArePair
  <1>4. {f, s} = {g, t} /\ g # t /\ rec[t].row.origin = None
    BY <1>3 DEF L!InOrder, Pair, Twins
  <1>5. f # s /\ LiveRows[f].origin # None
    BY <1>4 DEF L!InOrder
  <1>6. f = g /\ s = t
    BY <1>3, <1>4, <1>5
  <1>7. rec[f].row \in L!Record /\ rec[s].row \in L!Record /\ rec[f] # None /\ rec[s] # None
    BY <1>1, <1>3, <1>6, PairStored DEF Version
  <1>8. rec[f].row.origin # None /\ rec[f].row.amount # 0
    BY <1>3, <1>6 DEF Pair, Twins
  <1> QED
    BY <1>3, <1>5, <1>6, <1>7, <1>8, OriginFirst DEF Pair

LEMMA UpdateTransferKeepsRaces ==
  ASSUME RacesInv, IInv', NEW w \in Workers, NEW i \in Ids,
         NEW f \in L!Legs(i), NEW s \in L!Legs(i), NEW amt \in TransferAmounts,
         UpdateTransfer(w, i, f, s, amt)
  PROVE  RacesInv'
  <1> DEFINE Amend(k) == [LiveRows[k] EXCEPT !.amount = amt]
             Revert(k) == LegMoves(LiveRows[k], -1)
             Apply(k) == <<Save(k, Amend(k))>> \o LegMoves(Amend(k), 1)
             p == ForLegs(f, s, Revert)
             q == ForLegs(f, s, Apply)
             ss == p \o q \o <<Finish>>
  <1>1. Begin(w, ss, {f, s}) /\ L!Grouped(i) /\ L!InOrder(i, f, s)
    BY DEF UpdateTransfer
  <1>2. /\ Pair(f, s) /\ f \in Ids /\ s \in Ids /\ f # s
        /\ LiveRows[f] = rec[f].row /\ LiveRows[s] = rec[s].row
        /\ rec[f].row \in L!Record /\ rec[s].row \in L!Record
        /\ rec[f] # None /\ rec[s] # None
        /\ LegMoves(rec[f].row, -1) # <<>>
        /\ Head(LegMoves(rec[f].row, -1)).op = "adjust"
        /\ Head(LegMoves(rec[f].row, -1)).entity = rec[f].row.origin
    BY <1>1, TransferInOrder
  <1>3. PICK o : o = Amend(f)
    OBVIOUS
  <1>4. PICK d : d = Amend(s)
    OBVIOUS
  <1>5. amt \in Nat /\ amt # 0
    BY LedgerTxAssumption DEF Amounts
  <1>6. /\ o \in L!Record /\ d \in L!Record /\ o.amount = amt /\ d.amount = amt
        /\ Alike(rec[f].row, o) /\ Alike(rec[s].row, d)
        /\ o.group = rec[f].row.group /\ o.origin = rec[f].row.origin
        /\ o.dest = rec[f].row.dest
        /\ d.group = rec[s].row.group /\ d.origin = rec[s].row.origin
    BY <1>2, <1>3, <1>4, <1>5 DEF L!Record, Alike
  <1>7. Twins(f, o, d)
    BY <1>2, <1>5, <1>6 DEF Pair, Twins
  <1> DEFINE S == Adjustments \cup {Save(f, o), Save(s, d)}
             T == S \cup {Finish}
  <1>8. /\ Save(f, o).op = "save" /\ Save(f, o).id = f
        /\ Save(s, d).op = "save" /\ Save(s, d).id = s /\ Finish.op = "commit"
        /\ \A x \in Adjustments : x.op = "adjust"
    BY DEF Save, Finish, Adjustments
  <1>9. Revert(f) \in Seq(Adjustments) /\ Revert(s) \in Seq(Adjustments)
    BY <1>2, LegMovesType
  <1>10. LegMoves(o, 1) \in Seq(Adjustments) /\ LegMoves(d, 1) \in Seq(Adjustments)
    BY <1>6, LegMovesType
  <1>11. Apply(f) = <<Save(f, o)>> \o LegMoves(o, 1) /\ Apply(s) = <<Save(s, d)>> \o LegMoves(d, 1)
    BY <1>3, <1>4
  <1>12. p = Revert(f) \o Revert(s) /\ q = Apply(f) \o Apply(s)
    BY <1>2 DEF ForLegs
  <1>13. Revert(f) = LegMoves(rec[f].row, -1)
    BY <1>2
  <1> HIDE DEF Amend, Revert, Apply, p, q
  <1>14. p \in Seq(S) /\ Apply(f) \in Seq(S) /\ Apply(s) \in Seq(S)
    BY <1>9, <1>10, <1>11, <1>12
  <1>15. q \in Seq(S) /\ <<Save(f, o)>> \in Seq(S) /\ <<Save(s, d)>> \in Seq(S)
         /\ LegMoves(o, 1) \in Seq(S) /\ LegMoves(d, 1) \in Seq(S)
    BY <1>10, <1>12, <1>14
  <1>16. Has(Apply(f), Save(f, o)) /\ Has(Apply(s), Save(s, d))
    <2>1. Has(<<Save(f, o)>>, Save(f, o)) /\ Has(<<Save(s, d)>>, Save(s, d))
      BY HasOne
    <2>2. Has(<<Save(f, o)>> \o LegMoves(o, 1), Save(f, o))
      BY <1>15, <2>1, HasConcat
    <2>3. Has(<<Save(s, d)>> \o LegMoves(d, 1), Save(s, d))
      BY <1>15, <2>1, HasConcat
    <2> QED
      BY <1>11, <2>2, <2>3
  <1>17. Has(q, Save(f, o)) /\ Has(q, Save(s, d))
    BY <1>12, <1>14, <1>16, HasConcat
  <1>18. /\ p # <<>> /\ Head(p).op = "adjust" /\ Head(p).entity = rec[f].row.origin
    BY <1>2, <1>9, <1>12, <1>13
  <1>19. \A x \in S : x.op \notin Endings
    BY <1>8 DEF Endings
  <1>20. \A x \in T : x.op = "save" /\ rec[x.id] = None
                        => \A y \in Workers : ~Holds(y, x.id)
    BY <1>2, <1>8
  <1> HIDE DEF S
  <1>21. /\ ss \in Seq(T) /\ EndsLast(ss)
         /\ Has(ss, Save(f, o)) /\ Has(ss, Save(s, d))
         /\ ss # <<>> /\ Head(ss) = Head(p)
    BY <1>14, <1>15, <1>17, <1>18, <1>19, TransferPlan
  <1> HIDE DEF ss
  <1>22. rec' = rec /\ plan'[w] = ss /\ rows'[w] = Nowhere /\ saw'[w] = None
    BY <1>1 DEF Begin, RacesInv, IInv, TypeOK, Selected, Doing, Idle
  <1>23. Writing(w, f, s, o, d)'
    <2>1. DOMAIN Nowhere = {} /\ ss \in Seq(Adjustments \cup {Save(f, o), Save(s, d), Finish})
      <3>1. T = Adjustments \cup {Save(f, o), Save(s, d), Finish}
        BY DEF S
      <3> QED
        BY <1>21, <3>1 DEF Nowhere
    <2> QED
      BY <1>21, <1>22, <2>1 DEF Writing
  <1>24. Pair(f, s)' /\ LocksFirst(w, rec[f].row.origin)'
    BY <1>2, <1>18, <1>21, <1>22 DEF Pair, Group, LocksFirst, Doing, Idle, Now
  <1>25. Updating(w)'
    BY <1>2, <1>6, <1>7, <1>22, <1>23, <1>24 DEF Updating, UpdatingPair
  <1> HIDE DEF T
  <1> QED
    BY <1>1, <1>20, <1>21, <1>25, BeginKeepsRaces DEF InOneOfFourWays

LEMMA SoftDeleteTransferKeepsRaces ==
  ASSUME RacesInv, IInv', NEW w \in Workers, NEW i \in Ids,
         NEW f \in L!Legs(i), NEW s \in L!Legs(i), SoftDeleteTransfer(w, i, f, s)
  PROVE  RacesInv'
  <1> DEFINE Drop(k) == LegMoves(LiveRows[k], -1) \o <<Remove(k)>>
             p == Drop(f)
             q == Drop(s)
             ss == p \o q \o <<Finish>>
             S == Adjustments \cup {Remove(f), Remove(s)}
             T == S \cup {Finish}
  <1>1. /\ Begin(w, ForLegs(f, s, Drop) \o <<Finish>>, {f, s})
        /\ L!Grouped(i) /\ L!InOrder(i, f, s)
    BY DEF SoftDeleteTransfer
  <1>2. /\ Pair(f, s) /\ f \in Ids /\ s \in Ids /\ f # s
        /\ LiveRows[f] = rec[f].row /\ LiveRows[s] = rec[s].row
        /\ rec[f].row \in L!Record /\ rec[s].row \in L!Record
        /\ rec[f] # None /\ rec[s] # None
        /\ LegMoves(rec[f].row, -1) # <<>>
        /\ Head(LegMoves(rec[f].row, -1)).op = "adjust"
        /\ Head(LegMoves(rec[f].row, -1)).entity = rec[f].row.origin
    BY <1>1, TransferInOrder
  <1>3. Begin(w, ss, {f, s})
    BY <1>1, <1>2 DEF ForLegs
  <1>4. /\ Remove(f).op = "remove" /\ Remove(s).op = "remove" /\ Finish.op = "commit"
        /\ \A x \in Adjustments : x.op = "adjust"
    BY DEF Remove, Finish, Adjustments
  <1>5. LegMoves(LiveRows[f], -1) \in Seq(Adjustments) /\ LegMoves(LiveRows[s], -1) \in Seq(Adjustments)
    BY <1>2, LegMovesType
  <1>6. /\ LegMoves(LiveRows[f], -1) \in Seq(S) /\ LegMoves(LiveRows[s], -1) \in Seq(S)
        /\ <<Remove(f)>> \in Seq(S) /\ <<Remove(s)>> \in Seq(S)
    BY <1>5
  <1>7. \A x \in S : x.op \notin Endings
    BY <1>4 DEF Endings
  <1>8. \A x \in T : x.op = "save" /\ rec[x.id] = None
                       => \A y \in Workers : ~Holds(y, x.id)
    BY <1>4
  <1> HIDE DEF S
  <1>9. p \in Seq(S) /\ q \in Seq(S)
    BY <1>6
  <1>10. Has(p, Remove(f)) /\ Has(q, Remove(s))
    BY <1>6, HasOne, HasConcat
  <1>11. p # <<>> /\ Head(p).op = "adjust" /\ Head(p).entity = rec[f].row.origin
    BY <1>2, <1>6
  <1> HIDE DEF p, q
  <1>12. /\ ss \in Seq(T) /\ EndsLast(ss)
         /\ Has(ss, Remove(f)) /\ Has(ss, Remove(s))
         /\ ss # <<>> /\ Head(ss) = Head(p)
    BY <1>7, <1>9, <1>10, <1>11, TransferPlan
  <1> HIDE DEF ss
  <1>13. rec' = rec /\ plan'[w] = ss /\ rows'[w] = Nowhere
    BY <1>3 DEF Begin, RacesInv, IInv, TypeOK
  <1>14. Removing(w, f, s)'
    <2>1. DOMAIN Nowhere = {} /\ ss \in Seq(Adjustments \cup {Remove(f), Remove(s), Finish})
      <3>1. T = Adjustments \cup {Remove(f), Remove(s), Finish}
        BY DEF S
      <3> QED
        BY <1>12, <3>1 DEF Nowhere
    <2> QED
      BY <1>12, <1>13, <2>1 DEF Removing
  <1>15. Pair(f, s)' /\ LocksFirst(w, rec[f].row.origin)'
    BY <1>2, <1>11, <1>12, <1>13 DEF Pair, Group, LocksFirst, Doing, Idle, Now
  <1>16. Deleting(w)'
    BY <1>2, <1>14, <1>15 DEF Deleting, DeletingPair
  <1> HIDE DEF T
  <1> QED
    BY <1>3, <1>8, <1>12, <1>16, BeginKeepsRaces DEF InOneOfFourWays

-----------------------------------------------------------------------------
LEMMA RacesInvInit == Init => RacesInv
  <1> SUFFICES ASSUME Init PROVE RacesInv
    OBVIOUS
  <1>1. IInv
    BY InitHolds
  <1>2. /\ Paired /\ DOMAIN rows = Workers /\ DOMAIN bals = Workers
    BY DEF Init, Paired
  <1>3. DOMAIN Nowhere = {}
    BY DEF Nowhere
  <1>4. \A w \in Workers : plan[w] = <<>> /\ rows[w] = Nowhere /\ bals[w] = Nowhere
    BY DEF Init
  <1>5. OneOwner
    BY <1>3, <1>4 DEF OneOwner, Holds
  <1>6. ASSUME NEW w \in Workers
        PROVE  EndsLast(plan[w]) /\ InOneOfFourWays(w)
    <2>1. <<>> \in Seq(Plain) /\ 1 .. Len(<<>>) = {}
      OBVIOUS
    <2>2. EndsLast(plan[w])
      BY <1>4, <2>1 DEF EndsLast
    <2>3. plan[w] \in Seq(Plain) /\ DOMAIN rows[w] = {}
      BY <1>3, <1>4, <2>1
    <2>4. Plainly(w)
      BY <2>3 DEF Plainly
    <2> QED
      BY <2>2, <2>4 DEF InOneOfFourWays
  <1> QED
    BY <1>1, <1>2, <1>4, <1>5, <1>6 DEF RacesInv

LEMMA RacesInvNext == RacesInv /\ [Next]_vars => RacesInv'
  <1> SUFFICES ASSUME RacesInv, [Next]_vars PROVE RacesInv'
    OBVIOUS
  <1>1. IInv'
    BY NextKeeps DEF RacesInv
  <1>2. CASE UNCHANGED vars
    <2>1. /\ rec' = rec /\ plan' = plan /\ saw' = saw /\ rows' = rows /\ bals' = bals
      BY <1>2 DEF vars
    <2>2. Paired' /\ OneOwner'
      BY <2>1 DEF RacesInv, Paired, Pair, Group, OneOwner, Holds
    <2>3. \A x \in Workers : InOneOfFourWays(x)'
      BY <2>1, KindRests DEF RacesInv
    <2> QED
      BY <1>1, <2>1, <2>2, <2>3 DEF RacesInv, Idle
  <1>3. ASSUME NEW w \in Workers, Request(w)
        PROVE  RacesInv'
    <2>1. CASE Movement(w)
      BY <1>1, <2>1, MovementKeepsRaces
    <2>2. CASE Transfer(w)
      BY <1>1, <2>2, CreateTransferKeepsRaces, UpdateTransferKeepsRaces,
         SoftDeleteTransferKeepsRaces DEF Transfer
    <2>3. CASE PatchEntity(w)
      BY <1>1, <2>3, PatchKeepsRaces
    <2> QED
      BY <1>3, <2>1, <2>2, <2>3 DEF Request
  <1>4. ASSUME NEW w \in Workers, Statement(w)
        PROVE  RacesInv'
    BY <1>1, <1>4, StatementKeepsRaces, CommitKeepsRaces
  <1>5. ASSUME NEW w \in Workers, Crash(w) \/ Victim(w)
        PROVE  RacesInv'
    BY <1>1, <1>5, RollbackKeepsRaces DEF Crash, Victim
  <1> QED
    BY <1>2, <1>3, <1>4, <1>5 DEF Next

\* No request leaves a leg without its twin or two legs of different amounts,
\* however edits, deletions, crashes and deadlock victims of any number of
\* requests interleave, although an edit may bring a deleted transfer back.
THEOREM RacingTransfersStayWhole == Spec => []RacingTransfersWhole
  <1>1. Spec => []RacesInv
    BY RacesInvInit, RacesInvNext, PTL DEF Spec
  <1>2. RacesInv => RacingTransfersWhole
    BY PairedEnough DEF RacesInv
  <1> QED
    BY <1>1, <1>2, PTL

\* A request begins by loading what its plan is made of.
LEMMA RequestBegins ==
  ASSUME NEW w, Request(w)
  PROVE  \E ss, loaded : Begin(w, ss, loaded)
  <1>1. ASSUME NEW i, NEW d, Create(w, i, d) \/ Update(w, i, d) \/ SoftDelete(w, i)
        PROVE  \E ss, loaded : Begin(w, ss, loaded)
    BY <1>1 DEF Create, Update, SoftDelete
  <1>2. ASSUME NEW i, NEW j, NEW src, NEW dst, NEW amt, CreateTransfer(w, i, j, src, dst, amt)
        PROVE  \E ss, loaded : Begin(w, ss, loaded)
    BY <1>2 DEF CreateTransfer
  <1>3. ASSUME NEW i, NEW f, NEW s, NEW amt,
               UpdateTransfer(w, i, f, s, amt) \/ SoftDeleteTransfer(w, i, f, s)
        PROVE  \E ss, loaded : Begin(w, ss, loaded)
    BY <1>3 DEF UpdateTransfer, SoftDeleteTransfer
  <1>4. ASSUME NEW e, NEW v, PatchBalance(w, e, v) \/ PatchOther(w, e)
        PROVE  \E ss, loaded : Begin(w, ss, loaded)
    BY <1>4 DEF PatchBalance, PatchOther
  <1>5. CASE Movement(w)
    BY <1>1, <1>5, Zenon DEF Movement
  <1>6. CASE Transfer(w)
    BY <1>2, <1>3, <1>6, Zenon DEF Transfer
  <1>7. CASE PatchEntity(w)
    BY <1>4, <1>7, Zenon DEF PatchEntity
  <1> QED
    BY <1>5, <1>6, <1>7 DEF Request

-----------------------------------------------------------------------------
(***************************************************************************)
(* What stored movements add up to.                                        *)
(***************************************************************************)
StoredRows == [Ids -> L!Record \cup {None}]

\* What one stored row is worth to the balance of e.
Worth(r, e) == IF r = None THEN 0 ELSE L!Effect(r, e) * r.amount

LEMMA SameSum ==
  ASSUME NEW S, NEW amt
  PROVE  L!Sum(S, amt) = Sum(S, amt)
  <1>1. \A T : L!Cardinality(T) = Cardinality(T)
    BY DEF L!Cardinality, Cardinality
  <1> QED
    BY <1>1 DEF L!Sum, L!Units, L!UnitsOf, Sum, Units, UnitsOf

LEMMA SignTypes ==
  ASSUME NEW r, NEW e
  PROVE  /\ L!LinkSign(r, e) \in {-1, 0, 1}
         /\ L!LegSign(r, e) \in {-1, 0, 1}
         /\ L!Effect(r, e) \in {-1, 0, 1}
  BY DEF L!LinkSign, L!LegSign, L!Effect

LEMMA SignedAmounts ==
  ASSUME NEW s \in {-1, 0, 1}, NEW n \in Nat
  PROVE  s * n \in Int /\ (s = 0 => s * n = 0)
  OBVIOUS

LEMMA EnteringFacts ==
  ASSUME NEW R \in StoredRows, NEW e, NEW sign
  PROVE  /\ L!Entering(R, e, sign) \in SUBSET Ids
         /\ IsFiniteSet(L!Entering(R, e, sign))
         /\ \A i \in L!Entering(R, e, sign) : L!AmountsOf(R)[i] = R[i].amount
         /\ \A i \in Ids : L!AmountsOf(R)[i] \in Nat
         /\ Sum(L!Entering(R, e, sign), L!AmountsOf(R)) \in Nat
  <1>1. L!Entering(R, e, sign) \in SUBSET Ids
    BY DEF L!Entering
  <1>2. IsFiniteSet(L!Entering(R, e, sign))
    BY <1>1, LedgerTxAssumption, FS_Subset
  <1>3. \A i \in L!Entering(R, e, sign) : L!AmountsOf(R)[i] = R[i].amount
    BY DEF L!Entering, L!AmountsOf, StoredRows
  <1>4. \A i \in Ids : L!AmountsOf(R)[i] \in Nat
    BY DEF L!AmountsOf, StoredRows, L!Record
  <1>5. Sum(L!Entering(R, e, sign), L!AmountsOf(R)) \in Nat
    BY <1>1, <1>2, <1>4, SumType
  <1> QED
    BY <1>1, <1>2, <1>3, <1>4, <1>5

LEMMA PostedSums ==
  ASSUME NEW R \in StoredRows, NEW e
  PROVE  /\ L!PostedBy(R, e) = Sum(L!Entering(R, e, 1), L!AmountsOf(R))
                                 - Sum(L!Entering(R, e, -1), L!AmountsOf(R))
         /\ L!PostedBy(R, e) \in Int
  <1>1. L!PostedBy(R, e) = Sum(L!Entering(R, e, 1), L!AmountsOf(R))
                             - Sum(L!Entering(R, e, -1), L!AmountsOf(R))
    BY SameSum DEF L!PostedBy
  <1> QED
    BY <1>1, EnteringFacts

LEMMA WorthType ==
  ASSUME NEW r \in L!Record \cup {None}, NEW e
  PROVE  Worth(r, e) \in Int
  BY SignTypes, SignedAmounts DEF Worth, L!Record

\* Dropping a row takes what it is worth out of the sum.
LEMMA PostedDrop ==
  ASSUME NEW R \in StoredRows, NEW e, NEW i \in Ids
  PROVE  L!PostedBy(R, e) = L!PostedBy([R EXCEPT ![i] = None], e) + Worth(R[i], e)
  <1> DEFINE Q == [R EXCEPT ![i] = None]
             In(sign) == Sum(L!Entering(R, e, sign), L!AmountsOf(R))
             Out(sign) == Sum(L!Entering(Q, e, sign), L!AmountsOf(Q))
  <1>1. Q \in StoredRows /\ R[i] \in L!Record \cup {None}
    BY DEF StoredRows
  <1>2. ASSUME NEW sign \in {-1, 1}
        PROVE  /\ In(sign) \in Nat /\ Out(sign) \in Nat
               /\ In(sign) = Out(sign)
                    + IF i \in L!Entering(R, e, sign) THEN R[i].amount ELSE 0
    <2>1. L!Entering(Q, e, sign) = L!Entering(R, e, sign) \ {i}
      BY DEF L!Entering, StoredRows
    <2>2. \A j \in L!Entering(Q, e, sign) : L!AmountsOf(Q)[j] = L!AmountsOf(R)[j]
      BY <2>1 DEF L!AmountsOf, StoredRows, L!Entering
    <2>3. Out(sign) = Sum(L!Entering(R, e, sign) \ {i}, L!AmountsOf(R))
      <3> HIDE DEF Q
      <3>1. Sum(L!Entering(Q, e, sign), L!AmountsOf(Q))
              = Sum(L!Entering(Q, e, sign), L!AmountsOf(R))
        BY <2>2, SumAgrees
      <3> QED
        BY <2>1, <3>1, Zenon
    <2>4. In(sign) \in Nat /\ Out(sign) \in Nat
      BY <1>1, EnteringFacts
    <2>5. CASE i \in L!Entering(R, e, sign)
      <3>1. In(sign) = Sum(L!Entering(R, e, sign) \ {i}, L!AmountsOf(R)) + L!AmountsOf(R)[i]
        BY <2>5, EnteringFacts, SumRemove
      <3>2. L!AmountsOf(R)[i] = R[i].amount
        BY <2>5, EnteringFacts
      <3> QED
        BY <2>3, <2>4, <2>5, <3>1, <3>2
    <2>6. CASE i \notin L!Entering(R, e, sign)
      <3>1. L!Entering(R, e, sign) \ {i} = L!Entering(R, e, sign)
        BY <2>6
      <3>2. In(sign) = Out(sign)
        BY <2>3, <3>1, Zenon
      <3> HIDE DEF In, Out
      <3> QED
        BY <2>4, <2>6, <3>2
    <2> QED
      BY <2>4, <2>5, <2>6
  <1>3. L!PostedBy(R, e) = In(1) - In(-1) /\ L!PostedBy(Q, e) = Out(1) - Out(-1)
    BY <1>1, PostedSums
  <1> HIDE DEF In, Out, Q
  <1>4. CASE R[i] = None
    <2>1. /\ i \notin L!Entering(R, e, 1) /\ i \notin L!Entering(R, e, -1)
          /\ Worth(R[i], e) = 0
      BY <1>4 DEF L!Entering, Worth
    <2> QED
      BY <1>2, <1>3, <2>1 DEF Q
  <1>5. CASE R[i] # None
    <2>1. R[i].amount \in Nat
      BY <1>1, <1>5 DEF L!Record
    <2>2. \A sign \in {-1, 1} :
            i \in L!Entering(R, e, sign) <=> L!Effect(R[i], e) = sign
      BY <1>5 DEF L!Entering
    <2>3. Worth(R[i], e) = L!Effect(R[i], e) * R[i].amount
      BY <1>5 DEF Worth
    <2>4. L!PostedBy(R, e) = L!PostedBy(Q, e) + Worth(R[i], e)
      <3>1. CASE L!Effect(R[i], e) = 1
        BY <1>2, <1>3, <2>1, <2>2, <2>3, <3>1
      <3>2. CASE L!Effect(R[i], e) = -1
        BY <1>2, <1>3, <2>1, <2>2, <2>3, <3>2
      <3>3. CASE L!Effect(R[i], e) = 0
        BY <1>2, <1>3, <2>1, <2>2, <2>3, <3>3
      <3> QED
        BY <3>1, <3>2, <3>3, SignTypes
    <2> QED
      BY <2>4 DEF Q
  <1> QED
    BY <1>4, <1>5

\* Replacing a row changes the sum by the difference of the two.
LEMMA PostedPut ==
  ASSUME NEW R \in StoredRows, NEW e, NEW i \in Ids, NEW x \in L!Record \cup {None}
  PROVE  /\ [R EXCEPT ![i] = x] \in StoredRows
         /\ L!PostedBy([R EXCEPT ![i] = x], e)
              = L!PostedBy(R, e) - Worth(R[i], e) + Worth(x, e)
  <1> DEFINE Q == [R EXCEPT ![i] = None]
             P == [R EXCEPT ![i] = x]
  <1>1. /\ P \in StoredRows /\ Q \in StoredRows /\ P[i] = x
        /\ R[i] \in L!Record \cup {None}
    BY DEF StoredRows
  <1>2. [P EXCEPT ![i] = None] = Q
    BY DEF StoredRows
  <1> HIDE DEF P, Q
  <1>3. L!PostedBy(P, e) = L!PostedBy(Q, e) + Worth(x, e)
    BY <1>1, <1>2, PostedDrop
  <1>4. L!PostedBy(R, e) = L!PostedBy(Q, e) + Worth(R[i], e)
    BY PostedDrop DEF Q
  <1>5. /\ L!PostedBy(P, e) \in Int /\ L!PostedBy(Q, e) \in Int /\ L!PostedBy(R, e) \in Int
        /\ Worth(x, e) \in Int /\ Worth(R[i], e) \in Int
    BY <1>1, PostedSums, WorthType
  <1>6. L!PostedBy(P, e) = L!PostedBy(R, e) - Worth(R[i], e) + Worth(x, e)
    BY <1>3, <1>4, <1>5
  <1> QED
    BY <1>1, <1>6 DEF P

LEMMA LiveRowsType ==
  ASSUME TypeOK
  PROVE  LiveRows \in StoredRows
  BY DEF TypeOK, LiveRows, StoredRows, Version

\* No request stores payments of goals here.
LEMMA StoredMoves ==
  ASSUME TypeOK, TypeOK', NEW e
  PROVE  L!Stored(e)' - L!Stored(e) = L!PostedBy(LiveRows', e) - L!PostedBy(LiveRows, e)
  <1>1. L!PostedBy(LiveRows, e) \in Int /\ L!PostedBy(LiveRows', e) \in Int
    <2>1. LiveRows' \in StoredRows
      BY DEF TypeOK, LiveRows, StoredRows, Version
    <2>2. PICK R : R = LiveRows'
      OBVIOUS
    <2> QED
      BY <2>1, <2>2, LiveRowsType, PostedSums
  <1>2. PICK P : P = L!PaidBy(Nowhere, e)
    OBVIOUS
  <1>3. P \in Int
    <2>1. P = Sum({}, L!AmountsOf(Nowhere))
      <3>1. {p \in {} : Nowhere[p] # None /\ Nowhere[p].objective = e} = {}
        OBVIOUS
      <3> QED
        BY <1>2, <3>1, SameSum DEF L!PaidBy
    <2>2. Sum({}, L!AmountsOf(Nowhere)) \in Nat
      BY FS_EmptySet, SumType
    <2> QED
      BY <2>1, <2>2
  <1>4. L!PaidBy(Nowhere, e)' = L!PaidBy(Nowhere, e)
    BY DEF L!PaidBy, Nowhere
  <1>5. L!Stored(e) = L!PostedBy(LiveRows, e) + P
    BY <1>2 DEF L!Stored
  <1>6. L!Stored(e)' = L!PostedBy(LiveRows', e) + P
    BY <1>2, <1>4 DEF L!Stored
  <1> QED
    BY <1>1, <1>3, <1>5, <1>6

-----------------------------------------------------------------------------
(***************************************************************************)
(* A request that read nothing another one has since changed.  It runs the *)
(* statements F it was asked for one after the other; acc[k] is by how     *)
(* much the first k of them move each balance.                             *)
(***************************************************************************)
Zero == [e \in Entities |-> 0]
RowOps == {"save", "remove"}

\* The balance that a leg of a transfer moves.
HitOf(r) == IF r.origin # None THEN r.origin
            ELSE IF r.dest # None THEN r.dest ELSE r.patrimony

\* A leg of a transfer moves one balance.
Shaped(r) ==
  r.group # None =>
    /\ r.type = "transfer"
    /\ \/ r.origin # None /\ r.dest = None /\ r.patrimony = None
       \/ r.origin = None /\ r.dest # None /\ r.patrimony = None
       \/ r.origin = None /\ r.dest = None /\ r.patrimony \in Liabilities

ShapesKept ==
  /\ \A i \in Ids : rec[i] # None => Shaped(rec[i].row)
  /\ \A w \in Workers :
       /\ \A i \in DOMAIN rows[w] : Shaped(rows[w][i].row)
       /\ \A k \in 1 .. Len(plan[w]) :
            plan[w][k].op = "save" => Shaped(plan[w][k].row)

\* Statement s moves the balances from a to this.
After(a, s) == IF s.op = "adjust" THEN [a EXCEPT ![s.entity] = @ + s.delta] ELSE a

\* What the first n statements of F move, each of them admitted by balances b.
Tallied(F, n, acc, b) ==
  /\ acc \in [0 .. n -> [Entities -> Int]] /\ acc[0] = Zero
  /\ \A k \in 1 .. n :
       /\ acc[k] = After(acc[k - 1], F[k])
       /\ F[k].op = "adjust" =>
            Allowed(F[k].entity, b[F[k].entity] + acc[k - 1][F[k].entity], F[k].delta)

\* w has run the first n statements of F and has the others to run.
OnTrack(w, F, n) ==
  /\ F \in Seq(Statements) /\ n \in 0 .. Len(F)
  /\ Len(plan[w]) = Len(F) - n
  /\ \A k \in 1 .. Len(plan[w]) : plan[w][k] = F[n + k]

\* No row is written twice.
RowsOnce(F) ==
  \A j, k \in 1 .. Len(F) :
    F[j].op \in RowOps /\ F[k].op \in RowOps /\ F[j].id = F[k].id => j = k

\* w has read the balances it has adjusted.
HasRead(w, F, n) == \A k \in 1 .. n : F[k].op = "adjust" => F[k].entity \in seen[w]

\* The balances w sees are the committed ones moved by a.
Carried(w, a) ==
  /\ DOMAIN bals[w] \subseteq seen[w]
  /\ \A e \in Entities : BalanceSeen(w, e) = bal[e] + a[e]

\* The rows w has written are those of the first n statements of F.
Written(w, F, n) ==
  /\ \A k \in 1 .. n : F[k].op = "save" =>
       F[k].id \in DOMAIN rows[w] /\ rows[w][F[k].id] = [row |-> F[k].row, gone |-> FALSE]
  /\ \A k \in 1 .. n : F[k].op = "remove" =>
       F[k].id \in DOMAIN rows[w] /\ rows[w][F[k].id].gone
  /\ \A i \in DOMAIN rows[w] : \E k \in 1 .. n : F[k].op \in RowOps /\ F[k].id = i

\* What w selected is still what it would select.
UpToDate(w) ==
  saw[w] # None =>
    /\ Now(w).op = "save" => saw[w] = RowSeen(w, Now(w).id) /\ Now(w).id \in seen[w]
    /\ Now(w).op = "adjust" => /\ saw[w].balance = BalanceSeen(w, Now(w).entity)
                               /\ Now(w).entity \in seen[w]

Serving(w, F, n, acc) ==
  /\ OnTrack(w, F, n) /\ RowsOnce(F)
  /\ Tallied(F, n, acc, bal)
  /\ HasRead(w, F, n) /\ Carried(w, acc[n]) /\ Written(w, F, n)
  /\ UpToDate(w)

-----------------------------------------------------------------------------
LEMMA AfterType ==
  ASSUME NEW a \in [Entities -> Int], NEW s \in Statements
  PROVE  After(a, s) \in [Entities -> Int]
  <1>1. CASE s.op = "adjust"
    <2>1. s.entity \in Entities /\ s.delta \in Int
      BY <1>1 DEF Statements
    <2> QED
      BY <1>1, <2>1 DEF After
  <1>2. CASE s.op # "adjust"
    BY <1>2 DEF After
  <1> QED
    BY <1>1, <1>2

\* One statement more.
LEMMA TallyOn ==
  ASSUME NEW F \in Seq(Statements), NEW n \in Nat, n < Len(F), NEW acc, NEW b,
         Tallied(F, n, acc, b),
         F[n + 1].op = "adjust" =>
           Allowed(F[n + 1].entity, b[F[n + 1].entity] + acc[n][F[n + 1].entity],
                   F[n + 1].delta)
  PROVE  \E next : /\ Tallied(F, n + 1, next, b)
                   /\ next[n + 1] = After(acc[n], F[n + 1])
  <1> DEFINE a == After(acc[n], F[n + 1])
             next == [k \in 0 .. n + 1 |-> IF k = n + 1 THEN a ELSE acc[k]]
  <1>1. acc[n] \in [Entities -> Int] /\ acc \in [0 .. n -> [Entities -> Int]] /\ acc[0] = Zero
    BY DEF Tallied
  <1>2. F[n + 1] \in Statements
    OBVIOUS
  <1>3. a \in [Entities -> Int]
    BY <1>1, <1>2, AfterType
  <1> HIDE DEF a
  <1>4. next \in [0 .. n + 1 -> [Entities -> Int]]
    BY <1>1, <1>3
  <1>5. next[n + 1] = a /\ \A k \in 0 .. n : next[k] = acc[k]
    OBVIOUS
  <1> HIDE DEF next
  <1>6. next[0] = Zero
    BY <1>1, <1>5
  <1>7. ASSUME NEW k \in 1 .. n + 1
        PROVE  /\ next[k] = After(next[k - 1], F[k])
               /\ F[k].op = "adjust" =>
                    Allowed(F[k].entity, b[F[k].entity] + next[k - 1][F[k].entity], F[k].delta)
    <2>1. CASE k = n + 1
      <3>1. next[k - 1] = acc[n] /\ next[k] = a /\ F[k] = F[n + 1]
        BY <1>5, <2>1
      <3> QED
        BY <3>1 DEF a
    <2>2. CASE k # n + 1
      <3>1. k \in 1 .. n /\ next[k - 1] = acc[k - 1] /\ next[k] = acc[k]
        BY <1>5, <2>2
      <3> QED
        BY <3>1 DEF Tallied
    <2> QED
      BY <2>1, <2>2
  <1>8. Tallied(F, n + 1, next, b)
    BY <1>4, <1>6, <1>7 DEF Tallied
  <1> QED
    BY <1>5, <1>8 DEF a

LEMMA TrackNow ==
  ASSUME RacesInv, NEW w \in Workers, ~Idle(w), NEW F, NEW n, OnTrack(w, F, n)
  PROVE  /\ n \in Nat /\ n < Len(F) /\ F \in Seq(Statements) /\ Len(F) \in Nat
         /\ F[n + 1] = Now(w) /\ Now(w) \in Statements
  <1>1. plan[w] \in Seq(Statements) /\ plan[w] # <<>>
    BY DEF RacesInv, IInv, TypeOK, Idle
  <1>2. Len(plan[w]) \in Nat /\ Len(plan[w]) >= 1 /\ Now(w) = plan[w][1]
    BY <1>1 DEF Now
  <1>3. F \in Seq(Statements) /\ n \in 0 .. Len(F) /\ Len(F) \in Nat
    BY DEF OnTrack
  <1>4. n \in Nat /\ n < Len(F)
    BY <1>2, <1>3 DEF OnTrack
  <1>5. F[n + 1] = Now(w)
    BY <1>2, <1>3 DEF OnTrack
  <1>6. F[n + 1] \in Statements
    BY <1>3, <1>4
  <1> QED
    BY <1>3, <1>4, <1>5, <1>6

LEMMA TrackOn ==
  ASSUME RacesInv, NEW w \in Workers, ~Idle(w), NEW F, NEW n, OnTrack(w, F, n),
         Advance(w)
  PROVE  OnTrack(w, F, n + 1)' /\ saw'[w] = None
  <1>1. plan'[w] = Tail(plan[w]) /\ saw'[w] = None
    BY AdvancePlan
  <1>2. /\ n \in Nat /\ n < Len(F) /\ F \in Seq(Statements) /\ Len(F) \in Nat
    BY TrackNow
  <1>3. plan[w] \in Seq(Statements) /\ plan[w] # <<>>
    BY DEF RacesInv, IInv, TypeOK, Idle
  <1>4. /\ Len(Tail(plan[w])) = Len(plan[w]) - 1
        /\ Len(plan[w]) \in Nat /\ Len(plan[w]) >= 1
        /\ \A k \in 1 .. Len(Tail(plan[w])) : Tail(plan[w])[k] = plan[w][k + 1]
    BY <1>3
  <1>5. Len(plan[w]) = Len(F) - n
    BY DEF OnTrack
  <1>6. ASSUME NEW k \in 1 .. Len(Tail(plan[w]))
        PROVE  Tail(plan[w])[k] = F[n + 1 + k]
    <2>1. k + 1 \in 1 .. Len(plan[w]) /\ n + (k + 1) = n + 1 + k
      BY <1>2, <1>4
    <2>2. plan[w][k + 1] = F[n + (k + 1)]
      BY <2>1 DEF OnTrack
    <2> QED
      BY <1>4, <2>1, <2>2
  <1>7. n + 1 \in 0 .. Len(F) /\ Len(plan'[w]) = Len(F) - (n + 1)
    BY <1>1, <1>2, <1>4, <1>5
  <1>8. Statements' = Statements
    BY DEF Statements
  <1> QED
    BY <1>1, <1>2, <1>6, <1>7, <1>8 DEF OnTrack

-----------------------------------------------------------------------------
(***************************************************************************)
(* Its own statements keep a request so.                                   *)
(***************************************************************************)
\* A SELECT.
LEMMA ServingReads ==
  ASSUME RacesInv, NEW w \in Workers, SelectRow(w) \/ ReadBalance(w),
         NEW F, NEW n, NEW acc, Serving(w, F, n, acc)
  PROVE  Serving(w, F, n, acc)'
  <1>1. /\ rec' = rec /\ bal' = bal /\ plan' = plan /\ rows' = rows /\ bals' = bals
        /\ seen[w] \subseteq seen'[w]
    BY DEF SelectRow, ReadBalance, RacesInv, IInv, TypeOK
  <1>2. Statements' = Statements
    BY DEF Statements
  <1>3. OnTrack(w, F, n)' /\ Tallied(F, n, acc, bal)' /\ Written(w, F, n)'
    BY <1>1, <1>2 DEF Serving, OnTrack, Tallied, Written
  <1>4. HasRead(w, F, n)' /\ Carried(w, acc[n])'
    BY <1>1 DEF Serving, HasRead, Carried, BalanceSeen
  <1>5. UpToDate(w)'
    <2>1. CASE SelectRow(w)
      <3>1. /\ saw'[w] = RowSeen(w, Now(w).id) /\ Now(w).id \in seen'[w]
            /\ Now(w).op = "save"
        BY <2>1 DEF SelectRow, Doing, RacesInv, IInv, TypeOK
      <3> QED
        BY <1>1, <3>1 DEF UpToDate, RowSeen, Now
    <2>2. CASE ReadBalance(w)
      <3>1. /\ saw'[w] = [balance |-> BalanceSeen(w, Now(w).entity)]
            /\ Now(w).entity \in seen'[w] /\ Now(w).op = "adjust"
        BY <2>2 DEF ReadBalance, Doing, RacesInv, IInv, TypeOK
      <3> QED
        BY <1>1, <3>1 DEF UpToDate, BalanceSeen, Now
    <2> QED
      BY <2>1, <2>2
  <1> QED
    BY <1>3, <1>4, <1>5 DEF Serving

\* An INSERT or UPDATE of a movement.
LEMMA ServingWrites ==
  ASSUME RacesInv, NEW w \in Workers, ~Idle(w), Advance(w),
         UNCHANGED <<rec, bal, bals, seen>>,
         NEW new, rows' = [rows EXCEPT ![w] = Put(@, Now(w).id, new)],
         \/ Now(w).op = "save" /\ new = [row |-> Now(w).row, gone |-> FALSE]
         \/ Now(w).op = "remove" /\ new.gone,
         NEW F, NEW n, NEW acc, Serving(w, F, n, acc)
  PROVE  \E next : Serving(w, F, n + 1, next)'
  <1>1. /\ n \in Nat /\ n < Len(F) /\ F \in Seq(Statements) /\ Len(F) \in Nat
        /\ F[n + 1] = Now(w)
    BY TrackNow DEF Serving
  <1>2. F[n + 1].op \in RowOps /\ F[n + 1].op # "adjust"
    BY <1>1 DEF RowOps
  <1>3. PICK next : Tallied(F, n + 1, next, bal) /\ next[n + 1] = After(acc[n], F[n + 1])
    BY <1>1, <1>2, TallyOn DEF Serving
  <1>4. next[n + 1] = acc[n]
    BY <1>2, <1>3 DEF After
  <1>5. OnTrack(w, F, n + 1)' /\ saw'[w] = None
    BY TrackOn DEF Serving
  <1>6. Tallied(F, n + 1, next, bal)'
    BY <1>3 DEF Tallied
  <1>7. HasRead(w, F, n + 1)'
    <2>1. \A k \in 1 .. n + 1 : k \in 1 .. n \/ k = n + 1
      BY <1>1
    <2> QED
      BY <1>2, <2>1 DEF HasRead, Serving
  <1>8. Carried(w, next[n + 1])'
    BY <1>4 DEF Carried, Serving, BalanceSeen
  <1>9. Written(w, F, n + 1)'
    <2>1. PICK i : i = Now(w).id
      OBVIOUS
    <2>2. /\ DOMAIN rows'[w] = DOMAIN rows[w] \cup {i}
          /\ rows'[w][i] = new
          /\ \A x \in DOMAIN rows[w] : x # i => rows'[w][x] = rows[w][x]
      BY <2>1 DEF Put, RacesInv
    <2>3. \A k \in 1 .. n + 1 : k \in 1 .. n \/ k = n + 1
      BY <1>1
    <2>4. \A k \in 1 .. n : F[k].op \in RowOps => F[k].id # i
      <3>1. \A k \in 1 .. n : k \in 1 .. Len(F) /\ k # n + 1
        BY <1>1
      <3>2. n + 1 \in 1 .. Len(F)
        BY <1>1
      <3> QED
        BY <1>1, <1>2, <2>1, <3>1, <3>2 DEF Serving, RowsOnce
    <2>5. ASSUME NEW k \in 1 .. n + 1, F[k].op = "save"
          PROVE  /\ F[k].id \in DOMAIN rows'[w]
                 /\ rows'[w][F[k].id] = [row |-> F[k].row, gone |-> FALSE]
      <3>1. CASE k = n + 1
        BY <1>1, <2>1, <2>2, <2>5, <3>1
      <3>2. CASE k \in 1 .. n
        BY <2>2, <2>4, <2>5, <3>2 DEF Serving, Written, RowOps
      <3> QED
        BY <2>3, <3>1, <3>2
    <2>6. ASSUME NEW k \in 1 .. n + 1, F[k].op = "remove"
          PROVE  F[k].id \in DOMAIN rows'[w] /\ rows'[w][F[k].id].gone
      <3>1. CASE k = n + 1
        BY <1>1, <2>1, <2>2, <2>6, <3>1
      <3>2. CASE k \in 1 .. n
        BY <2>2, <2>4, <2>6, <3>2 DEF Serving, Written, RowOps
      <3> QED
        BY <2>3, <3>1, <3>2
    <2>7. ASSUME NEW x \in DOMAIN rows'[w]
          PROVE  \E k \in 1 .. n + 1 : F[k].op \in RowOps /\ F[k].id = x
      <3>1. CASE x = i
        <4>1. n + 1 \in 1 .. n + 1
          BY <1>1
        <4> QED
          BY <1>1, <1>2, <2>1, <3>1, <4>1
      <3>2. CASE x \in DOMAIN rows[w]
        <4>1. PICK k \in 1 .. n : F[k].op \in RowOps /\ F[k].id = x
          BY <3>2 DEF Serving, Written
        <4>2. k \in 1 .. n + 1
          BY <1>1
        <4> QED
          BY <4>1, <4>2
      <3> QED
        BY <2>2, <3>1, <3>2
    <2> QED
      BY <2>5, <2>6, <2>7 DEF Written
  <1>10. UpToDate(w)'
    BY <1>5 DEF UpToDate
  <1> QED
    BY <1>5, <1>6, <1>7, <1>8, <1>9, <1>10 DEF Serving

\* The write of a balance.
LEMMA ServingAdjusts ==
  ASSUME RacesInv, NEW w \in Workers, WriteBalance(w),
         NEW F, NEW n, NEW acc, Serving(w, F, n, acc)
  PROVE  \E next : Serving(w, F, n + 1, next)'
  <1>1. /\ ~Idle(w) /\ Now(w).op = "adjust" /\ saw[w] # None /\ Advance(w)
        /\ rec' = rec /\ bal' = bal /\ rows' = rows /\ seen' = seen
        /\ Allowed(Now(w).entity, saw[w].balance, Now(w).delta)
        /\ bals' = [bals EXCEPT ![w] = Put(@, Now(w).entity, saw[w].balance + Now(w).delta)]
    BY DEF WriteBalance, Doing
  <1>2. /\ n \in Nat /\ n < Len(F) /\ F \in Seq(Statements) /\ Len(F) \in Nat
        /\ F[n + 1] = Now(w) /\ Now(w) \in Statements
    BY <1>1, TrackNow DEF Serving
  <1>3. PICK e : e = Now(w).entity
    OBVIOUS
  <1>4. PICK m : m = Now(w).delta
    OBVIOUS
  <1>5. e \in Entities /\ m \in Int
    BY <1>1, <1>2, <1>3, <1>4 DEF Statements
  <1>6. e \in seen[w] /\ saw[w].balance = bal[e] + acc[n][e]
    BY <1>1, <1>3, <1>5 DEF Serving, UpToDate, Carried
  <1>7. Allowed(e, bal[e] + acc[n][e], m)
    BY <1>1, <1>3, <1>4, <1>6
  <1>8. F[n + 1].op = "adjust" /\ F[n + 1].entity = e /\ F[n + 1].delta = m
    BY <1>1, <1>2, <1>3, <1>4
  <1>9. PICK next : Tallied(F, n + 1, next, bal) /\ next[n + 1] = After(acc[n], F[n + 1])
    BY <1>2, <1>7, <1>8, TallyOn DEF Serving
  <1>10. next[n + 1] = [acc[n] EXCEPT ![e] = @ + m]
    BY <1>8, <1>9 DEF After
  <1>11. OnTrack(w, F, n + 1)' /\ saw'[w] = None
    BY <1>1, TrackOn DEF Serving
  <1>12. Tallied(F, n + 1, next, bal)'
    BY <1>1, <1>9 DEF Tallied
  <1>13. HasRead(w, F, n + 1)'
    <2>1. \A k \in 1 .. n + 1 : k \in 1 .. n \/ k = n + 1
      BY <1>2
    <2> QED
      BY <1>1, <1>6, <1>8, <2>1 DEF HasRead, Serving
  <1>14. Carried(w, next[n + 1])'
    <2>1. bals'[w] = Put(bals[w], e, bal[e] + acc[n][e] + m)
      BY <1>1, <1>3, <1>4, <1>6 DEF RacesInv
    <2>2. /\ DOMAIN bals'[w] = DOMAIN bals[w] \cup {e}
          /\ bals'[w][e] = bal[e] + acc[n][e] + m
          /\ \A x \in DOMAIN bals[w] : x # e => bals'[w][x] = bals[w][x]
      BY <2>1 DEF Put
    <2>3. acc[n] \in [Entities -> Int] /\ bal \in [Entities -> Int]
      <3>1. n \in 0 .. n
        BY <1>2
      <3> QED
        BY <3>1 DEF Serving, Tallied, RacesInv, IInv, TypeOK
    <2>4. ASSUME NEW x \in Entities
          PROVE  (IF x \in DOMAIN bals'[w] THEN bals'[w][x] ELSE bal[x]) = bal[x] + next[n + 1][x]
      <3>1. CASE x = e
        <4>1. next[n + 1][x] = acc[n][e] + m
          BY <1>10, <2>3, <3>1
        <4>2. bal[e] \in Int /\ acc[n][e] \in Int
          BY <1>5, <2>3
        <4> QED
          BY <1>5, <2>2, <3>1, <4>1, <4>2
      <3>2. CASE x # e
        <4>1. next[n + 1][x] = acc[n][x]
          BY <1>10, <2>3, <3>2
        <4>2. BalanceSeen(w, x) = bal[x] + acc[n][x]
          BY DEF Serving, Carried
        <4> QED
          BY <2>2, <3>2, <4>1, <4>2 DEF BalanceSeen
      <3> QED
        BY <3>1, <3>2
    <2>5. DOMAIN bals'[w] \subseteq seen'[w]
      BY <1>1, <1>6, <2>2 DEF Serving, Carried
    <2> QED
      BY <1>1, <2>4, <2>5 DEF Carried, BalanceSeen
  <1>15. Written(w, F, n + 1)'
    <2>1. \A k \in 1 .. n + 1 : k \in 1 .. n \/ k = n + 1
      BY <1>2
    <2>2. \A k \in 1 .. n : k \in 1 .. n + 1
      BY <1>2
    <2>3. F[n + 1].op \notin RowOps
      BY <1>8 DEF RowOps
    <2>4. /\ \A k \in 1 .. n + 1 : F[k].op = "save" =>
               F[k].id \in DOMAIN rows[w] /\ rows[w][F[k].id] = [row |-> F[k].row, gone |-> FALSE]
          /\ \A k \in 1 .. n + 1 : F[k].op = "remove" =>
               F[k].id \in DOMAIN rows[w] /\ rows[w][F[k].id].gone
      BY <2>1, <2>3 DEF Serving, Written, RowOps
    <2>5. \A i \in DOMAIN rows[w] : \E k \in 1 .. n + 1 : F[k].op \in RowOps /\ F[k].id = i
      BY <2>2 DEF Serving, Written
    <2> QED
      BY <1>1, <2>4, <2>5 DEF Written
  <1>16. UpToDate(w)'
    BY <1>11 DEF UpToDate
  <1> QED
    BY <1>11, <1>12, <1>13, <1>14, <1>15, <1>16 DEF Serving

LEMMA ServingSteps ==
  ASSUME RacesInv, NEW w \in Workers,
         SelectRow(w) \/ UpdateRow(w) \/ InsertRow(w) \/ SoftRemoveRow(w)
           \/ ReadBalance(w) \/ WriteBalance(w),
         NEW F, NEW n, NEW acc, Serving(w, F, n, acc)
  PROVE  \E m, next : Serving(w, F, m, next)'
  <1>1. CASE SelectRow(w) \/ ReadBalance(w)
    BY <1>1, ServingReads
  <1>2. CASE UpdateRow(w) \/ InsertRow(w)
    <2>1. /\ ~Idle(w) /\ Now(w).op = "save" /\ Advance(w)
          /\ UNCHANGED <<rec, bal, bals, seen>>
      BY <1>2 DEF UpdateRow, InsertRow, Doing
    <2>2. saw[w] # None => saw[w] = RowSeen(w, Now(w).id)
      BY <2>1 DEF Serving, UpToDate
    <2>3. rows' = [rows EXCEPT ![w] = Put(@, Now(w).id, [row |-> Now(w).row, gone |-> FALSE])]
      BY <1>2, <2>2, SavedRow
    <2> QED
      BY <2>1, <2>3, ServingWrites
  <1>3. CASE SoftRemoveRow(w)
    <2>1. /\ ~Idle(w) /\ Now(w).op = "remove" /\ Advance(w)
          /\ UNCHANGED <<rec, bal, bals, seen>>
      BY <1>3 DEF SoftRemoveRow, Doing
    <2>2. PICK new : new = [RowSeen(w, Now(w).id) EXCEPT !.gone = TRUE]
      OBVIOUS
    <2>3. rows' = [rows EXCEPT ![w] = Put(@, Now(w).id, new)]
      BY <1>3, <2>2 DEF SoftRemoveRow
    <2>4. new.gone
      <3>1. IInv /\ Now(w) \in Runnable
        BY <2>1, HeadRunnable DEF RacesInv
      <3>2. Now(w).id \in Ids /\ rec[Now(w).id] # None
        BY <2>1, <3>1 DEF Runnable, Statements
      <3>3. RowSeen(w, Now(w).id) \in Version
        BY <3>1, <3>2 DEF RowSeen, IInv, TypeOK
      <3> QED
        BY <2>2, <3>3 DEF Version
    <2> QED
      BY <2>1, <2>3, <2>4, ServingWrites
  <1>4. CASE WriteBalance(w)
    BY <1>4, ServingAdjusts
  <1> QED
    BY <1>1, <1>2, <1>3, <1>4

-----------------------------------------------------------------------------
(***************************************************************************)
(* What it was asked for, and that nobody else takes it away.              *)
(***************************************************************************)
PlainPlanOf(s, old, new) == <<s>> \o LinkMoves(old, new) \o <<Finish>>

\* One of applyTransferAdjustment's adjustments, applied or reverted.
LegMove(r, sign) == Adjust(HitOf(r), sign * Worth(r, HitOf(r)))

AskedCreate(w, F) ==
  \E i \in Ids, d \in Draft :
    /\ rec[i] = None
    /\ F = PlainPlanOf(Save(i, L!PlainRow(d)), L!NoLeg, L!PlainRow(d))

AskedUpdate(w, F) ==
  \E i \in Ids, d \in Draft :
    /\ LiveRows[i] # None /\ ~L!Grouped(i) /\ i \in seen[w]
    /\ F = PlainPlanOf(Save(i, L!Merged(LiveRows[i], d)), LiveRows[i],
                       L!Merged(LiveRows[i], d))

AskedDelete(w, F) ==
  \E i \in Ids :
    /\ LiveRows[i] # None /\ ~L!Grouped(i) /\ i \in seen[w]
    /\ F = PlainPlanOf(Remove(i), LiveRows[i], L!NoLeg)

\* The leg that debits, and the leg that credits, as they are created.
OriginLeg(i, src, amt) == L!Leg(amt, src, None, None, None, i)
OtherLeg(i, dst, amt) ==
  IF dst \in Accounts THEN L!Leg(amt, None, dst, None, None, i)
                      ELSE L!Leg(amt, None, None, dst, None, i)

\* The statements of a request for a transfer, one by one.
FiveAre(F, a, b, c, d, e) ==
  /\ F \in Seq(Statements) /\ Len(F) = 5
  /\ F[1] = a /\ F[2] = b /\ F[3] = c /\ F[4] = d /\ F[5] = e

SevenAre(F, a, b, c, d, e, g, h) ==
  /\ F \in Seq(Statements) /\ Len(F) = 7
  /\ F[1] = a /\ F[2] = b /\ F[3] = c /\ F[4] = d /\ F[5] = e /\ F[6] = g /\ F[7] = h

AskedTransfer(w, F) ==
  \E i, j \in Ids, src \in Accounts, dst \in Entities, amt \in TransferAmounts :
    /\ i # j /\ rec[i] = None /\ rec[j] = None
    /\ FiveAre(F, Save(i, OriginLeg(i, src, amt)), Save(j, OtherLeg(i, dst, amt)),
               LegMove(OriginLeg(i, src, amt), 1), LegMove(OtherLeg(i, dst, amt), 1),
               Finish)

\* A pair that w has loaded and that is still live.
LivePair(w, f, s) ==
  Pair(f, s) /\ LiveRows[f] # None /\ LiveRows[s] # None /\ {f, s} \subseteq seen[w]

WithAmount(r, amt) == [r EXCEPT !.amount = amt]

AskedAmend(w, F) ==
  \E f, s \in Ids, amt \in TransferAmounts :
    /\ LivePair(w, f, s)
    /\ SevenAre(F, LegMove(LiveRows[f], -1), LegMove(LiveRows[s], -1),
                Save(f, WithAmount(LiveRows[f], amt)), LegMove(WithAmount(LiveRows[f], amt), 1),
                Save(s, WithAmount(LiveRows[s], amt)), LegMove(WithAmount(LiveRows[s], amt), 1),
                Finish)

AskedDrop(w, F) ==
  \E f, s \in Ids :
    /\ LivePair(w, f, s)
    /\ FiveAre(F, LegMove(LiveRows[f], -1), Remove(f), LegMove(LiveRows[s], -1), Remove(s),
               Finish)

Asked(w, F) ==
  \/ AskedCreate(w, F) \/ AskedUpdate(w, F) \/ AskedDelete(w, F)
  \/ AskedTransfer(w, F) \/ AskedAmend(w, F) \/ AskedDrop(w, F)

Patching(w) ==
  \E e \in Patched, v \in Int, b \in BOOLEAN :
    /\ plan[w] = <<Patch(e, v, b)>>
    /\ v \in SetValues \/ (v = bal[e] /\ e \in seen[w])

Faithful(w) ==
  \/ Idle(w)
  \/ Patching(w)
  \/ \E F, n, acc : Serving(w, F, n, acc) /\ Asked(w, F)

\* A request that has ended has left no balance behind.
NothingLeft == \A w \in Workers : Idle(w) => bals[w] = Nowhere

FreshInv ==
  /\ RacesInv /\ NothingLeft
  /\ ShapesKept
  /\ \A w \in Workers \ stale : Faithful(w)

\* A step of others that leaves alone what w has read, and the pairs, and
\* takes no id that w was given.
Undisturbed(w) ==
  /\ plan'[w] = plan[w] /\ saw'[w] = saw[w] /\ rows'[w] = rows[w] /\ bals'[w] = bals[w]
  /\ seen'[w] = seen[w]
  /\ \A i \in Ids : i \in seen[w] => rec'[i] = rec[i]
  /\ \A i \in Ids : rec[i] = None /\ Holds(w, i) => rec'[i] = None
  /\ \A e \in Entities : e \in seen[w] => bal'[e] = bal[e]
  /\ \A g, s : Pair(g, s) => Pair(g, s)'

\* The rows a request serves are its own.
LEMMA ServingHolds ==
  ASSUME NEW w \in Workers, NEW F, NEW n, NEW acc, Serving(w, F, n, acc),
         NEW k \in 1 .. Len(F), F[k].op = "save"
  PROVE  Holds(w, F[k].id)
  <1>1. F \in Seq(Statements) /\ n \in 0 .. Len(F) /\ Len(F) \in Nat
    BY DEF Serving, OnTrack
  <1>2. CASE k \in 1 .. n
    BY <1>2 DEF Serving, Written, Holds
  <1>3. CASE k \notin 1 .. n
    <2>1. k - n \in 1 .. Len(plan[w]) /\ n + (k - n) = k
      BY <1>1, <1>3 DEF Serving, OnTrack
    <2>2. plan[w][k - n] = F[k]
      BY <2>1 DEF Serving, OnTrack
    <2> QED
      BY <2>1, <2>2 DEF Holds
  <1> QED
    BY <1>2, <1>3

LEMMA ServingRests ==
  ASSUME RacesInv, IInv', NEW w \in Workers, Undisturbed(w),
         NEW F, NEW n, NEW acc, Serving(w, F, n, acc)
  PROVE  Serving(w, F, n, acc)'
  <1>1. /\ plan'[w] = plan[w] /\ saw'[w] = saw[w] /\ rows'[w] = rows[w]
        /\ bals'[w] = bals[w] /\ seen'[w] = seen[w]
        /\ \A e \in Entities : e \in seen[w] => bal'[e] = bal[e]
        /\ \A i \in Ids : i \in seen[w] => rec'[i] = rec[i]
    BY DEF Undisturbed
  <1>2. Statements' = Statements
    BY DEF Statements
  <1>3. OnTrack(w, F, n)' /\ HasRead(w, F, n)' /\ Written(w, F, n)'
    BY <1>1, <1>2 DEF Serving, OnTrack, HasRead, Written
  <1>4. F \in Seq(Statements) /\ n \in 0 .. Len(F) /\ Len(F) \in Nat
    BY DEF Serving, OnTrack
  <1>5. Tallied(F, n, acc, bal)'
    <2>1. ASSUME NEW k \in 1 .. n, F[k].op = "adjust"
          PROVE  bal'[F[k].entity] = bal[F[k].entity]
      <3>1. F[k] \in Statements
        BY <1>4
      <3>2. F[k].entity \in Entities /\ F[k].entity \in seen[w]
        BY <2>1, <3>1 DEF Statements, Serving, HasRead
      <3> QED
        BY <1>1, <3>2
    <2> QED
      BY <2>1 DEF Serving, Tallied
  <1>6. Carried(w, acc[n])'
    <2>1. ASSUME NEW e \in Entities
          PROVE  (IF e \in DOMAIN bals[w] THEN bals[w][e] ELSE bal'[e]) = bal'[e] + acc[n][e]
      <3>1. CASE e \in DOMAIN bals[w]
        BY <1>1, <3>1 DEF Serving, Carried, BalanceSeen
      <3>2. CASE e \notin DOMAIN bals[w]
        <4>1. bal[e] = bal[e] + acc[n][e]
          BY <3>2 DEF Serving, Carried, BalanceSeen
        <4>2. bal[e] \in Int /\ acc[n][e] \in Int
          <5>1. n \in 0 .. n
            BY <1>4
          <5> QED
            BY <5>1 DEF RacesInv, IInv, TypeOK, Serving, Tallied
        <4>3. acc[n][e] = 0
          BY <4>1, <4>2
        <4>4. bal'[e] \in Int
          BY DEF IInv, TypeOK
        <4> QED
          BY <3>2, <4>3, <4>4
      <3> QED
        BY <3>1, <3>2
    <2> QED
      BY <1>1, <2>1 DEF Serving, Carried, BalanceSeen
  <1>7. UpToDate(w)'
    <2> SUFFICES ASSUME saw[w] # None
                 PROVE  UpToDate(w)'
      BY <1>1 DEF UpToDate
    <2>1. ~Idle(w) /\ Now(w)' = Now(w)
      BY <1>1 DEF RacesInv, IInv, Selected, Doing, Now
    <2>2. Now(w) \in Statements
      BY <2>1, HeadRunnable DEF RacesInv, Runnable
    <2>3. CASE Now(w).op = "save"
      <3>1. Now(w).id \in Ids /\ Now(w).id \in seen[w] /\ saw[w] = RowSeen(w, Now(w).id)
        BY <2>2, <2>3 DEF Statements, Serving, UpToDate
      <3> QED
        BY <1>1, <2>1, <2>3, <3>1 DEF UpToDate, RowSeen
    <2>4. CASE Now(w).op = "adjust"
      <3>1. /\ Now(w).entity \in Entities /\ Now(w).entity \in seen[w]
            /\ saw[w].balance = BalanceSeen(w, Now(w).entity)
        BY <2>2, <2>4 DEF Statements, Serving, UpToDate
      <3> QED
        BY <1>1, <2>1, <2>4, <3>1 DEF UpToDate, BalanceSeen
    <2> QED
      BY <1>1, <2>1, <2>3, <2>4 DEF UpToDate
  <1> QED
    BY <1>3, <1>5, <1>6, <1>7 DEF Serving

\* The statements of a request for a plain movement.
LEMMA PlainPlanFacts ==
  ASSUME NEW s \in Statements, NEW old \in L!Record, NEW new \in L!Record
  PROVE  /\ LinkMoves(old, new) \in Seq(Adjustments)
         /\ Len(LinkMoves(old, new)) \in Nat
         /\ PlainPlanOf(s, old, new) \in Seq(Statements)
         /\ Len(PlainPlanOf(s, old, new)) = Len(LinkMoves(old, new)) + 2
         /\ PlainPlanOf(s, old, new)[1] = s
         /\ \A k \in 1 .. Len(LinkMoves(old, new)) :
              PlainPlanOf(s, old, new)[k + 1] = LinkMoves(old, new)[k]
         /\ PlainPlanOf(s, old, new)[Len(LinkMoves(old, new)) + 2] = Finish
  <1>1. PICK M : M = LinkMoves(old, new)
    OBVIOUS
  <1>2. M \in Seq(Adjustments)
    BY <1>1, LinkMovesType
  <1>3. Adjustments \subseteq Statements /\ Finish \in Statements
    BY DEF Adjustments, Finish, Statements
  <1>4. PICK fin : fin = Finish
    OBVIOUS
  <1>5. M \in Seq(Statements) /\ fin \in Statements
    BY <1>2, <1>3, <1>4
  <1>6. /\ <<s>> \o M \o <<fin>> \in Seq(Statements)
        /\ Len(<<s>> \o M \o <<fin>>) = Len(M) + 2 /\ Len(M) \in Nat
        /\ (<<s>> \o M \o <<fin>>)[1] = s
        /\ \A k \in 1 .. Len(M) : (<<s>> \o M \o <<fin>>)[k + 1] = M[k]
        /\ (<<s>> \o M \o <<fin>>)[Len(M) + 2] = fin
    BY <1>5
  <1> QED
    BY <1>1, <1>2, <1>4, <1>6 DEF PlainPlanOf

LEMMA NewRows ==
  /\ \A i \in Ids, d \in Draft : Save(i, L!PlainRow(d)) \in Statements
  /\ \A i, j \in Ids, src \in Accounts, dst \in Entities, amt \in TransferAmounts :
       /\ OriginLeg(i, src, amt) \in L!Record /\ OtherLeg(i, dst, amt) \in L!Record
       /\ Save(j, OriginLeg(i, src, amt)) \in Statements
       /\ Save(j, OtherLeg(i, dst, amt)) \in Statements
  <1>1. \A d \in Draft : L!PlainRow(d) \in L!Record
    BY PlainRowType
  <1>2. \A i \in Ids, r \in L!Record : Save(i, r) \in Statements
    BY DEF Save, Statements
  <1>3. TransferAmounts \subseteq Nat
    BY LedgerTxAssumption DEF Amounts
  <1>4. \A i \in Ids, src \in Accounts, amt \in TransferAmounts :
          OriginLeg(i, src, amt) \in L!Record
    BY <1>3 DEF OriginLeg, L!Leg, L!Record, L!TxTypes, L!Patrimony
  <1>5. \A i \in Ids, dst \in Entities, amt \in TransferAmounts :
          OtherLeg(i, dst, amt) \in L!Record
    BY <1>3 DEF OtherLeg, L!Leg, L!Record, L!TxTypes, L!Patrimony, Entities
  <1> QED
    BY <1>1, <1>2, <1>4, <1>5

\* Nobody else changes what a request was asked for.
LEMMA AskedRests ==
  ASSUME RacesInv, NEW w \in Workers, Undisturbed(w),
         NEW F, NEW n, NEW acc, Serving(w, F, n, acc), Asked(w, F)
  PROVE  Asked(w, F)'
  <1>1. /\ seen'[w] = seen[w]
        /\ \A i \in Ids : i \in seen[w] => rec'[i] = rec[i]
        /\ \A i \in Ids : rec[i] = None /\ Holds(w, i) => rec'[i] = None
        /\ \A g, s : Pair(g, s) => Pair(g, s)'
    BY DEF Undisturbed
  <1>2. \A i \in Ids : i \in seen[w] => LiveRows'[i] = LiveRows[i]
    BY <1>1 DEF LiveRows
  <1>3. \A i \in Ids : i \in seen[w] => (L!Grouped(i)' <=> L!Grouped(i))
    BY <1>2 DEF L!Grouped
  <1>4. CASE AskedCreate(w, F)
    <2>1. PICK i \in Ids, d \in Draft :
            /\ rec[i] = None
            /\ F = PlainPlanOf(Save(i, L!PlainRow(d)), L!NoLeg, L!PlainRow(d))
      BY <1>4 DEF AskedCreate
    <2>2. PICK s : s = Save(i, L!PlainRow(d))
      OBVIOUS
    <2>3. /\ s \in Statements /\ s.op = "save" /\ s.id = i
          /\ L!PlainRow(d) \in L!Record /\ L!NoLeg \in L!Record
      BY <2>2, NewRows, PlainRowType, NoLegType DEF Save
    <2>4. 1 \in 1 .. Len(F) /\ F[1] = s
      BY <2>1, <2>2, <2>3, PlainPlanFacts
    <2>5. Holds(w, i)
      BY <2>3, <2>4, ServingHolds
    <2>6. rec'[i] = None
      BY <1>1, <2>1, <2>5
    <2> QED
      BY <2>1, <2>6 DEF Asked, AskedCreate
  <1>5. CASE AskedUpdate(w, F)
    BY <1>1, <1>2, <1>3, <1>5 DEF Asked, AskedUpdate
  <1>6. CASE AskedDelete(w, F)
    BY <1>1, <1>2, <1>3, <1>6 DEF Asked, AskedDelete
  <1>7. CASE AskedTransfer(w, F)
    <2>1. PICK i \in Ids, j \in Ids, src \in Accounts, dst \in Entities, amt \in TransferAmounts :
            /\ i # j /\ rec[i] = None /\ rec[j] = None
            /\ FiveAre(F, Save(i, OriginLeg(i, src, amt)), Save(j, OtherLeg(i, dst, amt)),
                       LegMove(OriginLeg(i, src, amt), 1), LegMove(OtherLeg(i, dst, amt), 1),
                       Finish)
      BY <1>7 DEF AskedTransfer
    <2>2. /\ 1 \in 1 .. Len(F) /\ F[1] = Save(i, OriginLeg(i, src, amt))
          /\ 2 \in 1 .. Len(F) /\ F[2] = Save(j, OtherLeg(i, dst, amt))
      BY <2>1 DEF FiveAre
    <2>3. F[1].op = "save" /\ F[1].id = i /\ F[2].op = "save" /\ F[2].id = j
      BY <2>2 DEF Save
    <2>4. Holds(w, i) /\ Holds(w, j)
      BY <2>2, <2>3, ServingHolds
    <2>5. rec'[i] = None /\ rec'[j] = None
      BY <1>1, <2>1, <2>4
    <2>6. Statements' = Statements
      BY DEF Statements
    <2> QED
      BY <2>1, <2>5, <2>6 DEF Asked, AskedTransfer, FiveAre
  <1>8. \A f, s \in Ids : LivePair(w, f, s) =>
          LivePair(w, f, s)' /\ LiveRows'[f] = LiveRows[f] /\ LiveRows'[s] = LiveRows[s]
    BY <1>1, <1>2 DEF LivePair
  <1>9. CASE AskedAmend(w, F)
    <2>1. PICK f \in Ids, s \in Ids, amt \in TransferAmounts :
            /\ LivePair(w, f, s)
            /\ SevenAre(F, LegMove(LiveRows[f], -1), LegMove(LiveRows[s], -1),
                 Save(f, WithAmount(LiveRows[f], amt)), LegMove(WithAmount(LiveRows[f], amt), 1),
                 Save(s, WithAmount(LiveRows[s], amt)), LegMove(WithAmount(LiveRows[s], amt), 1),
                 Finish)
      BY <1>9 DEF AskedAmend
    <2>2. LivePair(w, f, s)' /\ LiveRows'[f] = LiveRows[f] /\ LiveRows'[s] = LiveRows[s]
      BY <1>8, <2>1
    <2>3. Statements' = Statements
      BY DEF Statements
    <2> QED
      BY <2>1, <2>2, <2>3 DEF Asked, AskedAmend, SevenAre
  <1>10. CASE AskedDrop(w, F)
    <2>1. PICK f \in Ids, s \in Ids :
            /\ LivePair(w, f, s)
            /\ FiveAre(F, LegMove(LiveRows[f], -1), Remove(f), LegMove(LiveRows[s], -1),
                       Remove(s), Finish)
      BY <1>10 DEF AskedDrop
    <2>2. LivePair(w, f, s)' /\ LiveRows'[f] = LiveRows[f] /\ LiveRows'[s] = LiveRows[s]
      BY <1>8, <2>1
    <2>3. Statements' = Statements
      BY DEF Statements
    <2> QED
      BY <2>1, <2>2, <2>3 DEF Asked, AskedDrop, FiveAre
  <1> QED
    BY <1>4, <1>5, <1>6, <1>7, <1>9, <1>10 DEF Asked

LEMMA FaithfulRests ==
  ASSUME RacesInv, IInv', NEW w \in Workers, Undisturbed(w), Faithful(w)
  PROVE  Faithful(w)'
  <1>1. /\ plan'[w] = plan[w] /\ seen'[w] = seen[w]
        /\ \A e \in Entities : e \in seen[w] => bal'[e] = bal[e]
    BY DEF Undisturbed
  <1>2. CASE Idle(w)
    BY <1>1, <1>2 DEF Faithful, Idle
  <1>3. CASE Patching(w)
    <2>1. PICK e \in Patched, v \in Int, b \in BOOLEAN :
            /\ plan[w] = <<Patch(e, v, b)>>
            /\ v \in SetValues \/ (v = bal[e] /\ e \in seen[w])
      BY <1>3 DEF Patching
    <2>2. e \in Entities
      BY LedgerTxAssumption
    <2>3. v \in SetValues \/ (v = bal'[e] /\ e \in seen'[w])
      BY <1>1, <2>1, <2>2
    <2> QED
      BY <1>1, <2>1, <2>3 DEF Patching, Faithful
  <1>4. ASSUME NEW F, NEW n, NEW acc, Serving(w, F, n, acc), Asked(w, F)
        PROVE  Faithful(w)'
    BY <1>4, ServingRests, AskedRests DEF Faithful
  <1> QED
    BY <1>2, <1>3, <1>4 DEF Faithful

\* What others do leaves a request alone, or makes what it has read stale.
LEMMA OthersDisturb ==
  ASSUME RacesInv, NEW v \in Workers, NEW w \in Workers, v # w, w \notin stale',
         Request(v) \/ Statement(v) \/ Crash(v) \/ Victim(v)
  PROVE  w \notin stale /\ Undisturbed(w)
  <1>1. ASSUME rec' = rec
        PROVE  \A g, s : Pair(g, s) => Pair(g, s)'
    BY <1>1 DEF Pair, Group
  <1>2. CASE Request(v)
    <2>1. ASSUME NEW ss, NEW loaded, Begin(v, ss, loaded)
          PROVE  w \notin stale /\ Undisturbed(w)
      BY <1>1, <2>1 DEF Begin, Undisturbed, RacesInv, IInv, TypeOK
    <2>2. \E ss, loaded : Begin(v, ss, loaded)
      BY <1>2, RequestBegins
    <2> QED
      BY <2>1, <2>2
  <1>3. CASE SelectRow(v) \/ ReadBalance(v)
    BY <1>1, <1>3 DEF SelectRow, ReadBalance, Undisturbed, RacesInv, IInv, TypeOK
  <1>4. CASE UpdateRow(v) \/ InsertRow(v) \/ SoftRemoveRow(v) \/ WriteBalance(v)
    <2>1. /\ rec' = rec /\ bal' = bal /\ stale' = stale /\ seen' = seen /\ Advance(v)
          /\ rows'[w] = rows[w] /\ bals'[w] = bals[w]
      BY <1>4 DEF UpdateRow, InsertRow, SoftRemoveRow, WriteBalance, RacesInv
    <2>2. plan'[w] = plan[w] /\ saw'[w] = saw[w]
      BY <2>1 DEF Advance, RacesInv, IInv, TypeOK
    <2> QED
      BY <1>1, <2>1, <2>2 DEF Undisturbed
  <1>5. ASSUME EndOf(v)
        PROVE  /\ plan'[w] = plan[w] /\ saw'[w] = saw[w] /\ rows'[w] = rows[w]
               /\ bals'[w] = bals[w] /\ seen'[w] = seen[w]
    BY <1>5 DEF EndOf, RacesInv, IInv, TypeOK
  <1>6. CASE Refuse(v) \/ Crash(v) \/ Victim(v)
    <2>1. rec' = rec /\ bal' = bal /\ stale' = stale \ {v} /\ EndOf(v)
      BY <1>6 DEF Refuse, Crash, Victim
    <2> QED
      BY <1>1, <1>5, <2>1 DEF Undisturbed
  <1>7. CASE Commit(v)
    <2>1. /\ rec' = [i \in Ids |-> IF i \in DOMAIN rows[v] THEN rows[v][i] ELSE rec[i]]
          /\ bal' = [e \in Entities |-> IF e \in DOMAIN bals[v] THEN bals[v][e] ELSE bal[e]]
          /\ EndOf(v)
      BY <1>7 DEF Commit
    <2>2. /\ w \notin stale
          /\ \A x \in DOMAIN rows[v] \cup DOMAIN bals[v] : x \notin seen[w]
      BY <1>7 DEF Commit, Outdates, Locks
    <2>3. \A i \in Ids : i \in seen[w] => rec'[i] = rec[i]
      BY <2>1, <2>2
    <2>4. \A e \in Entities : e \in seen[w] => bal'[e] = bal[e]
      BY <2>1, <2>2
    <2>5. ASSUME NEW i \in Ids, rec[i] = None, Holds(w, i)
          PROVE  rec'[i] = None
      <3>1. ~Holds(v, i)
        BY <2>5 DEF RacesInv, OneOwner
      <3> QED
        BY <2>1, <2>5, <3>1 DEF Holds
    <2>6. \A g, s : Pair(g, s) => Pair(g, s)'
      BY <1>7, CommitPairs
    <2> QED
      BY <1>5, <2>1, <2>2, <2>3, <2>4, <2>5, <2>6 DEF Undisturbed
  <1>8. CASE SavePatch(v)
    <2>1. /\ rec' = rec /\ bal' = [bal EXCEPT ![Now(v).entity] = Now(v).value] /\ EndOf(v)
      BY <1>8 DEF SavePatch
    <2>2. w \notin stale /\ (bal' # bal => Now(v).entity \notin seen[w])
      BY <1>8 DEF SavePatch, Outdates
    <2>3. \A e \in Entities : e \in seen[w] => bal'[e] = bal[e]
      BY <2>1, <2>2 DEF RacesInv, IInv, TypeOK
    <2> QED
      BY <1>1, <1>5, <2>1, <2>2, <2>3 DEF Undisturbed
  <1> QED
    BY <1>2, <1>3, <1>4, <1>6, <1>7, <1>8 DEF Statement

-----------------------------------------------------------------------------
(***************************************************************************)
(* The shape of the legs.                                                  *)
(***************************************************************************)
LEMMA BareShaped == \A r : Bare(r) => Shaped(r)
  BY DEF Bare, Shaped

LEMMA LegsShaped ==
  \A i \in Ids, src \in Accounts, dst \in Entities, amt \in TransferAmounts :
    Shaped(OriginLeg(i, src, amt)) /\ Shaped(OtherLeg(i, dst, amt))
  <1>1. None \notin Accounts
    BY LedgerTxAssumption DEF Entities
  <1> QED
    BY <1>1 DEF Shaped, OriginLeg, OtherLeg, L!Leg, Entities

\* What a statement writes over shaped rows is shaped.
LEMMA WritesShaped ==
  ASSUME RacesInv, ShapesKept, NEW w \in Workers,
         UpdateRow(w) \/ InsertRow(w) \/ SoftRemoveRow(w)
  PROVE  \A i \in DOMAIN rows'[w] : Shaped(rows'[w][i].row)
  <1>1. ~Idle(w) /\ Now(w) \in Runnable /\ rec' = rec /\ Now(w).op \in {"save", "remove"}
    BY HeadRunnable DEF UpdateRow, InsertRow, SoftRemoveRow, Doing, RacesInv
  <1>2. Now(w).id \in Ids
    BY <1>1 DEF Runnable, Statements
  <1>3. ASSUME NEW new, rows' = [rows EXCEPT ![w] = Put(@, Now(w).id, new)], Shaped(new.row)
        PROVE  \A i \in DOMAIN rows'[w] : Shaped(rows'[w][i].row)
    BY <1>3 DEF Put, ShapesKept, RacesInv
  <1>4. CASE SoftRemoveRow(w)
    <2>1. Now(w).op = "remove" /\ rec[Now(w).id] # None
      BY <1>1, <1>4 DEF SoftRemoveRow, Doing, Runnable
    <2>2. PICK old : old = RowSeen(w, Now(w).id)
      OBVIOUS
    <2>3. old \in Version /\ Shaped(old.row)
      BY <1>2, <2>1, <2>2 DEF RowSeen, RacesInv, IInv, TypeOK, ShapesKept
    <2>4. [old EXCEPT !.gone = TRUE].row = old.row
      BY <2>3 DEF Version
    <2> QED
      BY <1>3, <1>4, <2>2, <2>3, <2>4 DEF SoftRemoveRow
  <1>5. CASE UpdateRow(w) \/ InsertRow(w)
    <2>1. Now(w).op = "save"
      BY <1>5 DEF UpdateRow, InsertRow, Doing
    <2>2. Shaped(Now(w).row)
      <3>1. plan[w] \in Seq(Statements) /\ plan[w] # <<>>
        BY <1>1 DEF RacesInv, IInv, TypeOK, Idle
      <3>2. 1 \in 1 .. Len(plan[w]) /\ Now(w) = plan[w][1]
        BY <3>1 DEF Now
      <3> QED
        BY <2>1, <3>2 DEF ShapesKept
    <2>3. ASSUME NEW i \in Ids, NEW j \in Ids, NEW o, NEW d, Writing(w, i, j, o, d)
          PROVE  \A k \in DOMAIN rows'[w] : Shaped(rows'[w][k].row)
      <3>1. saw[w] # None => saw[w] = RowSeen(w, Now(w).id)
        BY <1>1, <2>1, <2>3 DEF Writing, Doing
      <3>2. rows' = [rows EXCEPT ![w] = Put(@, Now(w).id, [row |-> Now(w).row, gone |-> FALSE])]
        BY <1>5, <3>1, SavedRow
      <3>3. PICK new : new = [row |-> Now(w).row, gone |-> FALSE]
        OBVIOUS
      <3>4. rows' = [rows EXCEPT ![w] = Put(@, Now(w).id, new)] /\ Shaped(new.row)
        BY <2>2, <3>2, <3>3
      <3> QED
        BY <1>3, <3>4
    <2>4. CASE Plainly(w)
      <3>1. Plainly(w)'
        BY <1>5, <2>4, PlainlySteps
      <3> QED
        BY <3>1, BareShaped DEF Plainly
    <2>5. CASE Creating(w)
      BY <2>3, <2>5 DEF Creating, CreatingPair
    <2>6. CASE Updating(w)
      BY <2>3, <2>6 DEF Updating, UpdatingPair
    <2>7. CASE Deleting(w)
      <3>1. PICK g \in Ids, s \in Ids : Removing(w, g, s)
        BY <2>7 DEF Deleting, DeletingPair
      <3>2. Now(w) \in Adjustments \cup {Remove(g), Remove(s), Finish}
        BY <1>1, <3>1, NowAndRest DEF Removing
      <3>3. Now(w).op # "save"
        BY <3>2 DEF Adjustments, Remove, Finish
      <3> QED
        BY <2>1, <3>3
    <2> QED
      BY <2>4, <2>5, <2>6, <2>7 DEF RacesInv, InOneOfFourWays
  <1> QED
    BY <1>4, <1>5

\* What is left of a plan keeps its shapes.
LEMMA TailShaped ==
  ASSUME RacesInv, ShapesKept, NEW w \in Workers, ~Idle(w), Advance(w)
  PROVE  \A k \in 1 .. Len(plan'[w]) : plan'[w][k].op = "save" => Shaped(plan'[w][k].row)
  <1>1. plan'[w] = Tail(plan[w])
    BY AdvancePlan
  <1>2. plan[w] \in Seq(Statements) /\ plan[w] # <<>>
    BY DEF RacesInv, IInv, TypeOK, Idle
  <1>3. \A k \in 1 .. Len(Tail(plan[w])) :
          k + 1 \in 1 .. Len(plan[w]) /\ Tail(plan[w])[k] = plan[w][k + 1]
    BY <1>2
  <1> QED
    BY <1>1, <1>3 DEF ShapesKept

LEMMA StatementsKeepShapes ==
  ASSUME RacesInv, IInv', ShapesKept, NEW w \in Workers,
         Statement(w) \/ Crash(w) \/ Victim(w)
  PROVE  ShapesKept'
  <1>1. CASE SelectRow(w) \/ ReadBalance(w)
    BY <1>1 DEF SelectRow, ReadBalance, ShapesKept
  <1>2. CASE UpdateRow(w) \/ InsertRow(w) \/ SoftRemoveRow(w) \/ WriteBalance(w)
    <2>1. ~Idle(w) /\ Advance(w) /\ rec' = rec
      BY <1>2 DEF UpdateRow, InsertRow, SoftRemoveRow, WriteBalance, Doing
    <2>2. \A v \in Workers \ {w} : rows'[v] = rows[v] /\ plan'[v] = plan[v]
      BY <1>2, <2>1 DEF UpdateRow, InsertRow, SoftRemoveRow, WriteBalance, Advance, RacesInv,
                        IInv, TypeOK
    <2>3. \A i \in DOMAIN rows'[w] : Shaped(rows'[w][i].row)
      BY <1>2, WritesShaped DEF WriteBalance, ShapesKept
    <2> QED
      BY <2>1, <2>2, <2>3, TailShaped DEF ShapesKept
  <1>3. ASSUME EndOf(w), \A i \in Ids : \/ rec'[i] = rec[i]
                                        \/ i \in DOMAIN rows[w] /\ rec'[i] = rows[w][i]
        PROVE  ShapesKept'
    <2>1. \A v \in Workers \ {w} : rows'[v] = rows[v] /\ plan'[v] = plan[v]
      BY <1>3 DEF EndOf, RacesInv, IInv, TypeOK
    <2>2. DOMAIN rows'[w] = {} /\ plan'[w] = <<>>
      BY <1>3 DEF EndOf, Nowhere, RacesInv, IInv, TypeOK
    <2>3. \A i \in Ids : rec'[i] # None => Shaped(rec'[i].row)
      BY <1>3 DEF ShapesKept
    <2> QED
      BY <2>1, <2>2, <2>3 DEF ShapesKept
  <1>4. CASE Refuse(w) \/ Crash(w) \/ Victim(w) \/ SavePatch(w)
    BY <1>3, <1>4 DEF Refuse, Crash, Victim, SavePatch
  <1>5. CASE Commit(w)
    BY <1>3, <1>5 DEF Commit
  <1> QED
    BY <1>1, <1>2, <1>4, <1>5 DEF Statement

-----------------------------------------------------------------------------
(***************************************************************************)
(* Requests begin so.                                                      *)
(***************************************************************************)

LEMMA BeginServes ==
  ASSUME RacesInv, NothingLeft, NEW w \in Workers, NEW F \in Seq(Statements), NEW loaded,
         Begin(w, F, loaded), RowsOnce(F)
  PROVE  \E n, acc : Serving(w, F, n, acc)'
  <1> DEFINE acc == [k \in 0 .. 0 |-> Zero]
  <1>1. /\ rec' = rec /\ bal' = bal /\ plan'[w] = F /\ saw'[w] = None
        /\ rows'[w] = Nowhere /\ bals'[w] = Nowhere /\ seen'[w] = loaded
    BY DEF Begin, RacesInv, IInv, TypeOK, NothingLeft, Selected, Doing, Idle
  <1>2. DOMAIN Nowhere = {} /\ Statements' = Statements
    BY DEF Nowhere, Statements
  <1>3. Zero \in [Entities -> Int] /\ \A e \in Entities : Zero[e] = 0
    BY DEF Zero
  <1>4. acc \in [0 .. 0 -> [Entities -> Int]] /\ acc[0] = Zero /\ 1 .. 0 = {}
    BY <1>3
  <1> HIDE DEF acc
  <1>5. OnTrack(w, F, 0)'
    <2>1. Len(F) \in Nat /\ 0 \in 0 .. Len(F) /\ Len(F) = Len(F) - 0
          /\ \A k \in 1 .. Len(F) : 0 + k = k
      OBVIOUS
    <2> QED
      BY <1>1, <1>2, <2>1 DEF OnTrack
  <1>6. Tallied(F, 0, acc, bal)'
    BY <1>4 DEF Tallied
  <1>7. HasRead(w, F, 0)' /\ Written(w, F, 0)'
    BY <1>1, <1>2, <1>4 DEF HasRead, Written
  <1>8. Carried(w, acc[0])'
    <2>1. \A e \in Entities : bal[e] = bal[e] + 0
      BY DEF RacesInv, IInv, TypeOK
    <2> QED
      BY <1>1, <1>2, <1>3, <1>4, <2>1 DEF Carried, BalanceSeen
  <1>9. UpToDate(w)'
    BY <1>1 DEF UpToDate
  <1> QED
    BY <1>5, <1>6, <1>7, <1>8, <1>9 DEF Serving

LEMMA BeginShaped ==
  ASSUME RacesInv, ShapesKept, NEW w \in Workers, NEW F, NEW loaded, Begin(w, F, loaded),
         \A k \in 1 .. Len(F) : F[k].op = "save" => Shaped(F[k].row)
  PROVE  ShapesKept'
  <1>1. /\ rec' = rec /\ rows' = rows /\ plan'[w] = F
        /\ \A v \in Workers \ {w} : plan'[v] = plan[v]
    BY DEF Begin, RacesInv, IInv, TypeOK
  <1> QED
    BY <1>1 DEF ShapesKept

\* What a request that begins establishes.
LEMMA BeginFaithful ==
  ASSUME RacesInv, NothingLeft, ShapesKept, NEW w \in Workers, NEW F \in Seq(Statements),
         NEW loaded, Begin(w, F, loaded), RowsOnce(F),
         \A k \in 1 .. Len(F) : F[k].op = "save" => Shaped(F[k].row),
         Asked(w, F)'
  PROVE  Faithful(w)' /\ ShapesKept'
  BY BeginServes, BeginShaped DEF Faithful

\* The one row of a plain request.
LEMMA PlainPlanOnce ==
  ASSUME NEW s \in Statements, s.op \in RowOps, NEW old \in L!Record, NEW new \in L!Record,
         s.op = "save" => Shaped(s.row)
  PROVE  /\ PlainPlanOf(s, old, new) \in Seq(Statements)
         /\ RowsOnce(PlainPlanOf(s, old, new))
         /\ \A k \in 1 .. Len(PlainPlanOf(s, old, new)) :
              PlainPlanOf(s, old, new)[k].op = "save"
                => Shaped(PlainPlanOf(s, old, new)[k].row)
  <1>1. PICK F : F = PlainPlanOf(s, old, new)
    OBVIOUS
  <1>2. PICK M : M = LinkMoves(old, new)
    OBVIOUS
  <1>3. /\ M \in Seq(Adjustments) /\ Len(M) \in Nat /\ F \in Seq(Statements)
        /\ Len(F) = Len(M) + 2 /\ F[1] = s
        /\ \A k \in 1 .. Len(M) : F[k + 1] = M[k]
        /\ F[Len(M) + 2] = Finish
    BY SMTT(60), <1>1, <1>2, PlainPlanFacts
  <1>4. ASSUME NEW k \in 1 .. Len(F), F[k].op \in RowOps
        PROVE  k = 1
    <2>1. CASE k = Len(M) + 2
      BY <1>3, <1>4, <2>1 DEF Finish, RowOps
    <2>2. CASE k # 1 /\ k # Len(M) + 2
      <3>1. k - 1 \in 1 .. Len(M) /\ (k - 1) + 1 = k
        BY <1>3, <2>2
      <3>2. F[k] = M[k - 1] /\ M[k - 1] \in Adjustments
        BY <1>3, <3>1
      <3> QED
        BY <1>4, <3>2 DEF Adjustments, RowOps
    <2> QED
      BY <2>1, <2>2
  <1>5. RowsOnce(F)
    BY <1>4 DEF RowsOnce
  <1>6. \A k \in 1 .. Len(F) : F[k].op = "save" => Shaped(F[k].row)
    BY <1>3, <1>4 DEF RowOps
  <1> QED
    BY <1>1, <1>3, <1>5, <1>6

LEMMA MovementFaithful ==
  ASSUME RacesInv, NothingLeft, ShapesKept, NEW w \in Workers, Movement(w)
  PROVE  Faithful(w)' /\ ShapesKept'
  <1>1. ASSUME NEW s \in Statements, s.op \in RowOps,
               NEW old \in L!Record, NEW new \in L!Record, s.op = "save" => Shaped(s.row),
               NEW loaded, Begin(w, PlainPlanOf(s, old, new), loaded),
               Asked(w, PlainPlanOf(s, old, new))'
        PROVE  Faithful(w)' /\ ShapesKept'
    BY <1>1, PlainPlanOnce, BeginFaithful
  <1>2. ASSUME NEW F, NEW loaded, Begin(w, F, loaded)
        PROVE  rec' = rec /\ LiveRows' = LiveRows /\ seen'[w] = loaded
    BY <1>2 DEF Begin, LiveRows, RacesInv, IInv, TypeOK
  <1>3. L!NoLeg \in L!Record /\ \A i \in Ids, r \in L!Record : Save(i, r) \in Statements
    BY NoLegType DEF Save, Statements
  <1>4. ASSUME NEW i \in Ids, NEW d \in Draft, Create(w, i, d)
        PROVE  Faithful(w)' /\ ShapesKept'
    <2>1. PICK s : s = Save(i, L!PlainRow(d))
      OBVIOUS
    <2>2. PICK new : new = L!PlainRow(d)
      OBVIOUS
    <2>3. /\ new \in L!Record /\ s \in Statements /\ s.op = "save" /\ s.row = new
          /\ Shaped(new)
      BY <2>1, <2>2, NewRows, PlainRowType DEF Save, Shaped, L!PlainRow
    <2>4. Begin(w, PlainPlanOf(s, L!NoLeg, new), {}) /\ rec[i] = None
      BY <1>4, <2>1, <2>2 DEF Create, PlainPlanOf, Fresh
    <2>5. Asked(w, PlainPlanOf(s, L!NoLeg, new))'
      BY <1>2, <2>1, <2>2, <2>4 DEF Asked, AskedCreate
    <2> QED
      BY <1>1, <1>3, <2>3, <2>4, <2>5 DEF RowOps
  <1>5. ASSUME NEW i \in Ids, NEW d \in Draft, Update(w, i, d)
        PROVE  Faithful(w)' /\ ShapesKept'
    <2>1. PICK old : old = LiveRows[i]
      OBVIOUS
    <2>2. PICK new : new = L!Merged(old, d)
      OBVIOUS
    <2>3. PICK s : s = Save(i, new)
      OBVIOUS
    <2>4. old \in L!Record /\ Bare(old)
      BY <1>5, <2>1, LiveRowType, UngroupedBare DEF Update, RacesInv, IInv
    <2>5. /\ new \in L!Record /\ s \in Statements /\ s.op = "save" /\ s.row = new
          /\ Shaped(new)
      <3>1. new \in L!Record
        BY <2>2, <2>4, MergedType
      <3>2. new.group = None
        BY <2>2, <2>4 DEF L!Merged, Bare, L!Record
      <3> QED
        BY <1>3, <2>3, <3>1, <3>2 DEF Save, Shaped
    <2>6. Begin(w, PlainPlanOf(s, old, new), {i}) /\ LiveRows[i] # None /\ ~L!Grouped(i)
      BY <1>5, <2>1, <2>2, <2>3 DEF Update, PlainPlanOf
    <2>7. LiveRows' = LiveRows /\ seen'[w] = {i}
      BY <1>2, <2>6
    <2>8. Asked(w, PlainPlanOf(s, old, new))'
      BY <2>1, <2>2, <2>3, <2>6, <2>7 DEF Asked, AskedUpdate, L!Grouped
    <2> QED
      BY <1>1, <2>4, <2>5, <2>6, <2>8 DEF RowOps
  <1>6. ASSUME NEW i \in Ids, SoftDelete(w, i)
        PROVE  Faithful(w)' /\ ShapesKept'
    <2>1. PICK old : old = LiveRows[i]
      OBVIOUS
    <2>2. PICK s : s = Remove(i)
      OBVIOUS
    <2>3. old \in L!Record
      BY <1>6, <2>1, LiveRowType DEF SoftDelete, RacesInv, IInv
    <2>4. s \in Statements /\ s.op = "remove"
      BY <2>2 DEF Remove, Statements
    <2>5. Begin(w, PlainPlanOf(s, old, L!NoLeg), {i}) /\ LiveRows[i] # None /\ ~L!Grouped(i)
      BY <1>6, <2>1, <2>2 DEF SoftDelete, PlainPlanOf
    <2>6. LiveRows' = LiveRows /\ seen'[w] = {i}
      BY <1>2, <2>5
    <2>7. Asked(w, PlainPlanOf(s, old, L!NoLeg))'
      BY <2>1, <2>2, <2>5, <2>6 DEF Asked, AskedDelete, L!Grouped
    <2> QED
      BY <1>1, <1>3, <2>3, <2>4, <2>5, <2>7 DEF RowOps
  <1> QED
    BY <1>4, <1>5, <1>6 DEF Movement

LEMMA PatchFaithful ==
  ASSUME RacesInv, ShapesKept, NEW w \in Workers, PatchEntity(w)
  PROVE  Faithful(w)' /\ ShapesKept'
  <1>1. ASSUME NEW e \in Patched, NEW v \in Int, NEW b \in BOOLEAN,
               Begin(w, <<Patch(e, v, b)>>, {e}), v \in SetValues \/ v = bal[e]
        PROVE  Faithful(w)' /\ ShapesKept'
    <2>1. PICK F : F = <<Patch(e, v, b)>>
      OBVIOUS
    <2>2. plan'[w] = F /\ bal' = bal /\ seen'[w] = {e}
      BY <1>1, <2>1 DEF Begin, RacesInv, IInv, TypeOK
    <2>3. Faithful(w)'
      BY <1>1, <2>1, <2>2 DEF Faithful, Patching
    <2>4. \A k \in 1 .. Len(F) : F[k].op # "save"
      BY <2>1 DEF Patch
    <2>5. ShapesKept'
      BY <1>1, <2>1, <2>4, BeginShaped
    <2> QED
      BY <2>3, <2>5
  <1>2. \A e \in Patched : e \in Entities /\ bal[e] \in Int
    BY LedgerTxAssumption DEF RacesInv, IInv, TypeOK
  <1>3. SetValues \subseteq Int
    BY LedgerTxAssumption
  <1> QED
    BY <1>1, <1>2, <1>3 DEF PatchEntity, PatchBalance, PatchOther

\* What a leg is worth: its amount, to the one balance it moves.
LEMMA LegWorth ==
  ASSUME NEW r \in L!Record, Shaped(r), r.group # None
  PROVE  /\ HitOf(r) \in Entities
         /\ r.origin # None => Worth(r, HitOf(r)) = -r.amount
         /\ r.origin = None /\ r.dest # None => Worth(r, HitOf(r)) = r.amount
         /\ r.origin = None /\ r.dest = None => Worth(r, HitOf(r)) = -r.amount
         /\ \A e : e # HitOf(r) => Worth(r, e) = 0
         /\ \A e : L!LegSign(r, e) # 0 <=> e = HitOf(r)
  <1>1. /\ r.origin \in Accounts \cup {None} /\ r.dest \in Accounts \cup {None}
        /\ r.amount \in Nat /\ r # None
        /\ None \notin Accounts /\ None \notin Liabilities
        /\ Accounts \cap Liabilities = {}
    BY LedgerTxAssumption, VersionAssumption DEF L!Record, Entities
  <1>2. \A e : Worth(r, e) = L!LegSign(r, e) * r.amount
    BY <1>1 DEF Worth, L!Effect
  <1>3. CASE r.origin # None /\ r.dest = None /\ r.patrimony = None
    <2>1. HitOf(r) = r.origin /\ r.origin \in Accounts
      BY <1>1, <1>3 DEF HitOf
    <2>2. L!LegSign(r, r.origin) = -1 /\ \A e : e # r.origin => L!LegSign(r, e) = 0
      BY <1>1, <1>3, <2>1 DEF L!LegSign
    <2> QED
      BY <1>1, <1>2, <1>3, <2>1, <2>2 DEF Entities
  <1>4. CASE r.origin = None /\ r.dest # None /\ r.patrimony = None
    <2>1. HitOf(r) = r.dest /\ r.dest \in Accounts
      BY <1>1, <1>4 DEF HitOf
    <2>2. L!LegSign(r, r.dest) = 1 /\ \A e : e # r.dest => L!LegSign(r, e) = 0
      BY <1>1, <1>4, <2>1 DEF L!LegSign
    <2> QED
      BY <1>1, <1>2, <1>4, <2>1, <2>2 DEF Entities
  <1>5. CASE r.origin = None /\ r.dest = None /\ r.patrimony \in Liabilities
    <2>1. HitOf(r) = r.patrimony
      BY <1>1, <1>5 DEF HitOf
    <2>2. L!LegSign(r, r.patrimony) = -1 /\ \A e : e # r.patrimony => L!LegSign(r, e) = 0
      BY <1>1, <1>5 DEF L!LegSign
    <2> QED
      BY <1>1, <1>2, <1>5, <2>1, <2>2 DEF Entities
  <1> QED
    BY <1>3, <1>4, <1>5 DEF Shaped

\* A leg is applied, or reverted, by one adjustment.
LEMMA LegMoveAlone ==
  ASSUME NEW r \in L!Record, Shaped(r), r.group # None, r.amount # 0,
         NEW sign \in {1, -1}
  PROVE  LegMoves(r, sign) = <<LegMove(r, sign)>> /\ LegMove(r, sign) \in Statements
  <1>1. r.amount \in Nat
    BY DEF L!Record
  <1>2. /\ -r.amount * sign \in Int /\ -r.amount * sign # 0
        /\ r.amount * sign \in Int /\ r.amount * sign # 0
        /\ sign * (-r.amount) = -r.amount * sign /\ sign * r.amount = r.amount * sign
    <2>1. CASE sign = 1
      BY <1>1, <2>1
    <2>2. CASE sign = -1
      BY <1>1, <2>2
    <2> QED
      BY <2>1, <2>2
  <1>3. None \notin Liabilities
    BY LedgerTxAssumption DEF Entities
  <1>4. CASE r.origin # None /\ r.dest = None /\ r.patrimony = None
    <2>1. HitOf(r) = r.origin /\ LegMove(r, sign) = Adjust(r.origin, -r.amount * sign)
      BY <1>2, <1>4, LegWorth DEF HitOf, LegMove
    <2>2. Nudge(r.origin, -r.amount * sign) = <<LegMove(r, sign)>>
      BY <1>2, <1>4, <2>1 DEF Nudge
    <2>3. Nudge(r.dest, r.amount * sign) = <<>> /\ Nudge(r.patrimony, -r.amount * sign) = <<>>
      BY <1>4 DEF Nudge
    <2>4. LegMoves(r, sign) = <<LegMove(r, sign)>> \o <<>> \o <<>>
      BY <2>2, <2>3 DEF LegMoves
    <2>5. HitOf(r) \in Entities
      BY LegWorth
    <2>6. LegMove(r, sign) \in Statements
      BY <1>2, <2>1, <2>5 DEF Adjust, Statements
    <2> QED
      BY <2>4, <2>6
  <1>5. CASE r.origin = None /\ r.dest # None /\ r.patrimony = None
    <2>1. HitOf(r) = r.dest /\ LegMove(r, sign) = Adjust(r.dest, r.amount * sign)
      BY <1>2, <1>5, LegWorth DEF HitOf, LegMove
    <2>2. Nudge(r.dest, r.amount * sign) = <<LegMove(r, sign)>>
      BY <1>2, <1>5, <2>1 DEF Nudge
    <2>3. Nudge(r.origin, -r.amount * sign) = <<>> /\ Nudge(r.patrimony, -r.amount * sign) = <<>>
      BY <1>5 DEF Nudge
    <2>4. LegMoves(r, sign) = <<>> \o <<LegMove(r, sign)>> \o <<>>
      BY <2>2, <2>3 DEF LegMoves
    <2>5. HitOf(r) \in Entities
      BY LegWorth
    <2>6. LegMove(r, sign) \in Statements
      BY <1>2, <2>1, <2>5 DEF Adjust, Statements
    <2> QED
      BY <2>4, <2>6
  <1>6. CASE r.origin = None /\ r.dest = None /\ r.patrimony \in Liabilities
    <2>1. HitOf(r) = r.patrimony /\ LegMove(r, sign) = Adjust(r.patrimony, -r.amount * sign)
      BY <1>2, <1>6, LegWorth DEF HitOf, LegMove
    <2>2. Nudge(r.patrimony, -r.amount * sign) = <<LegMove(r, sign)>>
      BY <1>2, <1>3, <1>6, <2>1 DEF Nudge
    <2>3. Nudge(r.origin, -r.amount * sign) = <<>> /\ Nudge(r.dest, r.amount * sign) = <<>>
      BY <1>6 DEF Nudge
    <2>4. LegMoves(r, sign) = <<>> \o <<>> \o <<LegMove(r, sign)>>
      BY <2>2, <2>3 DEF LegMoves
    <2>5. HitOf(r) \in Entities
      BY LegWorth
    <2>6. LegMove(r, sign) \in Statements
      BY <1>2, <2>1, <2>5 DEF Adjust, Statements
    <2> QED
      BY <2>4, <2>6
  <1> QED
    BY <1>4, <1>5, <1>6 DEF Shaped

\* The plans of the three requests for transfers, statement by statement.
LEMMA CreatingStatements ==
  ASSUME NEW a \in Statements, NEW b \in Statements, NEW c \in Statements,
         NEW d \in Statements, NEW e \in Statements
  PROVE  FiveAre(<<a, b>> \o <<c>> \o <<d>> \o <<e>>, a, b, c, d, e)
  BY DEF FiveAre

LEMMA DroppingStatements ==
  ASSUME NEW a \in Statements, NEW b \in Statements, NEW c \in Statements,
         NEW d \in Statements, NEW e \in Statements
  PROVE  FiveAre((<<a>> \o <<b>>) \o (<<c>> \o <<d>>) \o <<e>>, a, b, c, d, e)
  BY DEF FiveAre

LEMMA AmendingStatements ==
  ASSUME NEW a \in Statements, NEW b \in Statements, NEW c \in Statements,
         NEW d \in Statements, NEW e \in Statements, NEW g \in Statements,
         NEW h \in Statements
  PROVE  SevenAre((<<a>> \o <<b>>) \o ((<<c>> \o <<d>>) \o (<<e>> \o <<g>>)) \o <<h>>,
                  a, b, c, d, e, g, h)
  BY DEF SevenAre

LEMMA StatementOps ==
  /\ Finish \in Statements /\ Finish.op = "commit"
  /\ \A i \in Ids : Remove(i) \in Statements /\ Remove(i).op = "remove" /\ Remove(i).id = i
  /\ \A i \in Ids, r \in L!Record :
       /\ Save(i, r) \in Statements /\ Save(i, r).op = "save"
       /\ Save(i, r).id = i /\ Save(i, r).row = r
  /\ \A r, sign : LegMove(r, sign).op = "adjust"
  BY DEF Save, Remove, Finish, LegMove, Adjust, Statements

LEMMA CreateTransferFaithful ==
  ASSUME RacesInv, NothingLeft, ShapesKept, NEW w \in Workers,
         NEW i \in Ids, NEW j \in Ids, NEW src \in Accounts, NEW dst \in Entities,
         NEW amt \in TransferAmounts, CreateTransfer(w, i, j, src, dst, amt)
  PROVE  Faithful(w)' /\ ShapesKept'
  <1>1. PICK o : o = OriginLeg(i, src, amt)
    OBVIOUS
  <1>2. PICK d : d = OtherLeg(i, dst, amt)
    OBVIOUS
  <1>3. /\ o \in L!Record /\ d \in L!Record /\ Shaped(o) /\ Shaped(d)
        /\ Save(i, o) \in Statements /\ Save(j, d) \in Statements
    BY <1>1, <1>2, NewRows, LegsShaped
  <1>4. o.group # None /\ d.group # None /\ o.amount # 0 /\ d.amount # 0
    BY <1>1, <1>2, LedgerTxAssumption DEF OriginLeg, OtherLeg, L!Leg, Amounts
  <1>5. /\ LegMoves(o, 1) = <<LegMove(o, 1)>> /\ LegMove(o, 1) \in Statements
        /\ LegMoves(d, 1) = <<LegMove(d, 1)>> /\ LegMove(d, 1) \in Statements
    BY <1>3, <1>4, LegMoveAlone
  <1>6. PICK F : F = <<Save(i, o), Save(j, d)>> \o <<LegMove(o, 1)>> \o <<LegMove(d, 1)>>
                       \o <<Finish>>
    OBVIOUS
  <1>7. /\ Begin(w, <<Save(i, o), Save(j, d)>> \o LegMoves(o, 1) \o LegMoves(d, 1) \o <<Finish>>, {})
        /\ i # j /\ rec[i] = None /\ rec[j] = None
    BY <1>1, <1>2 DEF CreateTransfer, OriginLeg, OtherLeg, Fresh
  <1>8. Begin(w, F, {})
    BY <1>5, <1>6, <1>7, Zenon
  <1>9. FiveAre(F, Save(i, o), Save(j, d), LegMove(o, 1), LegMove(d, 1), Finish)
    <2>1. Finish \in Statements
      BY StatementOps
    <2> QED
      BY <1>3, <1>5, <1>6, <2>1, CreatingStatements, Zenon
  <1>10. /\ F \in Seq(Statements) /\ Len(F) = 5
         /\ F[1] = Save(i, o) /\ F[2] = Save(j, d) /\ F[3] = LegMove(o, 1)
         /\ F[4] = LegMove(d, 1) /\ F[5] = Finish
    BY <1>9 DEF FiveAre
  <1>11. /\ Save(i, o).op = "save" /\ Save(i, o).id = i /\ Save(i, o).row = o
         /\ Save(j, d).op = "save" /\ Save(j, d).id = j /\ Save(j, d).row = d
         /\ LegMove(o, 1).op = "adjust" /\ LegMove(d, 1).op = "adjust" /\ Finish.op = "commit"
    BY <1>3, StatementOps
  <1>12. \A k \in 1 .. Len(F) : k \in {1, 2, 3, 4, 5}
    BY <1>10
  <1>13. RowsOnce(F)
    BY <1>7, <1>10, <1>11, <1>12 DEF RowsOnce, RowOps
  <1>14. \A k \in 1 .. Len(F) : F[k].op = "save" => Shaped(F[k].row)
    BY <1>3, <1>10, <1>11, <1>12
  <1>15. Asked(w, F)'
    <2>1. rec' = rec /\ Statements' = Statements
      BY <1>8 DEF Begin, Statements
    <2>2. FiveAre(F, Save(i, o), Save(j, d), LegMove(o, 1), LegMove(d, 1), Finish)'
      BY <1>9, <2>1 DEF FiveAre
    <2> QED
      BY <1>1, <1>2, <1>7, <2>1, <2>2 DEF Asked, AskedTransfer
  <1> QED
    BY <1>8, <1>10, <1>13, <1>14, <1>15, BeginFaithful

\* The rows of a transfer that is loaded to be edited or deleted.
LEMMA LoadedPair ==
  ASSUME RacesInv, ShapesKept, NEW i \in Ids, NEW f \in L!Legs(i), NEW s \in L!Legs(i),
         L!Grouped(i), L!InOrder(i, f, s)
  PROVE  /\ Pair(f, s) /\ f \in Ids /\ s \in Ids /\ f # s
         /\ \A r \in {LiveRows[f], LiveRows[s]} :
              r \in L!Record /\ Shaped(r) /\ r.group # None /\ r.amount # 0 /\ r # None
  <1>1. /\ Pair(f, s) /\ f \in Ids /\ s \in Ids /\ f # s
        /\ LiveRows[f] = rec[f].row /\ LiveRows[s] = rec[s].row
        /\ rec[f].row \in L!Record /\ rec[s].row \in L!Record
        /\ rec[f] # None /\ rec[s] # None
    BY TransferInOrder
  <1>2. Shaped(rec[f].row) /\ Shaped(rec[s].row)
    BY <1>1 DEF ShapesKept
  <1>3. /\ rec[f].row.group = f /\ rec[s].row.group = f
        /\ rec[f].row.amount # 0 /\ rec[s].row.amount # 0
    BY <1>1 DEF Pair, Twins
  <1>4. f # None /\ None \notin L!Record
    BY <1>1, LedgerTxAssumption, VersionAssumption
  <1> QED
    BY <1>1, <1>2, <1>3, <1>4

LEMMA UpdateTransferFaithful ==
  ASSUME RacesInv, NothingLeft, ShapesKept, NEW w \in Workers, NEW i \in Ids,
         NEW f \in L!Legs(i), NEW s \in L!Legs(i), NEW amt \in TransferAmounts,
         UpdateTransfer(w, i, f, s, amt)
  PROVE  Faithful(w)' /\ ShapesKept'
  <1>1. L!Grouped(i) /\ L!InOrder(i, f, s)
    BY DEF UpdateTransfer
  <1>2. PICK a : a = LiveRows[f]
    OBVIOUS
  <1>3. PICK b : b = LiveRows[s]
    OBVIOUS
  <1>4. PICK o : o = WithAmount(a, amt)
    OBVIOUS
  <1>5. PICK d : d = WithAmount(b, amt)
    OBVIOUS
  <1>6. /\ Pair(f, s) /\ f \in Ids /\ s \in Ids /\ f # s
        /\ a \in L!Record /\ Shaped(a) /\ a.group # None /\ a.amount # 0 /\ a # None
        /\ b \in L!Record /\ Shaped(b) /\ b.group # None /\ b.amount # 0 /\ b # None
    BY <1>1, <1>2, <1>3, LoadedPair
  <1>7. amt \in Nat /\ amt # 0
    BY LedgerTxAssumption DEF Amounts
  <1>8. /\ o \in L!Record /\ Shaped(o) /\ o.group # None /\ o.amount # 0
        /\ d \in L!Record /\ Shaped(d) /\ d.group # None /\ d.amount # 0
    BY <1>4, <1>5, <1>6, <1>7 DEF WithAmount, L!Record, Shaped
  <1>9. /\ LegMoves(a, -1) = <<LegMove(a, -1)>> /\ LegMove(a, -1) \in Statements
        /\ LegMoves(b, -1) = <<LegMove(b, -1)>> /\ LegMove(b, -1) \in Statements
        /\ LegMoves(o, 1) = <<LegMove(o, 1)>> /\ LegMove(o, 1) \in Statements
        /\ LegMoves(d, 1) = <<LegMove(d, 1)>> /\ LegMove(d, 1) \in Statements
    BY <1>6, <1>8, LegMoveAlone
  <1>10. /\ Save(f, o) \in Statements /\ Save(f, o).op = "save" /\ Save(f, o).id = f
         /\ Save(f, o).row = o
         /\ Save(s, d) \in Statements /\ Save(s, d).op = "save" /\ Save(s, d).id = s
         /\ Save(s, d).row = d
         /\ Finish \in Statements /\ Finish.op = "commit"
         /\ LegMove(a, -1).op = "adjust" /\ LegMove(b, -1).op = "adjust"
         /\ LegMove(o, 1).op = "adjust" /\ LegMove(d, 1).op = "adjust"
    BY <1>6, <1>8, StatementOps
  <1>11. PICK F : F = (<<LegMove(a, -1)>> \o <<LegMove(b, -1)>>)
                        \o ((<<Save(f, o)>> \o <<LegMove(o, 1)>>)
                              \o (<<Save(s, d)>> \o <<LegMove(d, 1)>>))
                        \o <<Finish>>
    OBVIOUS
  <1>12. Begin(w, (LegMoves(a, -1) \o LegMoves(b, -1))
                    \o ((<<Save(f, o)>> \o LegMoves(o, 1))
                          \o (<<Save(s, d)>> \o LegMoves(d, 1)))
                    \o <<Finish>>, {f, s})
    BY <1>2, <1>3, <1>4, <1>5, <1>6 DEF UpdateTransfer, ForLegs, WithAmount
  <1>13. Begin(w, F, {f, s})
    BY <1>9, <1>11, <1>12, Zenon
  <1>14. SevenAre(F, LegMove(a, -1), LegMove(b, -1), Save(f, o), LegMove(o, 1),
                  Save(s, d), LegMove(d, 1), Finish)
    BY <1>9, <1>10, <1>11, AmendingStatements, Zenon
  <1>15. /\ F \in Seq(Statements) /\ Len(F) = 7
         /\ F[1] = LegMove(a, -1) /\ F[2] = LegMove(b, -1) /\ F[3] = Save(f, o)
         /\ F[4] = LegMove(o, 1) /\ F[5] = Save(s, d) /\ F[6] = LegMove(d, 1)
         /\ F[7] = Finish
    BY <1>14 DEF SevenAre
  <1>16. \A k \in 1 .. Len(F) : k \in {1, 2, 3, 4, 5, 6, 7}
    BY <1>15
  <1>17. \A k \in 1 .. Len(F) :
           /\ F[k].op \in RowOps => k \in {3, 5}
           /\ F[k].op = "save" => Shaped(F[k].row)
    BY <1>8, <1>10, <1>15, <1>16 DEF RowOps
  <1>18. RowsOnce(F)
    BY <1>6, <1>10, <1>15, <1>17 DEF RowsOnce
  <1>19. Asked(w, F)'
    <2>1. /\ rec' = rec /\ Statements' = Statements /\ seen'[w] = {f, s} /\ LiveRows' = LiveRows
      BY <1>13 DEF Begin, Statements, RacesInv, IInv, TypeOK, LiveRows
    <2>2. LivePair(w, f, s)'
      BY <1>2, <1>3, <1>6, <2>1 DEF LivePair, Pair, Group
    <2>3. SevenAre(F, LegMove(a, -1), LegMove(b, -1), Save(f, o), LegMove(o, 1),
                   Save(s, d), LegMove(d, 1), Finish)'
      BY <1>14, <2>1 DEF SevenAre
    <2> QED
      BY <1>2, <1>3, <1>4, <1>5, <1>6, <2>1, <2>2, <2>3 DEF Asked, AskedAmend
  <1> QED
    BY <1>13, <1>15, <1>17, <1>18, <1>19, BeginFaithful

LEMMA SoftDeleteTransferFaithful ==
  ASSUME RacesInv, NothingLeft, ShapesKept, NEW w \in Workers, NEW i \in Ids,
         NEW f \in L!Legs(i), NEW s \in L!Legs(i), SoftDeleteTransfer(w, i, f, s)
  PROVE  Faithful(w)' /\ ShapesKept'
  <1>1. L!Grouped(i) /\ L!InOrder(i, f, s)
    BY DEF SoftDeleteTransfer
  <1>2. PICK a : a = LiveRows[f]
    OBVIOUS
  <1>3. PICK b : b = LiveRows[s]
    OBVIOUS
  <1>4. /\ Pair(f, s) /\ f \in Ids /\ s \in Ids /\ f # s
        /\ a \in L!Record /\ Shaped(a) /\ a.group # None /\ a.amount # 0 /\ a # None
        /\ b \in L!Record /\ Shaped(b) /\ b.group # None /\ b.amount # 0 /\ b # None
    BY <1>1, <1>2, <1>3, LoadedPair
  <1>5. /\ LegMoves(a, -1) = <<LegMove(a, -1)>> /\ LegMove(a, -1) \in Statements
        /\ LegMoves(b, -1) = <<LegMove(b, -1)>> /\ LegMove(b, -1) \in Statements
    BY <1>4, LegMoveAlone
  <1>6. /\ Remove(f) \in Statements /\ Remove(f).op = "remove" /\ Remove(f).id = f
        /\ Remove(s) \in Statements /\ Remove(s).op = "remove" /\ Remove(s).id = s
        /\ Finish \in Statements /\ Finish.op = "commit"
        /\ LegMove(a, -1).op = "adjust" /\ LegMove(b, -1).op = "adjust"
    BY <1>4, StatementOps
  <1>7. PICK F : F = (<<LegMove(a, -1)>> \o <<Remove(f)>>)
                       \o (<<LegMove(b, -1)>> \o <<Remove(s)>>) \o <<Finish>>
    OBVIOUS
  <1>8. Begin(w, (LegMoves(a, -1) \o <<Remove(f)>>) \o (LegMoves(b, -1) \o <<Remove(s)>>)
                   \o <<Finish>>, {f, s})
    BY <1>2, <1>3, <1>4 DEF SoftDeleteTransfer, ForLegs
  <1>9. Begin(w, F, {f, s})
    BY <1>5, <1>7, <1>8, Zenon
  <1>10. FiveAre(F, LegMove(a, -1), Remove(f), LegMove(b, -1), Remove(s), Finish)
    BY <1>5, <1>6, <1>7, DroppingStatements, Zenon
  <1>11. /\ F \in Seq(Statements) /\ Len(F) = 5
         /\ F[1] = LegMove(a, -1) /\ F[2] = Remove(f) /\ F[3] = LegMove(b, -1)
         /\ F[4] = Remove(s) /\ F[5] = Finish
    BY <1>10 DEF FiveAre
  <1>12. \A k \in 1 .. Len(F) : k \in {1, 2, 3, 4, 5}
    BY <1>11
  <1>13. \A k \in 1 .. Len(F) : F[k].op # "save" /\ (F[k].op \in RowOps => k \in {2, 4})
    BY <1>6, <1>11, <1>12 DEF RowOps
  <1>14. RowsOnce(F)
    BY <1>4, <1>6, <1>11, <1>13 DEF RowsOnce
  <1>15. Asked(w, F)'
    <2>1. /\ rec' = rec /\ Statements' = Statements /\ seen'[w] = {f, s} /\ LiveRows' = LiveRows
      BY <1>9 DEF Begin, Statements, RacesInv, IInv, TypeOK, LiveRows
    <2>2. LivePair(w, f, s)'
      BY <1>2, <1>3, <1>4, <2>1 DEF LivePair, Pair, Group
    <2>3. FiveAre(F, LegMove(a, -1), Remove(f), LegMove(b, -1), Remove(s), Finish)'
      BY <1>10, <2>1 DEF FiveAre
    <2> QED
      BY <1>2, <1>3, <1>4, <2>1, <2>2, <2>3 DEF Asked, AskedDrop
  <1> QED
    BY <1>9, <1>11, <1>13, <1>14, <1>15, BeginFaithful

LEMMA TransferFaithful ==
  ASSUME RacesInv, NothingLeft, ShapesKept, NEW w \in Workers, Transfer(w)
  PROVE  Faithful(w)' /\ ShapesKept'
  BY CreateTransferFaithful, UpdateTransferFaithful, SoftDeleteTransferFaithful DEF Transfer

-----------------------------------------------------------------------------
(***************************************************************************)
(* The invariant of requests that are not stale.                           *)
(***************************************************************************)
LEMMA FreshInvInit == Init => FreshInv
  <1> SUFFICES ASSUME Init PROVE FreshInv
    OBVIOUS
  <1>1. RacesInv
    BY RacesInvInit
  <1>2. /\ \A i \in Ids : rec[i] = None
        /\ \A w \in Workers : plan[w] = <<>> /\ rows[w] = Nowhere /\ bals[w] = Nowhere
    BY DEF Init
  <1>3. DOMAIN Nowhere = {} /\ 1 .. Len(<<>>) = {}
    BY DEF Nowhere
  <1>4. ShapesKept
    BY <1>2, <1>3 DEF ShapesKept
  <1>5. NothingLeft /\ \A w \in Workers : Faithful(w)
    BY <1>2 DEF NothingLeft, Faithful, Idle
  <1> QED
    BY <1>1, <1>4, <1>5 DEF FreshInv

LEMMA LeavesNothing ==
  ASSUME RacesInv, NothingLeft, NEW w \in Workers,
         Request(w) \/ Statement(w) \/ Crash(w) \/ Victim(w)
  PROVE  NothingLeft'
  <1>1. plan \in [Workers -> Seq(Statements)] /\ DOMAIN bals = Workers
    BY DEF RacesInv, IInv, TypeOK
  <1>2. ASSUME NEW ss, NEW loaded, Begin(w, ss, loaded)
        PROVE  NothingLeft'
    BY <1>1, <1>2 DEF Begin, NothingLeft, Idle
  <1>3. ASSUME EndOf(w)
        PROVE  NothingLeft'
    BY <1>1, <1>3 DEF EndOf, NothingLeft, Idle
  <1>4. ASSUME ~Idle(w), Now(w).op \notin Endings, Advance(w),
               \A v \in Workers \ {w} : bals'[v] = bals[v]
        PROVE  NothingLeft'
    <2>1. Tail(plan[w]) # <<>>
      BY <1>1, <1>4, EndsLastTail DEF RacesInv, Idle, Now
    <2>2. plan'[w] # <<>> /\ \A v \in Workers \ {w} : plan'[v] = plan[v]
      BY <1>1, <1>4, <2>1 DEF Advance
    <2> QED
      BY <1>4, <2>2 DEF NothingLeft, Idle
  <1>5. CASE Request(w)
    <2>1. \E ss, loaded : Begin(w, ss, loaded)
      BY <1>5, RequestBegins
    <2> QED
      BY <1>2, <2>1
  <1>6. CASE SelectRow(w) \/ ReadBalance(w)
    BY <1>6 DEF SelectRow, ReadBalance, NothingLeft, Idle
  <1>7. CASE UpdateRow(w) \/ InsertRow(w) \/ SoftRemoveRow(w) \/ WriteBalance(w)
    BY <1>1, <1>4, <1>7 DEF UpdateRow, InsertRow, SoftRemoveRow, WriteBalance, Doing, Endings
  <1>8. CASE Refuse(w) \/ Commit(w) \/ SavePatch(w) \/ Crash(w) \/ Victim(w)
    BY <1>3, <1>8 DEF Refuse, Commit, SavePatch, Crash, Victim
  <1> QED
    BY <1>5, <1>6, <1>7, <1>8 DEF Statement

\* A request that takes a step of its own.
LEMMA OwnStepFaithful ==
  ASSUME RacesInv, NEW w \in Workers, Faithful(w),
         Statement(w) \/ Crash(w) \/ Victim(w)
  PROVE  Faithful(w)'
  <1>1. CASE Refuse(w) \/ Commit(w) \/ SavePatch(w) \/ Crash(w) \/ Victim(w)
    <2>1. EndOf(w)
      BY <1>1 DEF Refuse, Commit, SavePatch, Crash, Victim
    <2>2. plan'[w] = <<>>
      BY <2>1 DEF EndOf, RacesInv, IInv, TypeOK
    <2> QED
      BY <2>2 DEF Faithful, Idle
  <1>2. CASE SelectRow(w) \/ UpdateRow(w) \/ InsertRow(w) \/ SoftRemoveRow(w)
               \/ ReadBalance(w) \/ WriteBalance(w)
    <2>1. /\ ~Idle(w) /\ Now(w).op # "patch" /\ rec' = rec
          /\ seen[w] \subseteq seen'[w]
      BY <1>2 DEF SelectRow, UpdateRow, InsertRow, SoftRemoveRow, ReadBalance, WriteBalance,
                  Doing, RacesInv, IInv, TypeOK
    <2>2. ~Patching(w)
      <3>1. ASSUME NEW e, NEW x, NEW b, plan[w] = <<Patch(e, x, b)>>
            PROVE  Now(w).op = "patch"
        <4>1. PICK p : p = Patch(e, x, b)
          OBVIOUS
        <4>2. Head(<<p>>) = p /\ p.op = "patch"
          BY <4>1 DEF Patch
        <4> QED
          BY <3>1, <4>1, <4>2, Zenon DEF Now
      <3> QED
        BY <2>1, <3>1 DEF Patching
    <2>3. PICK F, n, acc : Serving(w, F, n, acc) /\ Asked(w, F)
      BY <2>1, <2>2 DEF Faithful
    <2>4. \E m, next : Serving(w, F, m, next)'
      BY <1>2, <2>3, ServingSteps
    <2>5. /\ LiveRows' = LiveRows /\ Statements' = Statements
          /\ \A i \in Ids : L!Grouped(i)' <=> L!Grouped(i)
          /\ \A g, s : Pair(g, s)' <=> Pair(g, s)
      BY <2>1 DEF LiveRows, Statements, L!Grouped, Pair, Group
    <2>6. Asked(w, F)'
      BY <2>1, <2>3, <2>5
      DEF Asked, AskedCreate, AskedUpdate, AskedDelete, AskedTransfer, AskedAmend, AskedDrop,
          LivePair, FiveAre, SevenAre
    <2> QED
      BY <2>4, <2>6 DEF Faithful
  <1> QED
    BY <1>1, <1>2 DEF Statement

\* Only another request's commit makes a request stale.
LEMMA StaleByOthers ==
  ASSUME NEW w \in Workers, Statement(w) \/ Crash(w) \/ Victim(w)
  PROVE  w \in stale => w \in stale' \/ EndOf(w)
  BY DEF Statement, Crash, Victim, SelectRow, UpdateRow, InsertRow, SoftRemoveRow, ReadBalance,
         WriteBalance, Refuse, Commit, SavePatch

LEMMA FreshInvNext == FreshInv /\ [Next]_vars => FreshInv'
  <1> SUFFICES ASSUME FreshInv, [Next]_vars PROVE FreshInv'
    OBVIOUS
  <1>1. RacesInv /\ RacesInv' /\ IInv' /\ NothingLeft /\ ShapesKept
    BY RacesInvNext DEF FreshInv, RacesInv
  <1>2. CASE UNCHANGED vars
    <2>1. /\ rec' = rec /\ bal' = bal /\ plan' = plan /\ saw' = saw /\ rows' = rows
          /\ bals' = bals /\ seen' = seen /\ stale' = stale
      BY <1>2 DEF vars
    <2>2. NothingLeft' /\ ShapesKept'
      BY <1>1, <2>1 DEF NothingLeft, ShapesKept, Idle
    <2>3. ASSUME NEW w \in Workers
          PROVE  Undisturbed(w)
      BY <2>1 DEF Undisturbed, Pair, Group
    <2>4. \A w \in Workers \ stale' : Faithful(w)'
      BY <1>1, <2>1, <2>3, FaithfulRests DEF FreshInv
    <2> QED
      BY <1>1, <2>2, <2>4 DEF FreshInv
  <1>3. CASE Next
    <2>1. PICK v \in Workers : Request(v) \/ Statement(v) \/ Crash(v) \/ Victim(v)
      BY <1>3 DEF Next
    <2>2. NothingLeft'
      BY <1>1, <2>1, LeavesNothing
    <2>3. ASSUME NEW w \in Workers, w # v, w \notin stale'
          PROVE  Faithful(w)'
      <3>1. w \notin stale /\ Undisturbed(w)
        BY <1>1, <2>1, <2>3, OthersDisturb
      <3> QED
        BY <1>1, <3>1, FaithfulRests DEF FreshInv
    <2>4. CASE Request(v)
      <3>1. Faithful(v)' /\ ShapesKept'
        BY <1>1, <2>4, MovementFaithful, TransferFaithful, PatchFaithful DEF Request
      <3> QED
        BY <1>1, <2>2, <2>3, <3>1 DEF FreshInv
    <2>5. CASE Statement(v) \/ Crash(v) \/ Victim(v)
      <3>1. ShapesKept'
        BY <1>1, <2>5, StatementsKeepShapes
      <3>2. v \notin stale' => Faithful(v)'
        <4>1. CASE EndOf(v)
          <5>1. plan'[v] = <<>>
            BY <1>1, <4>1 DEF EndOf, RacesInv, IInv, TypeOK
          <5> QED
            BY <5>1 DEF Faithful, Idle
        <4>2. CASE v \notin stale
          BY <1>1, <2>5, <4>2, OwnStepFaithful DEF FreshInv
        <4> QED
          BY <2>5, <4>1, <4>2, StaleByOthers
      <3> QED
        BY <1>1, <2>2, <2>3, <3>1, <3>2 DEF FreshInv
    <2> QED
      BY <2>1, <2>4, <2>5
  <1> QED
    BY <1>2, <1>3

-----------------------------------------------------------------------------
(***************************************************************************)
(* What a request that is not stale commits.                               *)
(***************************************************************************)
Committed(F, n, acc) ==
  /\ F \in Seq(Statements) /\ n \in Nat /\ Len(F) = n + 1
  /\ Tallied(F, n, acc, bal)
  /\ bal' = [e \in Entities |-> bal[e] + acc[n][e]]
  /\ \A k \in 1 .. n : F[k].op = "save" => LiveRows'[F[k].id] = F[k].row
  /\ \A k \in 1 .. n : F[k].op = "remove" => LiveRows'[F[k].id] = None
  /\ \A i \in Ids : (\A k \in 1 .. n : F[k].op \in RowOps => F[k].id # i)
                      => LiveRows'[i] = LiveRows[i]

LEMMA FreshCommit ==
  ASSUME RacesInv, NEW w \in Workers, Commit(w), Faithful(w)
  PROVE  \E F, n, acc : Asked(w, F) /\ Committed(F, n, acc)
  <1>1. ~Idle(w) /\ Now(w).op = "commit"
    BY DEF Commit, Doing
  <1>2. ~Patching(w)
    <2>1. ASSUME NEW e, NEW x, NEW b, plan[w] = <<Patch(e, x, b)>>
          PROVE  Now(w).op = "patch"
      <3>1. PICK p : p = Patch(e, x, b)
        OBVIOUS
      <3>2. Head(<<p>>) = p /\ p.op = "patch"
        BY <3>1 DEF Patch
      <3> QED
        BY <2>1, <3>1, <3>2, Zenon DEF Now
    <2> QED
      BY <1>1, <2>1 DEF Patching
  <1>3. PICK F, n, acc : Serving(w, F, n, acc) /\ Asked(w, F)
    BY <1>1, <1>2 DEF Faithful
  <1>4. /\ n \in Nat /\ n < Len(F) /\ F \in Seq(Statements) /\ Len(F) \in Nat
    BY <1>1, <1>3, TrackNow DEF Serving
  <1>5. Len(plan[w]) = 1
    <2>1. plan[w] \in Seq(Statements) /\ plan[w] # <<>> /\ EndsLast(plan[w])
      BY <1>1 DEF RacesInv, IInv, TypeOK, Idle
    <2>2. Len(plan[w]) \in Nat /\ Len(plan[w]) >= 1 /\ Now(w) = plan[w][1]
      BY <2>1 DEF Now
    <2>3. plan[w][1].op \in Endings
      BY <1>1, <2>2 DEF Endings
    <2>4. 1 \in 1 .. Len(plan[w])
      BY <2>2
    <2>5. plan[w][1].op \in Endings <=> 1 = Len(plan[w])
      BY <2>1, <2>4 DEF EndsLast
    <2> QED
      BY <2>3, <2>5, Zenon
  <1>6. Len(F) = n + 1
    <2>1. OnTrack(w, F, n)
      BY <1>3 DEF Serving
    <2> QED
      <3>1. Len(plan[w]) = Len(F) - n
        BY <2>1 DEF OnTrack
      <3>2. ASSUME NEW x \in Nat, NEW y \in Nat, 1 = y - x
            PROVE  y = x + 1
        BY <3>2
      <3>3. 1 = Len(F) - n
        BY <1>5, <3>1, Zenon
      <3> QED
        BY <1>4, <3>2, <3>3
  <1>7. bal' = [e \in Entities |-> bal[e] + acc[n][e]]
    BY <1>3 DEF Commit, Serving, Carried, BalanceSeen
  <1>8. /\ DOMAIN rows[w] \subseteq Ids
        /\ \A i \in Ids : rec'[i] = IF i \in DOMAIN rows[w] THEN rows[w][i] ELSE rec[i]
        /\ \A i \in DOMAIN rows[w] : rows[w][i] \in Version
    BY DEF Commit, RacesInv, IInv, TypeOK
  <1>9. \A i \in Ids : i \in DOMAIN rows[w] =>
          LiveRows'[i] = IF rows[w][i].gone THEN None ELSE rows[w][i].row
    BY <1>8, VersionAssumption DEF LiveRows
  <1>10. \A i \in Ids : i \notin DOMAIN rows[w] => LiveRows'[i] = LiveRows[i]
    BY <1>8 DEF LiveRows
  <1>11. Written(w, F, n) /\ Tallied(F, n, acc, bal)
    BY <1>3 DEF Serving
  <1>12. \A k \in 1 .. n : F[k].op = "save" => LiveRows'[F[k].id] = F[k].row
    <2> SUFFICES ASSUME NEW k \in 1 .. n, F[k].op = "save"
                 PROVE  LiveRows'[F[k].id] = F[k].row
      OBVIOUS
    <2>1. F[k].id \in DOMAIN rows[w] /\ rows[w][F[k].id] = [row |-> F[k].row, gone |-> FALSE]
      BY <1>11 DEF Written
    <2>2. ~rows[w][F[k].id].gone /\ rows[w][F[k].id].row = F[k].row
      BY <2>1
    <2> QED
      BY <1>8, <1>9, <2>1, <2>2
  <1>13. \A k \in 1 .. n : F[k].op = "remove" => LiveRows'[F[k].id] = None
    BY <1>8, <1>9, <1>11 DEF Written
  <1>14. \A i \in Ids : (\A k \in 1 .. n : F[k].op \in RowOps => F[k].id # i)
                          => LiveRows'[i] = LiveRows[i]
    BY <1>10, <1>11 DEF Written
  <1>15. Committed(F, n, acc)
    BY <1>4, <1>6, <1>7, <1>11, <1>12, <1>13, <1>14 DEF Committed
  <1> QED
    BY <1>3, <1>15

-----------------------------------------------------------------------------
(***************************************************************************)
(* By how much the statements of a request move the balances.              *)
(***************************************************************************)
Tallies(F, k, acc, b) ==
  /\ acc[k - 1] \in [Entities -> Int] /\ acc[k] \in [Entities -> Int]
  /\ F[k].op # "adjust" => acc[k] = acc[k - 1]
  /\ F[k].op = "adjust" =>
       /\ acc[k] = [acc[k - 1] EXCEPT ![F[k].entity] = @ + F[k].delta]
       /\ Allowed(F[k].entity, b[F[k].entity] + acc[k - 1][F[k].entity], F[k].delta)

LEMMA TallyStep ==
  ASSUME NEW F \in Seq(Statements), NEW n \in Nat, NEW acc, NEW b, Tallied(F, n, acc, b),
         n < Len(F), NEW k \in 1 .. n
  PROVE  Tallies(F, k, acc, b) /\ F[k] \in Statements
  <1>1. k - 1 \in 0 .. n /\ k \in 0 .. n
    OBVIOUS
  <1>2. acc \in [0 .. n -> [Entities -> Int]]
    BY DEF Tallied
  <1>3. acc[k - 1] \in [Entities -> Int] /\ acc[k] \in [Entities -> Int]
    BY <1>1, <1>2
  <1>4. F[k] \in Statements
    OBVIOUS
  <1> QED
    BY <1>3, <1>4 DEF Tallied, After, Tallies

\* Between k and m, d is added to the balance of e, which admits it.
Nudged(acc, b, k, m, e, d) ==
  /\ \A x \in Entities : acc[m][x] = acc[k][x] + IF x = e THEN d ELSE 0
  /\ e # None /\ d # 0 => Allowed(e, b[e] + acc[k][e], d)

\* After the first k statements of F come those of M.
Follows(F, k, M) == \A j \in 1 .. Len(M) : F[k + j] = M[j]

\* One Nudge, which is no statement or one.
LEMMA TallyNudge ==
  ASSUME NEW F \in Seq(Statements), NEW n \in Nat, NEW acc, NEW b, Tallied(F, n, acc, b),
         n < Len(F), NEW k \in 0 .. n, NEW e \in Entities \cup {None}, NEW d \in Int,
         NEW M, M = Nudge(e, d), NEW m \in 0 .. n, m = k + Len(M),
         Follows(F, k, M)
  PROVE  Nudged(acc, b, k, m, e, d)
  <1>1. None \notin Entities /\ acc \in [0 .. n -> [Entities -> Int]]
    BY LedgerTxAssumption DEF Tallied
  <1>2. CASE e = None \/ d = 0
    <2>1. Len(M) = 0 /\ k + Len(M) = k
      BY <1>2 DEF Nudge
    <2>2. \A x \in Entities : acc[k][x] \in Int
      BY <1>1
    <2> QED
      BY <1>1, <1>2, <2>1, <2>2 DEF Nudged
  <1>3. CASE e # None /\ d # 0
    <2>1. M = <<Adjust(e, d)>>
      BY <1>3 DEF Nudge
    <2>2. PICK a : a = Adjust(e, d)
      OBVIOUS
    <2>3. Len(<<a>>) = 1 /\ <<a>>[1] = a /\ 1 \in 1 .. 1
      OBVIOUS
    <2>4. Len(M) = 1 /\ M[1] = a
      BY <2>1, <2>2, <2>3, Zenon
    <2>5. k + 1 \in 1 .. n /\ k + 1 - 1 = k /\ F[k + 1] = a /\ m = k + 1
      BY <2>3, <2>4 DEF Follows
    <2>6. a.op = "adjust" /\ a.entity = e /\ a.delta = d
      BY <2>2 DEF Adjust
    <2>7. /\ acc[k] \in [Entities -> Int] /\ acc[k + 1] = [acc[k] EXCEPT ![e] = @ + d]
          /\ Allowed(e, b[e] + acc[k][e], d)
      <3>1. PICK j : j = k + 1
        OBVIOUS
      <3>2. j \in 1 .. n /\ j - 1 = k /\ F[j] = a
        BY <2>5, <3>1
      <3>3. Tallies(F, j, acc, b)
        BY <3>2, TallyStep
      <3> QED
        BY <2>6, <3>1, <3>2, <3>3 DEF Tallies
    <2> QED
      BY <2>5, <2>7 DEF Nudged
  <1> QED
    BY <1>2, <1>3

\* A plain row is worth its contribution to the balance it is linked to.
LEMMA BareWorth ==
  ASSUME NEW r \in L!Record, Bare(r)
  PROVE  /\ r.patrimony \in Entities \cup {None} /\ Own(r) \in Int
         /\ \A x \in Entities : Worth(r, x) = IF x = r.patrimony THEN Own(r) ELSE 0
  <1>1. /\ r.patrimony \in Entities \cup {None} /\ r.amount \in Nat /\ r # None
        /\ r.objective = None /\ r.group = None
    BY VersionAssumption DEF L!Record, L!Patrimony, Entities, Bare
  <1>2. Own(r) \in Int
    BY OwnType
  <1>3. ASSUME NEW x \in Entities
        PROVE  Worth(r, x) = IF x = r.patrimony THEN Own(r) ELSE 0
    <2>1. Worth(r, x) = L!LinkSign(r, x) * r.amount
      BY <1>1 DEF Worth, L!Effect
    <2>2. x # r.patrimony => L!LinkSign(r, x) = 0
      BY <1>1 DEF L!LinkSign
    <2> QED
      BY <1>1, <2>1, <2>2 DEF Own
  <1> QED
    BY <1>1, <1>2, <1>3

LEMMA LinkTally ==
  ASSUME NEW s \in Statements, s.op \in RowOps,
         NEW old \in L!Record, NEW new \in L!Record, Bare(old), Bare(new),
         NEW F, F = PlainPlanOf(s, old, new), NEW n \in Nat, Len(F) = n + 1,
         NEW acc, NEW b \in [Entities -> Int], Tallied(F, n, acc, b)
  PROVE  \A x \in Entities :
           /\ acc[n][x] = Worth(new, x) - Worth(old, x)
           /\ acc[n][x] # 0 => Allowed(x, b[x], acc[n][x])
  <1>1. PICK M : M = LinkMoves(old, new)
    OBVIOUS
  <1>2. /\ M \in Seq(Adjustments) /\ Len(M) \in Nat /\ F \in Seq(Statements)
        /\ Len(F) = Len(M) + 2 /\ F[1] = s /\ \A k \in 1 .. Len(M) : F[k + 1] = M[k]
    BY SMTT(60), <1>1, PlainPlanFacts
  <1>3. n = Len(M) + 1 /\ 1 \in 1 .. n /\ 1 \in 0 .. n /\ 1 - 1 = 0 /\ n < Len(F)
    BY <1>2
  <1>4. /\ old.patrimony \in Entities \cup {None} /\ Own(old) \in Int
        /\ new.patrimony \in Entities \cup {None} /\ Own(new) \in Int
        /\ \A x \in Entities : Worth(old, x) = IF x = old.patrimony THEN Own(old) ELSE 0
        /\ \A x \in Entities : Worth(new, x) = IF x = new.patrimony THEN Own(new) ELSE 0
        /\ -Own(old) \in Int /\ Own(new) - Own(old) \in Int
    BY BareWorth
  <1>5. /\ \A x \in Entities : acc[1][x] = 0
    <2>1. Tallies(F, 1, acc, b)
      BY <1>2, <1>3, TallyStep
    <2>2. acc[0] = Zero /\ s.op # "adjust"
      BY DEF Tallied, RowOps
    <2> QED
      BY <1>2, <1>3, <2>1, <2>2 DEF Tallies, Zero
  <1>6. None \notin Entities
    BY LedgerTxAssumption
  <1>7. CASE old.patrimony = new.patrimony
    <2>1. PICK p : p = new.patrimony
      OBVIOUS
    <2>2. PICK d : d = Own(new) - Own(old)
      OBVIOUS
    <2>3. M = Nudge(p, d) /\ d \in Int /\ p \in Entities \cup {None}
      BY <1>1, <1>4, <1>7, <2>1, <2>2 DEF LinkMoves
    <2>4. n \in 0 .. n /\ n = 1 + Len(M) /\ Follows(F, 1, M)
      BY <1>2, <1>3 DEF Follows
    <2>5. Nudged(acc, b, 1, n, p, d)
      BY <1>2, <1>3, <2>3, <2>4, TallyNudge
    <2>6. /\ \A x \in Entities : acc[n][x] = IF x = p THEN d ELSE 0
          /\ p # None /\ d # 0 => Allowed(p, b[p], d)
      BY <1>5, <1>6, <2>3, <2>5 DEF Nudged
    <2> QED
      BY <1>4, <1>6, <1>7, <2>1, <2>2, <2>6
  <1>8. CASE old.patrimony # new.patrimony
    <2>1. PICK p : p = old.patrimony
      OBVIOUS
    <2>2. PICK q : q = new.patrimony
      OBVIOUS
    <2>3. PICK c : c = -Own(old)
      OBVIOUS
    <2>4. PICK d : d = Own(new)
      OBVIOUS
    <2>5. PICK A : A = Nudge(p, c)
      OBVIOUS
    <2>6. PICK B : B = Nudge(q, d)
      OBVIOUS
    <2>7. /\ c \in Int /\ d \in Int /\ p # q
          /\ p \in Entities \cup {None} /\ q \in Entities \cup {None}
      BY <1>4, <1>8, <2>1, <2>2, <2>3, <2>4
    <2>8. M = A \o B /\ A \in Seq(Adjustments) /\ B \in Seq(Adjustments)
      BY <1>1, <1>8, <2>1, <2>2, <2>3, <2>4, <2>5, <2>6, <2>7, NudgeType DEF LinkMoves
    <2>9. /\ Len(A) \in Nat /\ Len(B) \in Nat /\ Len(M) = Len(A) + Len(B)
          /\ \A k \in 1 .. Len(A) : M[k] = A[k]
          /\ \A k \in 1 .. Len(B) : M[Len(A) + k] = B[k]
      BY <2>8
    <2>10. PICK m : m = 1 + Len(A)
      OBVIOUS
    <2>11. m \in 0 .. n /\ m = 1 + Len(A) /\ Follows(F, 1, A)
      <3>1. ASSUME NEW k \in 1 .. Len(A)
            PROVE  F[1 + k] = A[k]
        <4>1. k \in 1 .. Len(M) /\ 1 + k = k + 1
          BY <2>9
        <4> QED
          BY <1>2, <2>9, <4>1
      <3>2. Follows(F, 1, A)
        BY <3>1 DEF Follows
      <3>3. m \in 0 .. n
        BY <1>3, <2>9, <2>10
      <3> QED
        BY <2>10, <3>2, <3>3
    <2>12. n \in 0 .. n /\ n = m + Len(B) /\ Follows(F, m, B)
      <3>1. ASSUME NEW k \in 1 .. Len(B)
            PROVE  F[m + k] = B[k]
        <4>1. Len(A) + k \in 1 .. Len(M) /\ m + k = (Len(A) + k) + 1
          BY <2>9, <2>10
        <4> QED
          BY <1>2, <2>9, <4>1
      <3>2. Follows(F, m, B)
        BY <3>1 DEF Follows
      <3>3. n \in 0 .. n /\ n = m + Len(B)
        BY <1>3, <2>9, <2>10
      <3> QED
        BY <3>2, <3>3
    <2>13. Nudged(acc, b, 1, m, p, c)
      BY <1>2, <1>3, <2>5, <2>7, <2>11, TallyNudge
    <2>14. Nudged(acc, b, m, n, q, d)
      <3>1. F \in Seq(Statements) /\ n < Len(F) /\ m \in 0 .. n
        BY <1>2, <1>3, <2>11
      <3> QED
        BY <2>6, <2>7, <2>12, <3>1, TallyNudge
    <2>15. /\ \A x \in Entities : acc[m][x] = IF x = p THEN c ELSE 0
           /\ p # None /\ c # 0 => Allowed(p, b[p], c)
      BY <1>5, <1>6, <2>7, <2>13 DEF Nudged
    <2>16. /\ \A x \in Entities : acc[n][x] = (IF x = p THEN c ELSE 0) + IF x = q THEN d ELSE 0
           /\ q # None /\ d # 0 => Allowed(q, b[q], d)
      BY <1>6, <2>7, <2>14, <2>15 DEF Nudged
    <2>17. ASSUME NEW x \in Entities
           PROVE  acc[n][x] = Worth(new, x) - Worth(old, x)
      BY SMTT(60), <1>4, <2>1, <2>2, <2>3, <2>4, <2>7, <2>16
    <2>18. ASSUME NEW x \in Entities, acc[n][x] # 0
           PROVE  Allowed(x, b[x], acc[n][x])
      <3>1. CASE x = p
        <4>1. acc[n][x] = c /\ c # 0 /\ p # None
          BY SMTT(60), <1>6, <2>7, <2>16, <2>18, <3>1
        <4> QED
          BY <2>15, <3>1, <4>1
      <3>2. CASE x = q
        <4>1. acc[n][x] = d /\ d # 0 /\ q # None
          BY SMTT(60), <1>6, <2>7, <2>16, <2>18, <3>2
        <4> QED
          BY <2>16, <3>2, <4>1
      <3> QED
        BY <2>16, <2>18, <3>1, <3>2
    <2> QED
      BY <2>17, <2>18
  <1> QED
    BY <1>7, <1>8

-----------------------------------------------------------------------------
(***************************************************************************)
(* The committed rows and balances after each kind of request.             *)
(***************************************************************************)
Put1(i, x) == LiveRows' = [LiveRows EXCEPT ![i] = x]
Put2(i, x, j, y) == LiveRows' = [LiveRows EXCEPT ![i] = x, ![j] = y]

\* One net adjustment of each balance.
Posted(old, new) ==
  /\ bal' = [e \in Entities |-> bal[e] + (Worth(new, e) - Worth(old, e))]
  /\ \A e \in Entities : Worth(new, e) - Worth(old, e) # 0
                           => Allowed(e, bal[e], Worth(new, e) - Worth(old, e))

\* Balances b after a leg is applied or reverted, and whether they admit it.
LegOn(b, r, sign) == [e \in Entities |-> b[e] + sign * Worth(r, e)]
LegFits(b, r, sign) == Allowed(HitOf(r), b[HitOf(r)], sign * Worth(r, HitOf(r)))

\* The balances after the first k statements.
Standing(acc, k) == [e \in Entities |-> bal[e] + acc[k][e]]

LEMMA TallyLeg ==
  ASSUME TypeOK, NEW F \in Seq(Statements), NEW n \in Nat, NEW acc, Tallied(F, n, acc, bal),
         n < Len(F), NEW k \in 1 .. n, NEW m, m = k - 1,
         NEW r \in L!Record, Shaped(r), r.group # None, NEW sign \in {1, -1},
         F[k] = LegMove(r, sign)
  PROVE  /\ Standing(acc, k) = LegOn(Standing(acc, m), r, sign)
         /\ LegFits(Standing(acc, m), r, sign)
  <1>1. Tallies(F, k, acc, bal)
    BY TallyStep
  <1>2. PICK h : h = HitOf(r)
    OBVIOUS
  <1>3. PICK v : v = sign * Worth(r, h)
    OBVIOUS
  <1>4. /\ h \in Entities
        /\ \A e \in Entities : Worth(r, e) \in Int /\ (e # h => Worth(r, e) = 0)
    BY <1>2, LegWorth, WorthType
  <1>5. F[k].op = "adjust" /\ F[k].entity = h /\ F[k].delta = v
    BY <1>2, <1>3 DEF LegMove, Adjust
  <1>6. /\ acc[m] \in [Entities -> Int] /\ acc[k] = [acc[m] EXCEPT ![h] = @ + v]
        /\ Allowed(h, bal[h] + acc[m][h], v)
    BY <1>1, <1>5 DEF Tallies
  <1>7. bal \in [Entities -> Int] /\ v \in Int
    BY <1>3, <1>4 DEF TypeOK
  <1>8. \A e \in Entities : acc[k][e] = acc[m][e] + sign * Worth(r, e)
    <2>1. acc[k][h] = acc[m][h] + v
      BY <1>4, <1>6
    <2>2. ASSUME NEW e \in Entities, e # h
          PROVE  acc[k][e] = acc[m][e] + sign * Worth(r, e)
      <3>1. acc[k][e] = acc[m][e] /\ acc[m][e] \in Int
        BY <1>6, <2>2
      <3>2. sign * Worth(r, e) = 0
        BY <1>4, <2>2
      <3> QED
        BY <3>1, <3>2
    <2> QED
      BY <1>3, <2>1, <2>2
  <1>9. ASSUME NEW e \in Entities
        PROVE  bal[e] + acc[k][e] = (bal[e] + acc[m][e]) + sign * Worth(r, e)
    <2>1. sign * Worth(r, e) \in Int
      BY <1>4
    <2> QED
      BY SMTT(60), <1>6, <1>7, <1>8, <2>1
  <1>10. Standing(acc, k) = LegOn(Standing(acc, m), r, sign)
    BY <1>9 DEF Standing, LegOn
  <1>11. LegFits(Standing(acc, m), r, sign)
    BY <1>2, <1>3, <1>4, <1>6 DEF LegFits, Standing
  <1> QED
    BY <1>10, <1>11

LEMMA TallyRow ==
  ASSUME NEW F \in Seq(Statements), NEW n \in Nat, NEW acc, Tallied(F, n, acc, bal),
         n < Len(F), NEW k \in 1 .. n, NEW m, m = k - 1, F[k].op # "adjust"
  PROVE  Standing(acc, k) = Standing(acc, m)
  <1>1. Tallies(F, k, acc, bal)
    BY TallyStep
  <1> QED
    BY <1>1 DEF Tallies, Standing

LEMMA TallyEnds ==
  ASSUME TypeOK, NEW F, NEW n, NEW acc, Committed(F, n, acc)
  PROVE  /\ Standing(acc, 0) = bal /\ bal' = Standing(acc, n)
         /\ F \in Seq(Statements) /\ n \in Nat /\ n < Len(F) /\ Len(F) = n + 1
         /\ Tallied(F, n, acc, bal)
  <1>1. /\ F \in Seq(Statements) /\ n \in Nat /\ Len(F) = n + 1 /\ Tallied(F, n, acc, bal)
        /\ bal' = Standing(acc, n)
    BY DEF Committed, Standing
  <1>2. acc[0] = Zero /\ bal \in [Entities -> Int]
    BY <1>1 DEF Tallied, TypeOK
  <1>3. Standing(acc, 0) = bal
    BY <1>2 DEF Standing, Zero
  <1> QED
    BY <1>1, <1>3

LEMMA PlainCommitted ==
  ASSUME TypeOK, NEW F, NEW n, NEW acc, Committed(F, n, acc),
         NEW s \in Statements, s.op \in RowOps,
         NEW old \in L!Record, NEW new \in L!Record, Bare(old), Bare(new),
         F = PlainPlanOf(s, old, new), s.id \in Ids
  PROVE  /\ s.op = "save" => Put1(s.id, s.row)
         /\ s.op = "remove" => Put1(s.id, None)
         /\ Posted(old, new)
  <1>1. /\ F \in Seq(Statements) /\ n \in Nat /\ Len(F) = n + 1 /\ Tallied(F, n, acc, bal)
    BY TallyEnds
  <1>2. \A e \in Entities :
          /\ acc[n][e] = Worth(new, e) - Worth(old, e)
          /\ acc[n][e] # 0 => Allowed(e, bal[e], acc[n][e])
    BY <1>1, LinkTally DEF TypeOK
  <1>3. Posted(old, new)
    BY <1>2 DEF Posted, Committed
  <1>4. PICK M : M = LinkMoves(old, new)
    OBVIOUS
  <1>5. /\ M \in Seq(Adjustments) /\ Len(M) \in Nat
        /\ Len(F) = Len(M) + 2 /\ F[1] = s /\ \A k \in 1 .. Len(M) : F[k + 1] = M[k]
    BY SMTT(60), <1>4, PlainPlanFacts
  <1>6. n = Len(M) + 1 /\ 1 \in 1 .. n
    BY <1>1, <1>5
  <1>7. ASSUME NEW k \in 1 .. n, F[k].op \in RowOps
        PROVE  F[k].id = s.id
    <2>1. CASE k = 1
      BY <1>5, <2>1
    <2>2. CASE k # 1
      <3>1. k - 1 \in 1 .. Len(M) /\ (k - 1) + 1 = k
        BY <1>5, <1>6, <2>2
      <3>2. F[k] = M[k - 1] /\ M[k - 1] \in Adjustments
        BY <1>5, <3>1
      <3> QED
        BY <1>7, <3>2 DEF Adjustments, RowOps
    <2> QED
      BY <2>1, <2>2
  <1>8. \A i \in Ids : i # s.id => LiveRows'[i] = LiveRows[i]
    BY <1>7 DEF Committed
  <1>9. /\ s.op = "save" => LiveRows'[s.id] = s.row
        /\ s.op = "remove" => LiveRows'[s.id] = None
    BY <1>5, <1>6 DEF Committed
  <1>10. DOMAIN LiveRows = Ids /\ LiveRows' = [i \in Ids |-> LiveRows'[i]]
    BY DEF LiveRows
  <1>11. ASSUME NEW x, LiveRows'[s.id] = x
         PROVE  Put1(s.id, x)
    BY <1>8, <1>10, <1>11 DEF Put1, LiveRows
  <1> QED
    BY <1>3, <1>9, <1>11

\* Two rows are written, the other statements adjust balances.
LEMMA TwoRowsCommitted ==
  ASSUME NEW F, NEW n, NEW acc, Committed(F, n, acc), NEW i \in Ids, NEW j \in Ids, i # j,
         NEW k \in 1 .. n, NEW l \in 1 .. n, F[k].id = i, F[l].id = j,
         \A m \in 1 .. n : F[m].op \in RowOps => m \in {k, l},
         NEW x, NEW y,
         \/ F[k].op = "save" /\ F[k].row = x
         \/ F[k].op = "remove" /\ x = None,
         \/ F[l].op = "save" /\ F[l].row = y
         \/ F[l].op = "remove" /\ y = None
  PROVE  Put2(i, x, j, y)
  <1>1. LiveRows'[i] = x /\ LiveRows'[j] = y
    BY DEF Committed
  <1>2. \A t \in Ids \ {i, j} : LiveRows'[t] = LiveRows[t]
    BY DEF Committed
  <1>3. DOMAIN LiveRows = Ids /\ LiveRows' = [t \in Ids |-> LiveRows'[t]]
    BY DEF LiveRows
  <1>4. PICK R : R = LiveRows
    OBVIOUS
  <1>5. PICK Q : Q = LiveRows'
    OBVIOUS
  <1>6. /\ DOMAIN R = Ids /\ Q = [t \in Ids |-> Q[t]]
        /\ Q[i] = x /\ Q[j] = y /\ \A t \in Ids \ {i, j} : Q[t] = R[t]
    BY <1>1, <1>2, <1>3, <1>4, <1>5
  <1>7. Q = [R EXCEPT ![i] = x, ![j] = y]
    BY <1>6
  <1> QED
    BY <1>4, <1>5, <1>7 DEF Put2

\* Two legs, and four, one after the other.
TwoLegs(r, q, sign) ==
  /\ LegFits(bal, r, sign) /\ LegFits(LegOn(bal, r, sign), q, sign)
  /\ bal' = LegOn(LegOn(bal, r, sign), q, sign)

FourLegs(a, b, o, d) ==
  /\ LegFits(bal, a, -1) /\ LegFits(LegOn(bal, a, -1), b, -1)
  /\ LegFits(LegOn(LegOn(bal, a, -1), b, -1), o, 1)
  /\ LegFits(LegOn(LegOn(LegOn(bal, a, -1), b, -1), o, 1), d, 1)
  /\ bal' = LegOn(LegOn(LegOn(LegOn(bal, a, -1), b, -1), o, 1), d, 1)

Created ==
  \E i \in Ids, d \in Draft :
    /\ LiveRows[i] = None
    /\ Put1(i, L!PlainRow(d)) /\ Posted(L!NoLeg, L!PlainRow(d))

Updated ==
  \E i \in Ids, d \in Draft :
    /\ LiveRows[i] # None /\ ~L!Grouped(i)
    /\ Put1(i, L!Merged(LiveRows[i], d)) /\ Posted(LiveRows[i], L!Merged(LiveRows[i], d))

Deleted ==
  \E i \in Ids :
    /\ LiveRows[i] # None /\ ~L!Grouped(i)
    /\ Put1(i, None) /\ Posted(LiveRows[i], L!NoLeg)

Transferred ==
  \E i, j \in Ids, src \in Accounts, dst \in Entities, amt \in TransferAmounts :
    /\ i # j /\ LiveRows[i] = None /\ LiveRows[j] = None
    /\ Put2(i, OriginLeg(i, src, amt), j, OtherLeg(i, dst, amt))
    /\ TwoLegs(OriginLeg(i, src, amt), OtherLeg(i, dst, amt), 1)

\* Two live legs of one transfer.
Legged(f, s) ==
  /\ Pair(f, s)
  /\ \A r \in {LiveRows[f], LiveRows[s]} : r \in L!Record /\ Shaped(r) /\ r.group = f

AmendedPair ==
  \E f, s \in Ids, amt \in TransferAmounts :
    /\ Legged(f, s)
    /\ Put2(f, WithAmount(LiveRows[f], amt), s, WithAmount(LiveRows[s], amt))
    /\ FourLegs(LiveRows[f], LiveRows[s],
                WithAmount(LiveRows[f], amt), WithAmount(LiveRows[s], amt))

Dropped ==
  \E f, s \in Ids :
    /\ Legged(f, s)
    /\ Put2(f, None, s, None)
    /\ TwoLegs(LiveRows[f], LiveRows[s], -1)

LEMMA LiveLegged ==
  ASSUME RacesInv, ShapesKept, NEW w, NEW f \in Ids, NEW s \in Ids, LivePair(w, f, s)
  PROVE  /\ Legged(f, s) /\ f # s /\ f # None
         /\ \A r \in {LiveRows[f], LiveRows[s]} : r \in L!Record /\ Shaped(r) /\ r.group = f
  <1>1. Pair(f, s) /\ LiveRows[f] # None /\ LiveRows[s] # None
    BY DEF LivePair
  <1>2. /\ f # s /\ rec[f].row.group = f /\ rec[s].row.group = f
    BY <1>1 DEF Pair, Twins
  <1>3. /\ LiveRows[f] = rec[f].row /\ LiveRows[s] = rec[s].row
        /\ rec[f] # None /\ rec[s] # None
    BY <1>1 DEF LiveRows
  <1>4. LiveRows[f] \in L!Record /\ LiveRows[s] \in L!Record
    BY <1>1, LiveRowType DEF RacesInv, IInv
  <1>5. Shaped(rec[f].row) /\ Shaped(rec[s].row)
    BY <1>3 DEF ShapesKept
  <1>6. f # None
    BY LedgerTxAssumption
  <1> QED
    BY <1>1, <1>2, <1>3, <1>4, <1>5, <1>6 DEF Legged

LEMMA PlainRequestDone ==
  ASSUME RacesInv, NEW w, NEW F, NEW n, NEW acc, Committed(F, n, acc),
         AskedCreate(w, F) \/ AskedUpdate(w, F) \/ AskedDelete(w, F)
  PROVE  Created \/ Updated \/ Deleted
  <1>1. TypeOK /\ L!NoLeg \in L!Record /\ Bare(L!NoLeg)
    BY NoLegType DEF RacesInv, IInv, Bare, L!NoLeg, L!Leg
  <1>2. \A d \in Draft : L!PlainRow(d) \in L!Record /\ Bare(L!PlainRow(d))
    BY PlainRowType DEF Bare, L!PlainRow
  <1>3. CASE AskedCreate(w, F)
    <2>1. PICK i \in Ids, d \in Draft :
            /\ rec[i] = None
            /\ F = PlainPlanOf(Save(i, L!PlainRow(d)), L!NoLeg, L!PlainRow(d))
      BY <1>3 DEF AskedCreate
    <2>2. PICK new : new = L!PlainRow(d)
      OBVIOUS
    <2>3. PICK s : s = Save(i, new)
      OBVIOUS
    <2>4. new \in L!Record /\ Bare(new)
      BY <1>2, <2>2
    <2>5. s \in Statements /\ s.op = "save" /\ s.id = i /\ s.row = new /\ s.op \in RowOps
      BY <2>3, <2>4, StatementOps DEF RowOps
    <2>6. F = PlainPlanOf(s, L!NoLeg, new)
      BY <2>1, <2>2, <2>3
    <2>7. Put1(i, new) /\ Posted(L!NoLeg, new)
      BY <1>1, <2>4, <2>5, <2>6, PlainCommitted
    <2>8. LiveRows[i] = None
      BY <2>1 DEF LiveRows
    <2> QED
      BY <2>2, <2>7, <2>8 DEF Created
  <1>4. ASSUME NEW i \in Ids, LiveRows[i] # None, ~L!Grouped(i)
        PROVE  LiveRows[i] \in L!Record /\ Bare(LiveRows[i])
    BY <1>1, <1>4, UngroupedBare, LiveRowType
  <1>5. CASE AskedUpdate(w, F)
    <2>1. PICK i \in Ids, d \in Draft :
            /\ LiveRows[i] # None /\ ~L!Grouped(i) /\ i \in seen[w]
            /\ F = PlainPlanOf(Save(i, L!Merged(LiveRows[i], d)), LiveRows[i],
                               L!Merged(LiveRows[i], d))
      BY <1>5 DEF AskedUpdate
    <2>2. PICK old : old = LiveRows[i]
      OBVIOUS
    <2>3. PICK new : new = L!Merged(old, d)
      OBVIOUS
    <2>4. PICK s : s = Save(i, new)
      OBVIOUS
    <2>5. old \in L!Record /\ Bare(old)
      BY <1>4, <2>1, <2>2
    <2>6. new \in L!Record /\ Bare(new)
      BY <2>3, <2>5, MergedType DEF L!Merged, Bare, L!Record
    <2>7. s \in Statements /\ s.op = "save" /\ s.id = i /\ s.row = new /\ s.op \in RowOps
      BY <2>4, <2>6, StatementOps DEF RowOps
    <2>8. F = PlainPlanOf(s, old, new)
      BY <2>1, <2>2, <2>3, <2>4
    <2>9. Put1(i, new) /\ Posted(old, new)
      BY <1>1, <2>5, <2>6, <2>7, <2>8, PlainCommitted
    <2> QED
      BY <2>1, <2>2, <2>3, <2>9 DEF Updated
  <1>6. CASE AskedDelete(w, F)
    <2>1. PICK i \in Ids :
            /\ LiveRows[i] # None /\ ~L!Grouped(i) /\ i \in seen[w]
            /\ F = PlainPlanOf(Remove(i), LiveRows[i], L!NoLeg)
      BY <1>6 DEF AskedDelete
    <2>2. PICK old : old = LiveRows[i]
      OBVIOUS
    <2>3. PICK s : s = Remove(i)
      OBVIOUS
    <2>4. old \in L!Record /\ Bare(old)
      BY <1>4, <2>1, <2>2
    <2>5. s \in Statements /\ s.op = "remove" /\ s.id = i /\ s.op \in RowOps
      BY <2>3, StatementOps DEF RowOps
    <2>6. F = PlainPlanOf(s, old, L!NoLeg)
      BY <2>1, <2>2, <2>3
    <2>7. Put1(i, None) /\ Posted(old, L!NoLeg)
      BY <1>1, <2>4, <2>5, <2>6, PlainCommitted
    <2> QED
      BY <2>1, <2>2, <2>7 DEF Deleted
  <1> QED
    BY <1>3, <1>5, <1>6

LEMMA TransferDone ==
  ASSUME RacesInv, NEW w, NEW F, NEW n, NEW acc, Committed(F, n, acc), AskedTransfer(w, F)
  PROVE  Transferred
  <1>1. PICK i \in Ids, j \in Ids, src \in Accounts, dst \in Entities, amt \in TransferAmounts :
          /\ i # j /\ rec[i] = None /\ rec[j] = None
          /\ FiveAre(F, Save(i, OriginLeg(i, src, amt)), Save(j, OtherLeg(i, dst, amt)),
                     LegMove(OriginLeg(i, src, amt), 1), LegMove(OtherLeg(i, dst, amt), 1),
                     Finish)
    BY DEF AskedTransfer
  <1>2. PICK o : o = OriginLeg(i, src, amt)
    OBVIOUS
  <1>3. PICK d : d = OtherLeg(i, dst, amt)
    OBVIOUS
  <1>4. /\ o \in L!Record /\ d \in L!Record /\ Shaped(o) /\ Shaped(d)
    BY <1>2, <1>3, NewRows, LegsShaped
  <1>5. o.group # None /\ d.group # None
    BY <1>2, <1>3, LedgerTxAssumption DEF OriginLeg, OtherLeg, L!Leg
  <1>6. /\ Save(i, o).op = "save" /\ Save(i, o).id = i /\ Save(i, o).row = o
        /\ Save(j, d).op = "save" /\ Save(j, d).id = j /\ Save(j, d).row = d
        /\ LegMove(o, 1).op = "adjust" /\ LegMove(d, 1).op = "adjust"
    BY <1>4, StatementOps
  <1>7. /\ Len(F) = 5 /\ F[1] = Save(i, o) /\ F[2] = Save(j, d)
        /\ F[3] = LegMove(o, 1) /\ F[4] = LegMove(d, 1)
    BY <1>1, <1>2, <1>3 DEF FiveAre
  <1>8. /\ Standing(acc, 0) = bal /\ bal' = Standing(acc, n) /\ TypeOK
        /\ F \in Seq(Statements) /\ n \in Nat /\ n < Len(F) /\ Len(F) = n + 1
        /\ Tallied(F, n, acc, bal)
    BY TallyEnds DEF RacesInv, IInv
  <1>9. /\ n = 4 /\ 1 \in 1 .. n /\ 2 \in 1 .. n /\ 3 \in 1 .. n /\ 4 \in 1 .. n
        /\ 0 = 1 - 1 /\ 1 = 2 - 1 /\ 2 = 3 - 1 /\ 3 = 4 - 1
        /\ \A m \in 1 .. n : m \in {1, 2, 3, 4}
    <2>1. n + 1 = 5 /\ n \in Nat
      BY <1>7, <1>8, Zenon
    <2>2. n = 4
      BY <2>1
    <2> QED
      BY <2>2
  <1>10. Standing(acc, 1) = Standing(acc, 0) /\ Standing(acc, 2) = Standing(acc, 1)
    <2>1. ASSUME NEW k \in 1 .. n, NEW m, m = k - 1, F[k].op # "adjust"
          PROVE  Standing(acc, k) = Standing(acc, m)
      <3>1. F \in Seq(Statements) /\ n \in Nat /\ n < Len(F) /\ Tallied(F, n, acc, bal)
        BY <1>8
      <3> QED
        BY <2>1, <3>1, TallyRow
    <2> QED
      BY <1>6, <1>7, <1>9, <2>1
  <1>11. /\ Standing(acc, 3) = LegOn(Standing(acc, 2), o, 1) /\ LegFits(Standing(acc, 2), o, 1)
         /\ Standing(acc, 4) = LegOn(Standing(acc, 3), d, 1) /\ LegFits(Standing(acc, 3), d, 1)
    <2>1. ASSUME NEW k \in 1 .. n, NEW m, m = k - 1, NEW r \in {o, d}, F[k] = LegMove(r, 1)
          PROVE  Standing(acc, k) = LegOn(Standing(acc, m), r, 1) /\ LegFits(Standing(acc, m), r, 1)
      BY <1>4, <1>5, <1>8, <2>1, TallyLeg
    <2>2. /\ 3 \in 1 .. n /\ 2 = 3 - 1 /\ o \in {o, d} /\ F[3] = LegMove(o, 1)
          /\ 4 \in 1 .. n /\ 3 = 4 - 1 /\ d \in {o, d} /\ F[4] = LegMove(d, 1)
      BY <1>7, <1>9
    <2> QED
      BY <2>1, <2>2
  <1>12. TwoLegs(o, d, 1)
    BY <1>8, <1>9, <1>10, <1>11 DEF TwoLegs
  <1>13. \A m \in 1 .. n : F[m].op \in RowOps => m \in {1, 2}
    BY <1>6, <1>7, <1>9 DEF RowOps
  <1>14. Put2(i, o, j, d)
    BY <1>1, <1>6, <1>7, <1>9, <1>13, TwoRowsCommitted
  <1>15. LiveRows[i] = None /\ LiveRows[j] = None
    BY <1>1 DEF LiveRows
  <1> QED
    BY <1>1, <1>2, <1>3, <1>12, <1>14, <1>15 DEF Transferred

LEMMA AmendDone ==
  ASSUME RacesInv, ShapesKept, NEW w, NEW F, NEW n, NEW acc, Committed(F, n, acc),
         AskedAmend(w, F)
  PROVE  AmendedPair
  <1>1. PICK f \in Ids, s \in Ids, amt \in TransferAmounts :
          /\ LivePair(w, f, s)
          /\ SevenAre(F, LegMove(LiveRows[f], -1), LegMove(LiveRows[s], -1),
               Save(f, WithAmount(LiveRows[f], amt)), LegMove(WithAmount(LiveRows[f], amt), 1),
               Save(s, WithAmount(LiveRows[s], amt)), LegMove(WithAmount(LiveRows[s], amt), 1),
               Finish)
    BY DEF AskedAmend
  <1>2. PICK a : a = LiveRows[f]
    OBVIOUS
  <1>3. PICK b : b = LiveRows[s]
    OBVIOUS
  <1>4. PICK o : o = WithAmount(a, amt)
    OBVIOUS
  <1>5. PICK d : d = WithAmount(b, amt)
    OBVIOUS
  <1>6. /\ Legged(f, s) /\ f # s /\ f # None
        /\ a \in L!Record /\ Shaped(a) /\ a.group = f
        /\ b \in L!Record /\ Shaped(b) /\ b.group = f
    BY <1>1, <1>2, <1>3, LiveLegged
  <1>7. amt \in Nat
    BY LedgerTxAssumption DEF Amounts
  <1>8. /\ o \in L!Record /\ Shaped(o) /\ o.group = f
        /\ d \in L!Record /\ Shaped(d) /\ d.group = f
    BY <1>4, <1>5, <1>6, <1>7 DEF WithAmount, L!Record, Shaped
  <1>9. /\ Save(f, o).op = "save" /\ Save(f, o).id = f /\ Save(f, o).row = o
        /\ Save(s, d).op = "save" /\ Save(s, d).id = s /\ Save(s, d).row = d
        /\ LegMove(a, -1).op = "adjust" /\ LegMove(b, -1).op = "adjust"
        /\ LegMove(o, 1).op = "adjust" /\ LegMove(d, 1).op = "adjust"
    BY <1>8, StatementOps
  <1>10. /\ Len(F) = 7 /\ F[1] = LegMove(a, -1) /\ F[2] = LegMove(b, -1) /\ F[3] = Save(f, o)
         /\ F[4] = LegMove(o, 1) /\ F[5] = Save(s, d) /\ F[6] = LegMove(d, 1)
    BY <1>1, <1>2, <1>3, <1>4, <1>5 DEF SevenAre
  <1>11. /\ Standing(acc, 0) = bal /\ bal' = Standing(acc, n) /\ TypeOK
         /\ F \in Seq(Statements) /\ n \in Nat /\ n < Len(F) /\ Len(F) = n + 1
         /\ Tallied(F, n, acc, bal)
    BY TallyEnds DEF RacesInv, IInv
  <1>12. /\ n = 6 /\ {1, 2, 3, 4, 5, 6} = 1 .. n
         /\ 0 = 1 - 1 /\ 1 = 2 - 1 /\ 2 = 3 - 1 /\ 3 = 4 - 1 /\ 4 = 5 - 1 /\ 5 = 6 - 1
    <2>1. n + 1 = 7 /\ n \in Nat
      BY <1>10, <1>11, Zenon
    <2>2. n = 6
      BY <2>1
    <2> QED
      BY <2>2
  <1>13. Standing(acc, 3) = Standing(acc, 2) /\ Standing(acc, 5) = Standing(acc, 4)
    <2>1. ASSUME NEW k \in 1 .. n, NEW m, m = k - 1, F[k].op # "adjust"
          PROVE  Standing(acc, k) = Standing(acc, m)
      <3>1. F \in Seq(Statements) /\ n \in Nat /\ n < Len(F) /\ Tallied(F, n, acc, bal)
        BY <1>11
      <3> QED
        BY <2>1, <3>1, TallyRow
    <2> QED
      BY <1>9, <1>10, <1>12, <2>1
  <1>14. /\ Standing(acc, 1) = LegOn(bal, a, -1) /\ LegFits(bal, a, -1)
         /\ Standing(acc, 2) = LegOn(Standing(acc, 1), b, -1) /\ LegFits(Standing(acc, 1), b, -1)
         /\ Standing(acc, 4) = LegOn(Standing(acc, 3), o, 1) /\ LegFits(Standing(acc, 3), o, 1)
         /\ Standing(acc, 6) = LegOn(Standing(acc, 5), d, 1) /\ LegFits(Standing(acc, 5), d, 1)
    <2>1. ASSUME NEW k \in 1 .. n, NEW m, m = k - 1, NEW r \in {a, b, o, d},
                 NEW sign \in {1, -1}, F[k] = LegMove(r, sign)
          PROVE  /\ Standing(acc, k) = LegOn(Standing(acc, m), r, sign)
                 /\ LegFits(Standing(acc, m), r, sign)
      BY <1>6, <1>8, <1>11, <2>1, TallyLeg
    <2>2. Standing(acc, 1) = LegOn(Standing(acc, 0), a, -1) /\ LegFits(Standing(acc, 0), a, -1)
      BY <1>10, <1>12, <2>1
    <2>3. Standing(acc, 2) = LegOn(Standing(acc, 1), b, -1) /\ LegFits(Standing(acc, 1), b, -1)
      BY <1>10, <1>12, <2>1
    <2>4. Standing(acc, 4) = LegOn(Standing(acc, 3), o, 1) /\ LegFits(Standing(acc, 3), o, 1)
      BY <1>10, <1>12, <2>1
    <2>5. Standing(acc, 6) = LegOn(Standing(acc, 5), d, 1) /\ LegFits(Standing(acc, 5), d, 1)
      BY <1>10, <1>12, <2>1
    <2> QED
      BY <1>11, <2>2, <2>3, <2>4, <2>5
  <1>15. FourLegs(a, b, o, d)
    BY <1>11, <1>12, <1>13, <1>14, Zenon DEF FourLegs
  <1>16. \A m \in 1 .. n : F[m].op \in RowOps => m \in {3, 5}
    BY <1>9, <1>10, <1>12 DEF RowOps
  <1>17. Put2(f, o, s, d)
    <2>1. 3 \in 1 .. n /\ 5 \in 1 .. n /\ F[3].id = f /\ F[5].id = s
      BY <1>9, <1>10, <1>12
    <2>2. F[3].op = "save" /\ F[3].row = o /\ F[5].op = "save" /\ F[5].row = d
      BY <1>9, <1>10
    <2> QED
      BY <1>6, <1>16, <2>1, <2>2, TwoRowsCommitted
  <1> QED
    BY <1>1, <1>2, <1>3, <1>4, <1>5, <1>6, <1>15, <1>17 DEF AmendedPair

LEMMA DropDone ==
  ASSUME RacesInv, ShapesKept, NEW w, NEW F, NEW n, NEW acc, Committed(F, n, acc),
         AskedDrop(w, F)
  PROVE  Dropped
  <1>1. PICK f \in Ids, s \in Ids :
          /\ LivePair(w, f, s)
          /\ FiveAre(F, LegMove(LiveRows[f], -1), Remove(f), LegMove(LiveRows[s], -1),
                     Remove(s), Finish)
    BY DEF AskedDrop
  <1>2. PICK a : a = LiveRows[f]
    OBVIOUS
  <1>3. PICK b : b = LiveRows[s]
    OBVIOUS
  <1>4. /\ Legged(f, s) /\ f # s /\ f # None
        /\ a \in L!Record /\ Shaped(a) /\ a.group = f
        /\ b \in L!Record /\ Shaped(b) /\ b.group = f
    BY <1>1, <1>2, <1>3, LiveLegged
  <1>5. /\ Remove(f).op = "remove" /\ Remove(f).id = f
        /\ Remove(s).op = "remove" /\ Remove(s).id = s
        /\ LegMove(a, -1).op = "adjust" /\ LegMove(b, -1).op = "adjust"
    BY StatementOps
  <1>6. /\ Len(F) = 5 /\ F[1] = LegMove(a, -1) /\ F[2] = Remove(f)
        /\ F[3] = LegMove(b, -1) /\ F[4] = Remove(s)
    BY <1>1, <1>2, <1>3 DEF FiveAre
  <1>7. /\ Standing(acc, 0) = bal /\ bal' = Standing(acc, n) /\ TypeOK
        /\ F \in Seq(Statements) /\ n \in Nat /\ n < Len(F) /\ Len(F) = n + 1
        /\ Tallied(F, n, acc, bal)
    BY TallyEnds DEF RacesInv, IInv
  <1>8. /\ n = 4 /\ {1, 2, 3, 4} = 1 .. n
        /\ 0 = 1 - 1 /\ 1 = 2 - 1 /\ 2 = 3 - 1 /\ 3 = 4 - 1
    <2>1. n + 1 = 5 /\ n \in Nat
      BY <1>6, <1>7, Zenon
    <2>2. n = 4
      BY <2>1
    <2> QED
      BY <2>2
  <1>9. Standing(acc, 2) = Standing(acc, 1) /\ Standing(acc, 4) = Standing(acc, 3)
    <2>1. ASSUME NEW k \in 1 .. n, NEW m, m = k - 1, F[k].op # "adjust"
          PROVE  Standing(acc, k) = Standing(acc, m)
      <3>1. F \in Seq(Statements) /\ n \in Nat /\ n < Len(F) /\ Tallied(F, n, acc, bal)
        BY <1>7
      <3> QED
        BY <2>1, <3>1, TallyRow
    <2> QED
      BY <1>5, <1>6, <1>8, <2>1
  <1>10. /\ Standing(acc, 1) = LegOn(bal, a, -1) /\ LegFits(bal, a, -1)
         /\ Standing(acc, 3) = LegOn(Standing(acc, 2), b, -1) /\ LegFits(Standing(acc, 2), b, -1)
    <2>1. ASSUME NEW k \in 1 .. n, NEW m, m = k - 1, NEW r \in {a, b},
                 NEW sign \in {1, -1}, F[k] = LegMove(r, sign)
          PROVE  /\ Standing(acc, k) = LegOn(Standing(acc, m), r, sign)
                 /\ LegFits(Standing(acc, m), r, sign)
      BY <1>4, <1>7, <2>1, TallyLeg
    <2>2. Standing(acc, 1) = LegOn(Standing(acc, 0), a, -1) /\ LegFits(Standing(acc, 0), a, -1)
      BY <1>6, <1>8, <2>1
    <2>3. Standing(acc, 3) = LegOn(Standing(acc, 2), b, -1) /\ LegFits(Standing(acc, 2), b, -1)
      BY <1>6, <1>8, <2>1
    <2> QED
      BY <1>7, <2>2, <2>3
  <1>11. TwoLegs(a, b, -1)
    BY <1>7, <1>8, <1>9, <1>10, Zenon DEF TwoLegs
  <1>12. \A m \in 1 .. n : F[m].op \in RowOps => m \in {2, 4}
    BY <1>5, <1>6, <1>8 DEF RowOps
  <1>13. Put2(f, None, s, None)
    <2>1. 2 \in 1 .. n /\ 4 \in 1 .. n /\ F[2].id = f /\ F[4].id = s
      BY <1>5, <1>6, <1>8
    <2>2. F[2].op = "remove" /\ F[4].op = "remove"
      BY <1>5, <1>6
    <2> QED
      BY <1>4, <1>12, <2>1, <2>2, TwoRowsCommitted
  <1> QED
    BY <1>1, <1>2, <1>3, <1>4, <1>11, <1>13 DEF Dropped

\* A commit of a request that is not stale is one of six.
LEMMA FreshDone ==
  ASSUME RacesInv, ShapesKept, NEW w \in Workers, Commit(w), Faithful(w)
  PROVE  Created \/ Updated \/ Deleted \/ Transferred \/ AmendedPair \/ Dropped
  <1>1. PICK F, n, acc : Asked(w, F) /\ Committed(F, n, acc)
    BY FreshCommit
  <1> QED
    BY <1>1, PlainRequestDone, TransferDone, AmendDone, DropDone DEF Asked

-----------------------------------------------------------------------------
(***************************************************************************)
(* The books of requests that are not stale.                               *)
(***************************************************************************)
LEMMA NoWorth ==
  \A e : Worth(L!NoLeg, e) = 0 /\ Worth(None, e) = 0
  <1>1. L!NoLeg # None /\ L!NoLeg.amount = 0
    BY NoLegType, VersionAssumption DEF L!NoLeg, L!Leg
  <1>2. \A e : L!Effect(L!NoLeg, e) * 0 = 0
    BY SignTypes
  <1> QED
    BY <1>1, <1>2 DEF Worth

Explains(e) == bal'[e] - bal[e] = L!Stored(e)' - L!Stored(e)

LEMMA PlainConserves ==
  ASSUME TypeOK, TypeOK', NEW i \in Ids, NEW x \in L!Record \cup {None},
         NEW old \in L!Record, NEW new \in L!Record, Put1(i, x), Posted(old, new),
         \A e : Worth(old, e) = Worth(LiveRows[i], e), \A e : Worth(new, e) = Worth(x, e)
  PROVE  \A e \in Entities : Explains(e)
  <1> SUFFICES ASSUME NEW e \in Entities PROVE Explains(e)
    OBVIOUS
  <1>1. LiveRows \in StoredRows /\ LiveRows[i] \in L!Record \cup {None}
    BY LiveRowsType DEF StoredRows
  <1>2. L!PostedBy(LiveRows', e)
          = L!PostedBy(LiveRows, e) - Worth(LiveRows[i], e) + Worth(x, e)
    BY <1>1, PostedPut DEF Put1
  <1>3. /\ L!PostedBy(LiveRows, e) \in Int
        /\ Worth(LiveRows[i], e) \in Int /\ Worth(x, e) \in Int
    BY <1>1, PostedSums, WorthType
  <1>4. L!Stored(e)' - L!Stored(e) = L!PostedBy(LiveRows', e) - L!PostedBy(LiveRows, e)
    BY StoredMoves
  <1>5. bal'[e] = bal[e] + (Worth(x, e) - Worth(LiveRows[i], e)) /\ bal[e] \in Int
    BY DEF Posted, TypeOK
  <1> QED
    BY <1>2, <1>3, <1>4, <1>5 DEF Explains

LEMMA PairMoves ==
  ASSUME TypeOK, TypeOK', NEW i \in Ids, NEW j \in Ids, i # j,
         NEW x \in L!Record \cup {None}, NEW y \in L!Record \cup {None},
         Put2(i, x, j, y), NEW e
  PROVE  L!Stored(e)' - L!Stored(e)
           = Worth(x, e) - Worth(LiveRows[i], e) + Worth(y, e) - Worth(LiveRows[j], e)
  <1>1. /\ LiveRows \in StoredRows
        /\ LiveRows[i] \in L!Record \cup {None} /\ LiveRows[j] \in L!Record \cup {None}
    BY LiveRowsType DEF StoredRows
  <1>2. PICK R : R = [LiveRows EXCEPT ![i] = x]
    OBVIOUS
  <1>3. /\ R \in StoredRows
        /\ L!PostedBy(R, e) = L!PostedBy(LiveRows, e) - Worth(LiveRows[i], e) + Worth(x, e)
    BY <1>1, <1>2, PostedPut
  <1>4. R[j] = LiveRows[j] /\ LiveRows' = [R EXCEPT ![j] = y]
    BY <1>1, <1>2 DEF Put2, StoredRows
  <1>5. L!PostedBy(LiveRows', e) = L!PostedBy(R, e) - Worth(LiveRows[j], e) + Worth(y, e)
    <2>1. L!PostedBy([R EXCEPT ![j] = y], e) = L!PostedBy(R, e) - Worth(R[j], e) + Worth(y, e)
      BY <1>3, PostedPut
    <2> QED
      BY <1>4, <2>1
  <1>6. /\ L!PostedBy(LiveRows, e) \in Int
        /\ Worth(LiveRows[i], e) \in Int /\ Worth(x, e) \in Int
        /\ Worth(LiveRows[j], e) \in Int /\ Worth(y, e) \in Int
    BY <1>1, PostedSums, WorthType
  <1>7. L!Stored(e)' - L!Stored(e) = L!PostedBy(LiveRows', e) - L!PostedBy(LiveRows, e)
    BY StoredMoves
  <1> QED
    BY <1>3, <1>5, <1>6, <1>7

\* Every commit that is not stale.
LEMMA FreshConserves ==
  ASSUME RacesInv, RacesInv', ShapesKept, NEW w \in Workers, Commit(w), Faithful(w)
  PROVE  \A e \in Entities : Explains(e)
  <1>1. TypeOK /\ TypeOK' /\ bal \in [Entities -> Int] /\ LiveRows \in StoredRows
    BY LiveRowsType DEF RacesInv, IInv, TypeOK
  <1>2. L!NoLeg \in L!Record /\ None \in L!Record \cup {None}
        /\ \A i \in Ids : LiveRows[i] # None => LiveRows[i] \in L!Record
    BY <1>1, NoLegType DEF StoredRows
  <1>3. CASE Created
    <2>1. PICK i \in Ids, d \in Draft :
            /\ LiveRows[i] = None
            /\ Put1(i, L!PlainRow(d)) /\ Posted(L!NoLeg, L!PlainRow(d))
      BY <1>3 DEF Created
    <2>2. L!PlainRow(d) \in L!Record
      BY PlainRowType
    <2>3. \A e : Worth(L!NoLeg, e) = Worth(LiveRows[i], e)
      BY <2>1, NoWorth
    <2> QED
      BY <1>1, <1>2, <2>1, <2>2, <2>3, PlainConserves
  <1>4. CASE Updated
    <2>1. PICK i \in Ids, d \in Draft :
            /\ LiveRows[i] # None /\ ~L!Grouped(i)
            /\ Put1(i, L!Merged(LiveRows[i], d)) /\ Posted(LiveRows[i], L!Merged(LiveRows[i], d))
      BY <1>4 DEF Updated
    <2>2. LiveRows[i] \in L!Record /\ L!Merged(LiveRows[i], d) \in L!Record
      BY <1>2, <2>1, MergedType
    <2> QED
      BY <1>1, <2>1, <2>2, PlainConserves
  <1>5. CASE Deleted
    <2>1. PICK i \in Ids :
            /\ LiveRows[i] # None /\ ~L!Grouped(i)
            /\ Put1(i, None) /\ Posted(LiveRows[i], L!NoLeg)
      BY <1>5 DEF Deleted
    <2>2. \A e : Worth(L!NoLeg, e) = Worth(None, e)
      BY NoWorth
    <2> QED
      BY <1>1, <1>2, <2>1, <2>2, PlainConserves
  <1>6. ASSUME NEW r \in L!Record, NEW q \in L!Record, NEW sign \in {1, -1}, TwoLegs(r, q, sign),
               NEW e \in Entities
        PROVE  bal'[e] - bal[e] = sign * Worth(r, e) + sign * Worth(q, e)
    <2>1. Worth(r, e) \in Int /\ Worth(q, e) \in Int /\ bal[e] \in Int
      BY <1>1, WorthType
    <2>2. bal'[e] = (bal[e] + sign * Worth(r, e)) + sign * Worth(q, e)
      BY <1>6 DEF TwoLegs, LegOn
    <2>3. CASE sign = 1
      BY <2>1, <2>2, <2>3
    <2>4. CASE sign = -1
      BY <2>1, <2>2, <2>4
    <2> QED
      BY <2>3, <2>4
  <1>7. CASE Transferred
    <2>1. PICK i \in Ids, j \in Ids, src \in Accounts, dst \in Entities, amt \in TransferAmounts :
            /\ i # j /\ LiveRows[i] = None /\ LiveRows[j] = None
            /\ Put2(i, OriginLeg(i, src, amt), j, OtherLeg(i, dst, amt))
            /\ TwoLegs(OriginLeg(i, src, amt), OtherLeg(i, dst, amt), 1)
      BY <1>7 DEF Transferred
    <2>2. PICK o : o = OriginLeg(i, src, amt)
      OBVIOUS
    <2>3. PICK d : d = OtherLeg(i, dst, amt)
      OBVIOUS
    <2>4. /\ o \in L!Record /\ d \in L!Record /\ Put2(i, o, j, d) /\ TwoLegs(o, d, 1)
      BY <2>1, <2>2, <2>3, NewRows
    <2>5. ASSUME NEW e \in Entities
          PROVE  Explains(e)
      <3>1. L!Stored(e)' - L!Stored(e)
              = Worth(o, e) - Worth(LiveRows[i], e) + Worth(d, e) - Worth(LiveRows[j], e)
        BY <1>1, <2>1, <2>4, PairMoves
      <3>2. Worth(LiveRows[i], e) = 0 /\ Worth(LiveRows[j], e) = 0
        BY <2>1, NoWorth
      <3>3. bal'[e] - bal[e] = 1 * Worth(o, e) + 1 * Worth(d, e)
        BY <1>6, <2>4
      <3>4. Worth(o, e) \in Int /\ Worth(d, e) \in Int
        BY <2>4, WorthType
      <3> QED
        BY <3>1, <3>2, <3>3, <3>4 DEF Explains
    <2> QED
      BY <2>5
  <1>8. CASE Dropped
    <2>1. PICK f \in Ids, s \in Ids :
            Legged(f, s) /\ Put2(f, None, s, None) /\ TwoLegs(LiveRows[f], LiveRows[s], -1)
      BY <1>8 DEF Dropped
    <2>2. f # s /\ LiveRows[f] \in L!Record /\ LiveRows[s] \in L!Record
      BY <2>1 DEF Legged, Pair
    <2>3. ASSUME NEW e \in Entities
          PROVE  Explains(e)
      <3>1. L!Stored(e)' - L!Stored(e)
              = Worth(None, e) - Worth(LiveRows[f], e) + Worth(None, e) - Worth(LiveRows[s], e)
        BY SMTT(60), <1>1, <1>2, <2>1, <2>2, PairMoves
      <3>2. Worth(None, e) = 0
        BY NoWorth
      <3>3. bal'[e] - bal[e] = (-1) * Worth(LiveRows[f], e) + (-1) * Worth(LiveRows[s], e)
        BY <1>6, <2>1, <2>2
      <3>4. Worth(LiveRows[f], e) \in Int /\ Worth(LiveRows[s], e) \in Int
        BY <2>2, WorthType
      <3> QED
        BY <3>1, <3>2, <3>3, <3>4 DEF Explains
    <2> QED
      BY <2>3
  <1>9. CASE AmendedPair
    <2>1. PICK f \in Ids, s \in Ids, amt \in TransferAmounts :
            /\ Legged(f, s)
            /\ Put2(f, WithAmount(LiveRows[f], amt), s, WithAmount(LiveRows[s], amt))
            /\ FourLegs(LiveRows[f], LiveRows[s],
                        WithAmount(LiveRows[f], amt), WithAmount(LiveRows[s], amt))
      BY <1>9 DEF AmendedPair
    <2>2. PICK a : a = LiveRows[f]
      OBVIOUS
    <2>3. PICK b : b = LiveRows[s]
      OBVIOUS
    <2>4. PICK o : o = WithAmount(a, amt)
      OBVIOUS
    <2>5. PICK d : d = WithAmount(b, amt)
      OBVIOUS
    <2>6. /\ f # s /\ a \in L!Record /\ b \in L!Record
          /\ Put2(f, o, s, d) /\ FourLegs(a, b, o, d)
      BY <2>1, <2>2, <2>3, <2>4, <2>5 DEF Legged, Pair
    <2>7. o \in L!Record /\ d \in L!Record
      BY <2>4, <2>5, <2>6, LedgerTxAssumption DEF WithAmount, L!Record, Amounts
    <2>8. ASSUME NEW e \in Entities
          PROVE  Explains(e)
      <3>1. L!Stored(e)' - L!Stored(e)
              = Worth(o, e) - Worth(a, e) + Worth(d, e) - Worth(b, e)
        BY <1>1, <2>2, <2>3, <2>6, <2>7, PairMoves
      <3>2. /\ Worth(a, e) \in Int /\ Worth(b, e) \in Int /\ Worth(o, e) \in Int
            /\ Worth(d, e) \in Int /\ bal[e] \in Int
        BY <1>1, <2>6, <2>7, WorthType
      <3>3. bal'[e] = (((bal[e] + (-1) * Worth(a, e)) + (-1) * Worth(b, e))
                         + 1 * Worth(o, e)) + 1 * Worth(d, e)
        BY <2>6 DEF FourLegs, LegOn
      <3> QED
        BY <3>1, <3>2, <3>3 DEF Explains
    <2> QED
      BY <2>8
  <1> QED
    BY <1>3, <1>4, <1>5, <1>7, <1>8, <1>9, FreshDone

\* A request none of whose reads another one has changed since moves every
\* balance by what it changes in the stored movements, whatever else is in
\* progress: only a stale read makes the books drift.
THEOREM FreshRequestsConserve == Spec => FreshCommitsConserve
  <1>1. Spec => []FreshInv
    BY FreshInvInit, FreshInvNext, PTL DEF Spec
  <1>2. FreshInv /\ FreshInv' /\ [Next]_vars =>
          [\A w \in Workers : Commit(w) /\ w \notin stale =>
             \A e \in Entities : bal'[e] - bal[e] = L!Stored(e)' - L!Stored(e)]_vars
    BY FreshConserves DEF FreshInv, Explains
  <1>3. FreshCommitsConserve <=>
          [][\A w \in Workers : Commit(w) /\ w \notin stale =>
               \A e \in Entities : bal'[e] - bal[e] = L!Stored(e)' - L!Stored(e)]_vars
    BY DEF FreshCommitsConserve
  <1> QED
    BY <1>1, <1>2, <1>3, PTL DEF Spec

-----------------------------------------------------------------------------
(***************************************************************************)
(* The same commits as the serial requests of Ledger.                      *)
(***************************************************************************)
LEMMA SerialNames ==
  /\ L!Entities = Entities /\ L!Patrimony = Entities
  /\ Draft \subseteq L!Draft
  /\ TransferAmounts \subseteq L!PositiveAmounts
  <1>1. L!Entities = Entities /\ L!Patrimony = Entities
    BY DEF L!Entities, L!Patrimony, Entities
  <1>2. Links \subseteq Entities \cup {None} /\ MoveAmounts \subseteq Amounts
    BY LedgerTxAssumption DEF Amounts
  <1>3. Draft \subseteq L!Draft
    BY <1>1, <1>2 DEF Draft, L!Draft
  <1>4. TransferAmounts \subseteq L!PositiveAmounts
    BY LedgerTxAssumption DEF Amounts, L!PositiveAmounts
  <1> QED
    BY <1>1, <1>3, <1>4

\* Without goals nothing is completed.
LEMMA NothingToSettle ==
  ASSUME NEW b, NEW hit, bal' = b
  PROVE  L!Settle(b, hit)
  <1>1. \A f : f = [x \in {} |-> f[x]] => f = Nowhere
    BY DEF Nowhere
  <1>2. Nowhere' = Nowhere
    BY DEF Nowhere
  <1>3. Nowhere = [o \in {} |-> IF o \in hit \ {} THEN L!Reached(Nowhere[o], b[o])
                                               ELSE Nowhere[o]]
    BY DEF Nowhere
  <1> QED
    BY <1>2, <1>3 DEF L!Settle

LEMMA SerialPostNet ==
  ASSUME TypeOK, NEW v \in [Entities -> Int],
         bal' = [e \in Entities |-> bal[e] + v[e]],
         \A e \in Entities : v[e] # 0 => Allowed(e, bal[e], v[e])
  PROVE  L!PostNet(v)
  <1>1. PICK hit : hit = {e \in L!Entities : v[e] # 0}
    OBVIOUS
  <1>2. hit = {e \in Entities : v[e] # 0}
    BY <1>1, SerialNames
  <1>3. L!Admits(bal, v, hit)
    BY <1>2 DEF L!Admits, L!Payable, L!Fits, Allowed, Entities
  <1>4. bal' = L!Shift(bal, v)
    BY SerialNames DEF L!Shift
  <1>5. L!Settle(L!Shift(bal, v), hit)
    BY <1>4, NothingToSettle
  <1> QED
    BY <1>1, <1>3, <1>5 DEF L!PostNet

LEMMA SerialLinks ==
  /\ \A r : L!LinkDelta(r) = [e \in Entities |-> L!LinkSign(r, e) * r.amount]
  /\ \A v : L!Minus(v) = [e \in Entities |-> -v[e]]
  /\ \A v, u : L!Plus(v, u) = [e \in Entities |-> v[e] + u[e]]
  /\ \A r \in L!Record : Bare(r) =>
       \A e \in Entities : L!LinkSign(r, e) * r.amount = Worth(r, e)
  <1>1. \A r \in L!Record : r # None
    BY VersionAssumption
  <1> QED
    BY <1>1, SerialNames DEF L!LinkDelta, L!Minus, L!Plus, Worth, L!Effect, Bare

LEMMA SerialRows ==
  ASSUME NEW d \in Draft
  PROVE  /\ \A e : L!LinkSign(L!PlainRow(d), e) = L!LinkSign(d, e)
         /\ L!PlainRow(d).amount = d.amount
         /\ \A r \in L!Record :
              /\ \A e : L!LinkSign(L!Merged(r, d), e) = L!LinkSign(d, e)
              /\ L!Merged(r, d).amount = d.amount
  <1>1. /\ L!PlainRow(d).type = d.type /\ L!PlainRow(d).amount = d.amount
        /\ L!PlainRow(d).patrimony = d.patrimony /\ L!PlainRow(d).objective = d.objective
    BY DEF L!PlainRow
  <1>2. \A r \in L!Record :
          /\ L!Merged(r, d).type = d.type /\ L!Merged(r, d).amount = d.amount
          /\ L!Merged(r, d).patrimony = d.patrimony /\ L!Merged(r, d).objective = d.objective
    BY DEF L!Merged, L!Record
  <1> QED
    BY <1>1, <1>2 DEF L!LinkSign

\* What a plain request posts, in the words of Ledger.
LEMMA SerialPosted ==
  ASSUME TypeOK, NEW old \in L!Record, NEW new \in L!Record, Posted(old, new), NEW v,
         v = [e \in Entities |-> v[e]],
         \A e \in Entities : v[e] = Worth(new, e) - Worth(old, e)
  PROVE  L!PostNet(v)
  <1>1. \A e \in Entities : Worth(new, e) \in Int /\ Worth(old, e) \in Int
    BY WorthType
  <1>2. v \in [Entities -> Int]
    BY <1>1
  <1>3. bal' = [e \in Entities |-> bal[e] + v[e]]
    BY DEF Posted
  <1>4. \A e \in Entities : v[e] # 0 => Allowed(e, bal[e], v[e])
    BY DEF Posted
  <1> QED
    BY <1>2, <1>3, <1>4, SerialPostNet

LEMMA SerialUnchanged == UNCHANGED <<Nowhere, {}>>
  BY DEF Nowhere

LEMMA CreatedSerially ==
  ASSUME RacesInv, Created
  PROVE  L!CarefulNext
  <1>1. PICK i \in Ids, d \in Draft :
          /\ LiveRows[i] = None
          /\ Put1(i, L!PlainRow(d)) /\ Posted(L!NoLeg, L!PlainRow(d))
    BY DEF Created
  <1>2. PICK new : new = L!PlainRow(d)
    OBVIOUS
  <1>3. new \in L!Record /\ Bare(new) /\ L!NoLeg \in L!Record /\ TypeOK
    BY <1>2, PlainRowType, NoLegType DEF Bare, L!PlainRow, RacesInv, IInv
  <1>4. PICK v : v = L!LinkDelta(d)
    OBVIOUS
  <1>5. \A e \in Entities : L!LinkSign(d, e) * d.amount = Worth(new, e)
    BY <1>2, <1>3, SerialRows, SerialLinks
  <1>6. v = [e \in Entities |-> L!LinkSign(d, e) * d.amount]
    BY <1>4, SerialLinks
  <1>7. \A e \in Entities : v[e] = Worth(new, e) - Worth(L!NoLeg, e)
    <2>1. \A e \in Entities : Worth(new, e) \in Int /\ Worth(L!NoLeg, e) = 0
      BY <1>3, WorthType, NoWorth
    <2> QED
      BY <1>5, <1>6, <2>1
  <1>8. v = [e \in Entities |-> v[e]]
    BY <1>6
  <1>9. L!PostNet(v)
    BY <1>1, <1>2, <1>3, <1>7, <1>8, SerialPosted
  <1>10. L!Create(i, d)
    BY <1>1, <1>4, <1>9, SerialUnchanged DEF L!Create, L!Unused, Put1
  <1>11. d \in L!Draft
    BY SerialNames
  <1> QED
    BY <1>10, <1>11 DEF L!CarefulNext, L!RecordNext

LEMMA UpdatedSerially ==
  ASSUME RacesInv, Updated
  PROVE  L!CarefulNext
  <1>1. PICK i \in Ids, d \in Draft :
          /\ LiveRows[i] # None /\ ~L!Grouped(i)
          /\ Put1(i, L!Merged(LiveRows[i], d)) /\ Posted(LiveRows[i], L!Merged(LiveRows[i], d))
    BY DEF Updated
  <1>2. PICK old : old = LiveRows[i]
    OBVIOUS
  <1>3. PICK new : new = L!Merged(old, d)
    OBVIOUS
  <1>4. TypeOK /\ old \in L!Record /\ Bare(old)
    BY <1>1, <1>2, UngroupedBare, LiveRowType DEF RacesInv, IInv
  <1>5. new \in L!Record /\ Bare(new)
    BY <1>3, <1>4, MergedType DEF L!Merged, Bare, L!Record
  <1>6. PICK v : v = L!Plus(L!Minus(L!LinkDelta(old)), L!LinkDelta(d))
    OBVIOUS
  <1>7. /\ \A e \in Entities : L!LinkSign(d, e) * d.amount = Worth(new, e)
        /\ \A e \in Entities : L!LinkSign(old, e) * old.amount = Worth(old, e)
    BY <1>3, <1>4, <1>5, SerialRows, SerialLinks
  <1>8. v = [e \in Entities |-> v[e]]
        /\ \A e \in Entities : v[e] = -Worth(old, e) + Worth(new, e)
    <2>1. PICK p : p = L!LinkDelta(old)
      OBVIOUS
    <2>2. PICK q : q = L!LinkDelta(d)
      OBVIOUS
    <2>3. PICK m : m = L!Minus(p)
      OBVIOUS
    <2>4. /\ \A e \in Entities : p[e] = Worth(old, e) /\ q[e] = Worth(new, e)
      BY <1>7, <2>1, <2>2, SerialLinks
    <2>5. \A e \in Entities : m[e] = -p[e]
      BY <2>3, SerialLinks
    <2>6. v = [e \in Entities |-> m[e] + q[e]]
      BY <1>6, <2>1, <2>2, <2>3, SerialLinks
    <2> QED
      BY <2>4, <2>5, <2>6
  <1>9. \A e \in Entities : v[e] = Worth(new, e) - Worth(old, e)
    <2>1. \A e \in Entities : Worth(new, e) \in Int /\ Worth(old, e) \in Int
      BY <1>4, <1>5, WorthType
    <2> QED
      BY <1>8, <2>1
  <1>10. L!PostNet(v)
    BY <1>1, <1>2, <1>3, <1>4, <1>5, <1>8, <1>9, SerialPosted
  <1>11. L!Update(i, d)
    BY <1>1, <1>2, <1>6, <1>10, SerialUnchanged DEF L!Update, Put1
  <1>12. d \in L!Draft
    BY SerialNames
  <1> QED
    BY <1>1, <1>11, <1>12 DEF L!CarefulNext, L!OwnEndpoint

LEMMA DeletedSerially ==
  ASSUME RacesInv, Deleted
  PROVE  L!CarefulNext
  <1>1. PICK i \in Ids :
          /\ LiveRows[i] # None /\ ~L!Grouped(i)
          /\ Put1(i, None) /\ Posted(LiveRows[i], L!NoLeg)
    BY DEF Deleted
  <1>2. PICK old : old = LiveRows[i]
    OBVIOUS
  <1>3. TypeOK /\ old \in L!Record /\ Bare(old) /\ L!NoLeg \in L!Record
    BY <1>1, <1>2, UngroupedBare, LiveRowType, NoLegType DEF RacesInv, IInv
  <1>4. PICK v : v = L!Minus(L!LinkDelta(old))
    OBVIOUS
  <1>5. v = [e \in Entities |-> v[e]] /\ \A e \in Entities : v[e] = -Worth(old, e)
    <2>1. PICK p : p = L!LinkDelta(old)
      OBVIOUS
    <2>2. \A e \in Entities : p[e] = Worth(old, e)
      BY <1>3, <2>1, SerialLinks
    <2>3. v = [e \in Entities |-> -p[e]]
      BY <1>4, <2>1, SerialLinks
    <2> QED
      BY <2>2, <2>3
  <1>6. \A e \in Entities : v[e] = Worth(L!NoLeg, e) - Worth(old, e)
    <2>1. \A e \in Entities : Worth(L!NoLeg, e) = 0 /\ Worth(old, e) \in Int
      BY <1>3, WorthType, NoWorth
    <2> QED
      BY <1>5, <2>1
  <1>7. L!PostNet(v)
    BY <1>1, <1>2, <1>3, <1>5, <1>6, SerialPosted
  <1>8. LiveRows' = L!Cleared({i})
    BY <1>1 DEF Put1, L!Cleared, LiveRows
  <1>9. L!SoftDelete(i)
    BY <1>1, <1>2, <1>4, <1>7, <1>8, SerialUnchanged DEF L!SoftDelete
  <1> QED
    BY <1>9 DEF L!CarefulNext, L!RecordNext

-----------------------------------------------------------------------------
(***************************************************************************)
(* Transfers as the serial requests of Ledger.                             *)
(***************************************************************************)
\* The leg r posted to balances b, with its check.
LEMMA LegPosts ==
  ASSUME NEW b, NEW r \in L!Record, Shaped(r), r.group # None
  PROVE  /\ L!LegHit(r) = {HitOf(r)}
         /\ L!Shift(b, L!LegDelta(r)) = LegOn(b, r, 1)
         /\ L!Shift(b, L!Minus(L!LegDelta(r))) = LegOn(b, r, -1)
         /\ LegFits(b, r, 1) => L!Admits(b, L!LegDelta(r), L!LegHit(r))
         /\ LegFits(b, r, -1) => L!Admits(b, L!Minus(L!LegDelta(r)), L!LegHit(r))
  <1>1. PICK h : h = HitOf(r)
    OBVIOUS
  <1>2. h \in Entities /\ \A e : L!LegSign(r, e) # 0 <=> e = h
    BY <1>1, LegWorth
  <1>3. L!LegHit(r) = {h}
    BY <1>2, SerialNames DEF L!LegHit
  <1>4. PICK p : p = L!LegDelta(r)
    OBVIOUS
  <1>5. PICK m : m = L!Minus(p)
    OBVIOUS
  <1>6. \A e : Worth(r, e) = L!LegSign(r, e) * r.amount
    BY VersionAssumption DEF Worth, L!Effect
  <1>7. p = [e \in Entities |-> Worth(r, e)]
    BY <1>4, <1>6, SerialNames DEF L!LegDelta
  <1>8. m = [e \in Entities |-> -p[e]]
    BY <1>5, SerialLinks
  <1>9. \A e \in Entities : Worth(r, e) \in Int
    BY WorthType
  <1>10. /\ \A e \in Entities : p[e] = 1 * Worth(r, e)
         /\ \A e \in Entities : m[e] = (-1) * Worth(r, e)
    BY <1>7, <1>8, <1>9
  <1>11. \A v : L!Shift(b, v) = [e \in Entities |-> b[e] + v[e]]
    BY SerialNames DEF L!Shift
  <1>12. L!Shift(b, p) = LegOn(b, r, 1) /\ L!Shift(b, m) = LegOn(b, r, -1)
    BY <1>10, <1>11 DEF LegOn
  <1>13. ASSUME NEW v, Allowed(h, b[h], v[h])
         PROVE  L!Admits(b, v, {h})
    BY <1>13 DEF Allowed, L!Admits, L!Payable, L!Fits
  <1>14. /\ LegFits(b, r, 1) => L!Admits(b, p, {h})
         /\ LegFits(b, r, -1) => L!Admits(b, m, {h})
    BY <1>1, <1>2, <1>10, <1>13 DEF LegFits
  <1> QED
    BY <1>1, <1>3, <1>4, <1>5, <1>12, <1>14

LEMMA SerialCredits ==
  ASSUME NEW r \in L!Record, Shaped(r), r.group # None,
         NEW q \in L!Record, Shaped(q), q.group # None, TwoLegs(r, q, 1)
  PROVE  L!PostTwo(L!LegDelta(r), L!LegHit(r), L!LegDelta(q), L!LegHit(q))
  <1>1. PICK h : h = L!LegHit(r)
    OBVIOUS
  <1>2. PICK k : k = L!LegHit(q)
    OBVIOUS
  <1>3. PICK v : v = L!LegDelta(r)
    OBVIOUS
  <1>4. PICK u : u = L!LegDelta(q)
    OBVIOUS
  <1>5. PICK c : c = LegOn(bal, r, 1)
    OBVIOUS
  <1>6. LegFits(bal, r, 1) /\ LegFits(c, q, 1) /\ bal' = LegOn(c, q, 1)
    BY <1>5 DEF TwoLegs
  <1>7. L!Admits(bal, v, h) /\ L!Shift(bal, v) = c
    BY <1>1, <1>3, <1>5, <1>6, LegPosts
  <1>8. L!Admits(c, u, k) /\ L!Shift(c, u) = bal'
    BY <1>2, <1>4, <1>6, LegPosts
  <1>9. L!Settle(L!Shift(c, u), h \cup k)
    BY <1>8, NothingToSettle
  <1>10. L!PostTwo(v, h, u, k)
    BY <1>7, <1>8, <1>9 DEF L!PostTwo
  <1> QED
    BY <1>1, <1>2, <1>3, <1>4, <1>10

LEMMA SerialReverts ==
  ASSUME NEW r \in L!Record, Shaped(r), r.group # None,
         NEW q \in L!Record, Shaped(q), q.group # None, TwoLegs(r, q, -1)
  PROVE  L!PostTwo(L!Minus(L!LegDelta(r)), L!LegHit(r), L!Minus(L!LegDelta(q)), L!LegHit(q))
  <1>1. PICK h : h = L!LegHit(r)
    OBVIOUS
  <1>2. PICK k : k = L!LegHit(q)
    OBVIOUS
  <1>3. PICK v : v = L!Minus(L!LegDelta(r))
    OBVIOUS
  <1>4. PICK u : u = L!Minus(L!LegDelta(q))
    OBVIOUS
  <1>5. PICK c : c = LegOn(bal, r, -1)
    OBVIOUS
  <1>6. LegFits(bal, r, -1) /\ LegFits(c, q, -1) /\ bal' = LegOn(c, q, -1)
    BY <1>5 DEF TwoLegs
  <1>7. L!Admits(bal, v, h) /\ L!Shift(bal, v) = c
    BY <1>1, <1>3, <1>5, <1>6, LegPosts
  <1>8. L!Admits(c, u, k) /\ L!Shift(c, u) = bal'
    BY <1>2, <1>4, <1>6, LegPosts
  <1>9. L!Settle(L!Shift(c, u), h \cup k)
    BY <1>8, NothingToSettle
  <1>10. L!PostTwo(v, h, u, k)
    BY <1>7, <1>8, <1>9 DEF L!PostTwo
  <1> QED
    BY <1>1, <1>2, <1>3, <1>4, <1>10

LEMMA SerialFour ==
  ASSUME NEW a \in L!Record, Shaped(a), a.group # None,
         NEW b \in L!Record, Shaped(b), b.group # None,
         NEW o \in L!Record, Shaped(o), o.group # None,
         NEW d \in L!Record, Shaped(d), d.group # None, FourLegs(a, b, o, d)
  PROVE  L!PostFour(L!Minus(L!LegDelta(a)), L!LegHit(a), L!Minus(L!LegDelta(b)), L!LegHit(b),
                    L!LegDelta(o), L!LegHit(o), L!LegDelta(d), L!LegHit(d))
  <1>1. PICK c1 : c1 = LegOn(bal, a, -1)
    OBVIOUS
  <1>2. PICK c2 : c2 = LegOn(c1, b, -1)
    OBVIOUS
  <1>3. PICK c3 : c3 = LegOn(c2, o, 1)
    OBVIOUS
  <1>4. /\ LegFits(bal, a, -1) /\ LegFits(c1, b, -1)
        /\ LegFits(c2, o, 1) /\ LegFits(c3, d, 1)
        /\ bal' = LegOn(c3, d, 1)
    BY <1>1, <1>2, <1>3 DEF FourLegs
  <1>5. PICK v1, v2, v3, v4 :
          /\ v1 = L!Minus(L!LegDelta(a)) /\ v2 = L!Minus(L!LegDelta(b))
          /\ v3 = L!LegDelta(o) /\ v4 = L!LegDelta(d)
    OBVIOUS
  <1>6. PICK h1, h2, h3, h4 :
          h1 = L!LegHit(a) /\ h2 = L!LegHit(b) /\ h3 = L!LegHit(o) /\ h4 = L!LegHit(d)
    OBVIOUS
  <1>7. L!Admits(bal, v1, h1) /\ L!Shift(bal, v1) = c1
    BY <1>1, <1>4, <1>5, <1>6, LegPosts
  <1>8. L!Admits(c1, v2, h2) /\ L!Shift(c1, v2) = c2
    BY <1>2, <1>4, <1>5, <1>6, LegPosts
  <1>9. L!Admits(c2, v3, h3) /\ L!Shift(c2, v3) = c3
    BY <1>3, <1>4, <1>5, <1>6, LegPosts
  <1>10. L!Admits(c3, v4, h4) /\ L!Shift(c3, v4) = bal'
    BY <1>4, <1>5, <1>6, LegPosts
  <1>11. L!Settle(L!Shift(c3, v4), h1 \cup h2 \cup h3 \cup h4)
    BY <1>10, NothingToSettle
  <1>12. L!PostFour(v1, h1, v2, h2, v3, h3, v4, h4)
    BY <1>7, <1>8, <1>9, <1>10, <1>11 DEF L!PostFour
  <1> QED
    BY <1>5, <1>6, <1>12

\* The legs of a live transfer, as the serial requests find them.
LEMMA SerialPair ==
  ASSUME RacesInv, NEW f \in Ids, NEW s \in Ids, Legged(f, s)
  PROVE  /\ f # s /\ LiveRows[f] # None /\ LiveRows[s] # None
         /\ L!Grouped(f) /\ L!Legs(f) = {f, s} /\ L!InOrder(f, f, s)
         /\ LiveRows[f].type = "transfer" /\ L!Second(f, s) = LiveRows[s]
         /\ LiveRows[f].group # None /\ LiveRows[s].group # None
  <1>1. /\ Pair(f, s) /\ LiveRows[f] \in L!Record /\ LiveRows[s] \in L!Record
        /\ Shaped(LiveRows[f]) /\ LiveRows[f].group = f /\ LiveRows[s].group = f
    BY DEF Legged
  <1>2. /\ LiveRows[f] # None /\ LiveRows[s] # None /\ f # None
    BY <1>1, VersionAssumption, LedgerTxAssumption
  <1>3. L!Grouped(f)
    BY <1>1, <1>2 DEF L!Grouped
  <1>4. PICK t \in Ids : /\ Pair(LiveRows[f].group, t)
                         /\ L!Legs(f) = {LiveRows[f].group, t}
    BY <1>3, LegsArePair DEF RacesInv
  <1>5. Pair(f, t) /\ L!Legs(f) = {f, t}
    BY <1>1, <1>4
  <1>6. t = s
    BY <1>1, <1>5, OnePair
  <1>7. f # s /\ rec[f].row.origin # None
    BY <1>1 DEF Pair, Twins
  <1>8. LiveRows[f] = rec[f].row
    BY <1>2 DEF LiveRows
  <1>9. L!InOrder(f, f, s)
    BY <1>5, <1>6, <1>7, <1>8 DEF L!InOrder
  <1>10. LiveRows[f].type = "transfer"
    BY <1>1, <1>2 DEF Shaped
  <1>11. L!Second(f, s) = LiveRows[s]
    BY <1>7 DEF L!Second
  <1> QED
    BY <1>1, <1>2, <1>3, <1>5, <1>6, <1>7, <1>9, <1>10, <1>11

LEMMA TransferredSerially ==
  ASSUME RacesInv, Transferred
  PROVE  L!CarefulNext
  <1>1. PICK i \in Ids, j \in Ids, src \in Accounts, dst \in Entities, amt \in TransferAmounts :
          /\ i # j /\ LiveRows[i] = None /\ LiveRows[j] = None
          /\ Put2(i, OriginLeg(i, src, amt), j, OtherLeg(i, dst, amt))
          /\ TwoLegs(OriginLeg(i, src, amt), OtherLeg(i, dst, amt), 1)
    BY DEF Transferred
  <1>2. PICK o : o = OriginLeg(i, src, amt)
    OBVIOUS
  <1>3. PICK d : d = OtherLeg(i, dst, amt)
    OBVIOUS
  <1>4. /\ o \in L!Record /\ d \in L!Record /\ Shaped(o) /\ Shaped(d)
    BY <1>2, <1>3, NewRows, LegsShaped
  <1>5. o.group # None /\ d.group # None
    BY <1>2, <1>3, LedgerTxAssumption DEF OriginLeg, OtherLeg, L!Leg
  <1>6. L!PostTwo(L!LegDelta(o), L!LegHit(o), L!LegDelta(d), L!LegHit(d))
    BY <1>1, <1>2, <1>3, <1>4, <1>5, SerialCredits
  <1>7. LiveRows' = [LiveRows EXCEPT ![i] = o, ![j] = d]
    BY <1>1, <1>2, <1>3 DEF Put2
  <1>8. /\ o = L!Leg(amt, src, None, None, None, i)
        /\ d = IF dst \in Accounts THEN L!Leg(amt, None, dst, None, None, i)
                                   ELSE L!Leg(amt, None, None, dst, None, i)
    BY <1>2, <1>3 DEF OriginLeg, OtherLeg
  <1>9. L!CreateTransfer(i, j, src, dst, amt, None)
    BY <1>1, <1>6, <1>7, <1>8, SerialUnchanged, Zenon DEF L!CreateTransfer, L!Unused
  <1>10. amt \in L!PositiveAmounts /\ dst \in Accounts \cup Liabilities /\ None \in {} \cup {None}
    BY SerialNames DEF Entities
  <1>11. L!TransferNext
    BY <1>1, <1>9, <1>10 DEF L!TransferNext
  <1> QED
    BY <1>11 DEF L!CarefulNext

LEMMA AmendedSerially ==
  ASSUME RacesInv, AmendedPair
  PROVE  L!CarefulNext
  <1>1. PICK f \in Ids, s \in Ids, amt \in TransferAmounts :
          /\ Legged(f, s)
          /\ Put2(f, WithAmount(LiveRows[f], amt), s, WithAmount(LiveRows[s], amt))
          /\ FourLegs(LiveRows[f], LiveRows[s],
                      WithAmount(LiveRows[f], amt), WithAmount(LiveRows[s], amt))
    BY DEF AmendedPair
  <1>2. PICK a : a = LiveRows[f]
    OBVIOUS
  <1>3. PICK b : b = LiveRows[s]
    OBVIOUS
  <1>4. PICK o : o = WithAmount(a, amt)
    OBVIOUS
  <1>5. PICK d : d = WithAmount(b, amt)
    OBVIOUS
  <1>6. /\ f # s /\ a # None /\ L!Grouped(f) /\ L!Legs(f) = {f, s} /\ L!InOrder(f, f, s)
        /\ a.type = "transfer" /\ L!Second(f, s) = b /\ a.group # None /\ b.group # None
    BY <1>1, <1>2, <1>3, SerialPair
  <1>7. /\ a \in L!Record /\ Shaped(a) /\ b \in L!Record /\ Shaped(b)
    BY <1>1, <1>2, <1>3 DEF Legged
  <1>8. /\ o \in L!Record /\ d \in L!Record
        /\ Shaped(o) /\ Shaped(d) /\ o.group # None /\ d.group # None
    BY <1>4, <1>5, <1>6, <1>7, LedgerTxAssumption DEF WithAmount, L!Record, Amounts, Shaped
  <1>9. L!PostFour(L!Minus(L!LegDelta(a)), L!LegHit(a), L!Minus(L!LegDelta(b)), L!LegHit(b),
                   L!LegDelta(o), L!LegHit(o), L!LegDelta(d), L!LegHit(d))
    BY <1>1, <1>2, <1>3, <1>4, <1>5, <1>6, <1>7, <1>8, SerialFour
  <1>10. amt \in Amounts /\ amt # Keep /\ amt \in L!PositiveAmounts
    BY LedgerTxAssumption, SerialNames DEF Amounts
  <1>11. ASSUME NEW r \in L!Record
         PROVE  L!Amended(r, amt, Keep) = WithAmount(r, amt)
    BY <1>10, <1>11 DEF L!Amended, WithAmount, L!Record
  <1>12. o = L!Amended(a, amt, Keep) /\ d = L!Amended(b, amt, Keep)
    BY <1>4, <1>5, <1>7, <1>11
  <1>13. LiveRows' = [k \in Ids |-> CASE k = f -> o
                                      [] k = s /\ k # f -> d
                                      [] OTHER -> LiveRows[k]]
    <2>1. LiveRows' = [LiveRows EXCEPT ![f] = o, ![s] = d]
      BY <1>1, <1>2, <1>3, <1>4, <1>5 DEF Put2
    <2>2. DOMAIN LiveRows = Ids
      BY DEF LiveRows
    <2>3. LiveRows = [k \in Ids |-> LiveRows[k]]
      BY DEF LiveRows
    <2> QED
      BY <1>6, <2>1, <2>2, <2>3
  <1>14. L!UpdateTransfer(f, f, s, amt, Keep)
    BY <1>2, <1>3, <1>6, <1>9, <1>12, <1>13, SerialUnchanged, Zenon DEF L!UpdateTransfer
  <1>15. f \in L!Legs(f) /\ s \in L!Legs(f) /\ amt \in L!PositiveAmounts \cup {Keep}
         /\ Keep \in {} \cup {None, Keep}
    BY <1>6, <1>10
  <1>16. L!OwnEndpoint
    BY <1>6, <1>14, <1>15 DEF L!OwnEndpoint
  <1> QED
    BY <1>16 DEF L!CarefulNext

LEMMA DroppedSerially ==
  ASSUME RacesInv, Dropped
  PROVE  L!CarefulNext
  <1>1. PICK f \in Ids, s \in Ids :
          /\ Legged(f, s)
          /\ Put2(f, None, s, None)
          /\ TwoLegs(LiveRows[f], LiveRows[s], -1)
    BY DEF Dropped
  <1>2. PICK a : a = LiveRows[f]
    OBVIOUS
  <1>3. PICK b : b = LiveRows[s]
    OBVIOUS
  <1>4. /\ f # s /\ a # None /\ L!Grouped(f) /\ L!Legs(f) = {f, s} /\ L!InOrder(f, f, s)
        /\ a.type = "transfer" /\ L!Second(f, s) = b /\ a.group # None /\ b.group # None
    BY <1>1, <1>2, <1>3, SerialPair
  <1>5. /\ a \in L!Record /\ Shaped(a) /\ b \in L!Record /\ Shaped(b)
    BY <1>1, <1>2, <1>3 DEF Legged
  <1>6. L!PostTwo(L!Minus(L!LegDelta(a)), L!LegHit(a), L!Minus(L!LegDelta(b)), L!LegHit(b))
    BY <1>1, <1>2, <1>3, <1>4, <1>5, SerialReverts
  <1>7. LiveRows' = L!Cleared({f, s})
    <2>1. LiveRows' = [LiveRows EXCEPT ![f] = None, ![s] = None]
      BY <1>1 DEF Put2
    <2>2. DOMAIN LiveRows = Ids
      BY DEF LiveRows
    <2>3. LiveRows = [k \in Ids |-> LiveRows[k]]
      BY DEF LiveRows
    <2> QED
      BY <1>4, <2>1, <2>2, <2>3 DEF L!Cleared
  <1>8. L!SoftDeleteTransfer(f, f, s)
    BY <1>2, <1>3, <1>4, <1>6, <1>7, SerialUnchanged, Zenon DEF L!SoftDeleteTransfer
  <1>9. L!SoftDelete(f)
    BY <1>4, <1>8 DEF L!SoftDelete
  <1>10. L!RecordNext
    BY <1>9 DEF L!RecordNext
  <1> QED
    BY <1>10 DEF L!CarefulNext

LEMMA FreshIsSerial ==
  ASSUME RacesInv, ShapesKept, NEW w \in Workers, Commit(w), Faithful(w)
  PROVE  L!CarefulNext
  BY FreshDone, CreatedSerially, UpdatedSerially, DeletedSerially, TransferredSerially,
     AmendedSerially, DroppedSerially

\* The commit of a request none of whose reads another one has changed since
\* is one of the serial requests of Ledger, of plain movements or of transfers,
\* whatever else is in progress.
THEOREM FreshRequestsAreSerial ==
  Spec => [][\A w \in Workers : Commit(w) /\ w \notin stale => L!CarefulNext]_vars
  <1>1. Spec => []FreshInv
    BY FreshInvInit, FreshInvNext, PTL DEF Spec
  <1>2. FreshInv /\ [Next]_vars =>
          [\A w \in Workers : Commit(w) /\ w \notin stale => L!CarefulNext]_vars
    BY FreshIsSerial DEF FreshInv
  <1> QED
    BY <1>1, <1>2, PTL DEF Spec

-----------------------------------------------------------------------------
(***************************************************************************)
(* Requests that touch different rows are serial: no read is ever stale.   *)
(***************************************************************************)
\* Only a PATCH of an account or liability runs its one statement.
LEMMA PlainPlanPatchless ==
  ASSUME NEW s \in Statements, s.op \in RowOps,
         NEW old \in L!Record, NEW new \in L!Record, NEW F, F = PlainPlanOf(s, old, new)
  PROVE  \A k \in 1 .. Len(F) : F[k].op # "patch"
  <1>1. PICK M : M = LinkMoves(old, new)
    OBVIOUS
  <1>2. /\ M \in Seq(Adjustments) /\ Len(M) \in Nat
        /\ Len(F) = Len(M) + 2 /\ F[1] = s /\ F[Len(M) + 2] = Finish
        /\ \A k \in 1 .. Len(M) : F[k + 1] = M[k]
    BY SMTT(60), <1>1, PlainPlanFacts
  <1>3. \A k \in 1 .. Len(M) : F[k + 1].op = "adjust"
    BY <1>2 DEF Adjustments
  <1>4. s.op # "patch" /\ Finish.op # "patch"
    BY DEF RowOps, Finish
  <1>5. ASSUME NEW k \in 1 .. Len(F)
        PROVE  F[k].op # "patch"
    <2>1. k = 1 \/ k = Len(M) + 2 \/ \E m \in 1 .. Len(M) : k = m + 1
      <3>1. k # 1 /\ k # Len(M) + 2 => k - 1 \in 1 .. Len(M) /\ k = (k - 1) + 1
        BY <1>2
      <3> QED
        BY <3>1
    <2> QED
      BY <1>2, <1>3, <1>4, <2>1
  <1> QED
    BY <1>5

LEMMA FivePatchless ==
  ASSUME NEW F, NEW a, NEW b, NEW c, NEW d, NEW e, FiveAre(F, a, b, c, d, e),
         \A x \in {a, b, c, d, e} : x.op # "patch"
  PROVE  \A k \in 1 .. Len(F) : F[k].op # "patch"
  <1>1. \A k \in 1 .. 5 : k \in {1, 2, 3, 4, 5}
    OBVIOUS
  <1>2. \A k \in {1, 2, 3, 4, 5} : F[k] \in {a, b, c, d, e}
    BY DEF FiveAre
  <1> QED
    BY <1>1, <1>2 DEF FiveAre

LEMMA SevenPatchless ==
  ASSUME NEW F, NEW a, NEW b, NEW c, NEW d, NEW e, NEW g, NEW h,
         SevenAre(F, a, b, c, d, e, g, h),
         \A x \in {a, b, c, d, e, g, h} : x.op # "patch"
  PROVE  \A k \in 1 .. Len(F) : F[k].op # "patch"
  <1>1. \A k \in 1 .. 7 : k \in {1, 2, 3, 4, 5, 6, 7}
    OBVIOUS
  <1>2. \A k \in {1, 2, 3, 4, 5, 6, 7} : F[k] \in {a, b, c, d, e, g, h}
    BY DEF SevenAre
  <1> QED
    BY <1>1, <1>2 DEF SevenAre

LEMMA AskedPatchless ==
  ASSUME RacesInv, NEW w, NEW F, Asked(w, F)
  PROVE  \A k \in 1 .. Len(F) : F[k].op # "patch"
  <1>1. TypeOK /\ L!NoLeg \in L!Record
    BY NoLegType DEF RacesInv, IInv
  <1>2. \A i, r : /\ Save(i, r).op # "patch" /\ Remove(i).op # "patch" /\ Finish.op # "patch"
    BY DEF Save, Remove, Finish
  <1>3. \A r, sign : LegMove(r, sign).op # "patch"
    BY DEF LegMove, Adjust
  <1>4. CASE AskedCreate(w, F)
    <2>1. PICK i \in Ids, d \in Draft :
            F = PlainPlanOf(Save(i, L!PlainRow(d)), L!NoLeg, L!PlainRow(d))
      BY <1>4 DEF AskedCreate
    <2>2. L!PlainRow(d) \in L!Record
      BY PlainRowType
    <2>3. PICK s : s = Save(i, L!PlainRow(d))
      OBVIOUS
    <2>4. s \in Statements /\ s.op \in RowOps
      BY <2>2, <2>3, StatementOps DEF RowOps
    <2> QED
      BY <1>1, <2>1, <2>2, <2>3, <2>4, PlainPlanPatchless
  <1>5. CASE AskedUpdate(w, F)
    <2>1. PICK i \in Ids, d \in Draft :
            /\ LiveRows[i] # None
            /\ F = PlainPlanOf(Save(i, L!Merged(LiveRows[i], d)), LiveRows[i],
                               L!Merged(LiveRows[i], d))
      BY <1>5 DEF AskedUpdate
    <2>2. PICK old : old = LiveRows[i]
      OBVIOUS
    <2>3. old \in L!Record /\ L!Merged(old, d) \in L!Record
      BY <1>1, <2>1, <2>2, LiveRowType, MergedType
    <2>4. PICK s : s = Save(i, L!Merged(old, d))
      OBVIOUS
    <2>5. s \in Statements /\ s.op \in RowOps
      BY <2>3, <2>4, StatementOps DEF RowOps
    <2> QED
      BY <2>1, <2>2, <2>3, <2>4, <2>5, PlainPlanPatchless
  <1>6. CASE AskedDelete(w, F)
    <2>1. PICK i \in Ids :
            LiveRows[i] # None /\ F = PlainPlanOf(Remove(i), LiveRows[i], L!NoLeg)
      BY <1>6 DEF AskedDelete
    <2>2. LiveRows[i] \in L!Record
      BY <1>1, <2>1, LiveRowType
    <2>3. Remove(i) \in Statements /\ Remove(i).op \in RowOps
      BY StatementOps DEF RowOps
    <2> QED
      BY <1>1, <2>1, <2>2, <2>3, PlainPlanPatchless
  <1>7. CASE AskedTransfer(w, F)
    <2>1. PICK i, j, o, d : FiveAre(F, Save(i, o), Save(j, d), LegMove(o, 1), LegMove(d, 1), Finish)
      BY <1>7 DEF AskedTransfer
    <2>2. \A x \in {Save(i, o), Save(j, d), LegMove(o, 1), LegMove(d, 1), Finish} :
            x.op # "patch"
      BY <1>2, <1>3
    <2> QED
      BY <2>1, <2>2, FivePatchless
  <1>8. CASE AskedAmend(w, F)
    <2>1. PICK f, s, a, b, o, d :
            SevenAre(F, LegMove(a, -1), LegMove(b, -1), Save(f, o), LegMove(o, 1),
                     Save(s, d), LegMove(d, 1), Finish)
      BY <1>8 DEF AskedAmend
    <2>2. \A x \in {LegMove(a, -1), LegMove(b, -1), Save(f, o), LegMove(o, 1),
                    Save(s, d), LegMove(d, 1), Finish} : x.op # "patch"
      BY <1>2, <1>3
    <2> QED
      BY <2>1, <2>2, SevenPatchless
  <1>9. CASE AskedDrop(w, F)
    <2>1. PICK f, s, a, b :
            FiveAre(F, LegMove(a, -1), Remove(f), LegMove(b, -1), Remove(s), Finish)
      BY <1>9 DEF AskedDrop
    <2>2. \A x \in {LegMove(a, -1), Remove(f), LegMove(b, -1), Remove(s), Finish} :
            x.op # "patch"
      BY <1>2, <1>3
    <2> QED
      BY <2>1, <2>2, FivePatchless
  <1> QED
    BY <1>4, <1>5, <1>6, <1>7, <1>8, <1>9 DEF Asked

\* What is left of the state when the books do not change.
LEMMA BooksRest ==
  ASSUME rec' = rec, bal' = bal
  PROVE  UNCHANGED L!vars
  BY SerialUnchanged DEF L!vars, LiveRows

\* The PATCH of a request that is not stale sets the balance its body carries.
LEMMA PatchIsSerial ==
  ASSUME RacesInv, NEW w \in Workers, SavePatch(w), Faithful(w)
  PROVE  [L!CarefulNext]_(L!vars)
  <1>1. /\ ~Idle(w) /\ Now(w).op = "patch" /\ rec' = rec
        /\ bal' = [bal EXCEPT ![Now(w).entity] = Now(w).value]
    BY DEF SavePatch, Doing
  <1>2. Patching(w)
    <2>1. ASSUME NEW F, NEW n, NEW acc, Serving(w, F, n, acc), Asked(w, F)
          PROVE  FALSE
      <3>1. n \in Nat /\ n < Len(F) /\ Len(F) \in Nat /\ F[n + 1] = Now(w)
        BY <1>1, <2>1, TrackNow DEF Serving
      <3>2. n + 1 \in 1 .. Len(F)
        BY <3>1
      <3>3. F[n + 1].op # "patch"
        BY <2>1, <3>2, AskedPatchless
      <3> QED
        BY <1>1, <3>1, <3>3
    <2> QED
      BY <1>1, <2>1 DEF Faithful
  <1>3. PICK e \in Patched, v \in Int, b \in BOOLEAN :
          /\ plan[w] = <<Patch(e, v, b)>>
          /\ v \in SetValues \/ v = bal[e]
    BY <1>2 DEF Patching
  <1>4. Now(w).entity = e /\ Now(w).value = v
    <2>1. PICK p : p = Patch(e, v, b)
      OBVIOUS
    <2>2. Head(<<p>>) = p /\ p.entity = e /\ p.value = v
      BY <2>1 DEF Patch
    <2> QED
      BY <1>3, <2>1, <2>2, Zenon DEF Now
  <1>5. e \in L!Patrimony /\ e \in Entities /\ bal \in [Entities -> Int]
    BY SerialNames, LedgerTxAssumption DEF RacesInv, IInv, TypeOK
  <1>6. bal' = [bal EXCEPT ![e] = v]
    BY <1>1, <1>4
  <1>7. CASE v \in SetValues
    <2>1. LiveRows' = LiveRows
      BY <1>1 DEF LiveRows
    <2>2. L!SetBalance(e, v)
      BY <1>6, <2>1, SerialUnchanged DEF L!SetBalance
    <2>3. L!EntityNext
      BY <1>5, <1>7, <2>2 DEF L!EntityNext
    <2> QED
      BY <2>3 DEF L!CarefulNext
  <1>8. CASE v = bal[e]
    <2>1. bal' = bal
      BY <1>5, <1>6, <1>8
    <2> QED
      BY <1>1, <2>1, BooksRest
  <1> QED
    BY <1>3, <1>7, <1>8

ApartInv == FreshInv /\ Apart /\ stale = {}

LEMMA ApartInvInit == Init => ApartInv
  <1> SUFFICES ASSUME Init PROVE ApartInv
    OBVIOUS
  <1>1. \A w \in Workers : /\ plan[w] = <<>> /\ rows[w] = Nowhere /\ bals[w] = Nowhere
                           /\ seen[w] = {}
    BY DEF Init
  <1>2. DOMAIN Nowhere = {} /\ 1 .. Len(<<>>) = {}
    BY DEF Nowhere
  <1>3. ASSUME NEW w \in Workers
        PROVE  Footprint(w) = {}
    <2>1. 1 .. Len(plan[w]) = {} /\ Locks(w) = {} /\ seen[w] = {}
      BY <1>1, <1>2 DEF Locks
    <2> QED
      BY <2>1 DEF Footprint
  <1>4. Apart
    BY <1>3 DEF Apart
  <1> QED
    BY <1>4, FreshInvInit DEF ApartInv, Init

\* The balance a PATCH writes is in its footprint.
LEMMA PatchTreads ==
  ASSUME RacesInv, NEW w \in Workers, SavePatch(w)
  PROVE  Now(w).entity \in Footprint(w)
  <1>1. plan[w] \in Seq(Statements) /\ plan[w] # <<>> /\ Now(w).op = "patch"
    BY DEF SavePatch, Doing, Idle, RacesInv, IInv, TypeOK
  <1>2. 1 \in 1 .. Len(plan[w]) /\ Now(w) = plan[w][1]
    BY <1>1 DEF Now
  <1>3. PICK p : p = plan[w][1]
    OBVIOUS
  <1>4. p.op = "patch" /\ p.entity = Now(w).entity
    BY <1>1, <1>2, <1>3
  <1>5. {p.entity} = CASE p.op \in {"save", "remove"}  -> {p.id}
                       [] p.op \in {"adjust", "patch"} -> {p.entity}
                       [] OTHER -> {}
    BY <1>4
  <1>6. p.entity \in {p.entity}
    OBVIOUS
  <1> QED
    BY <1>2, <1>3, <1>4, <1>5, <1>6 DEF Footprint

LEMMA FootprintCovers ==
  \A w \in Workers : Locks(w) \subseteq Footprint(w) /\ seen[w] \subseteq Footprint(w)
  <1>1. ASSUME NEW w \in Workers, NEW x
        PROVE  x \in Locks(w) \/ x \in seen[w] => x \in Footprint(w)
    BY Zenon DEF Footprint
  <1> QED
    BY <1>1

LEMMA ApartInvNext == ApartInv /\ [Next /\ Apart']_vars => ApartInv'
  <1> SUFFICES ASSUME ApartInv, [Next /\ Apart']_vars PROVE ApartInv'
    OBVIOUS
  <1>1. FreshInv /\ Apart /\ stale = {} /\ RacesInv
    BY DEF ApartInv, FreshInv
  <1>2. FreshInv'
    BY <1>1, FreshInvNext
  <1>3. CASE UNCHANGED vars
    <2>1. plan' = plan /\ rows' = rows /\ bals' = bals /\ seen' = seen /\ stale' = stale
      BY <1>3 DEF vars
    <2>2. ASSUME NEW w \in Workers
          PROVE  Footprint(w)' = Footprint(w)
      <3>1. Locks(w)' = Locks(w)
        BY <2>1 DEF Locks
      <3> QED
        BY <2>1, <3>1, ZenonT(60) DEF Footprint
    <2>3. Apart'
      BY <1>1, <2>2 DEF Apart
    <2> QED
      BY <1>1, <1>2, <2>1, <2>3 DEF ApartInv
  <1>4. CASE Next /\ Apart'
    <2>1. PICK w \in Workers : Request(w) \/ Statement(w) \/ Crash(w) \/ Victim(w)
      BY <1>4 DEF Next
    <2>2. ASSUME NEW S, Outdates(w, S), S \subseteq Footprint(w)
          PROVE  stale' = {}
      <3>1. \A v \in Workers : seen[v] \subseteq Footprint(v)
        BY FootprintCovers
      <3>2. \A v \in Workers \ {w} : seen[v] \cap S = {}
        BY <1>1, <2>2, <3>1 DEF Apart
      <3> QED
        BY <1>1, <2>2, <3>2 DEF Outdates
    <2>3. CASE Commit(w)
      <3>1. Locks(w) \subseteq Footprint(w)
        BY FootprintCovers
      <3> QED
        BY <2>2, <2>3, <3>1, <1>2, <1>4 DEF Commit, ApartInv
    <2>4. CASE SavePatch(w)
      <3>1. PICK S : S = IF bal' = bal THEN {} ELSE {Now(w).entity}
        OBVIOUS
      <3>2. Outdates(w, S)
        BY <2>4, <3>1 DEF SavePatch
      <3>3. S \subseteq Footprint(w)
        BY <1>1, <2>4, <3>1, PatchTreads
      <3> QED
        BY <2>2, <3>2, <3>3, <1>2, <1>4 DEF ApartInv
    <2>5. CASE Refuse(w) \/ Crash(w) \/ Victim(w)
      BY <1>1, <1>2, <1>4, <2>5 DEF Refuse, Crash, Victim, ApartInv
    <2>6. CASE \/ SelectRow(w) \/ UpdateRow(w) \/ InsertRow(w) \/ SoftRemoveRow(w)
               \/ ReadBalance(w) \/ WriteBalance(w)
      <3>1. stale' = stale
        BY <2>6 DEF SelectRow, UpdateRow, InsertRow, SoftRemoveRow, ReadBalance, WriteBalance
      <3> QED
        BY <1>1, <1>2, <1>4, <3>1 DEF ApartInv
    <2>7. CASE Request(w)
      <3>1. \E ss, loaded : Begin(w, ss, loaded)
        BY <2>7, RequestBegins
      <3>2. stale' = stale
        BY <3>1 DEF Begin
      <3> QED
        BY <1>1, <1>2, <1>4, <3>2 DEF ApartInv
    <2> QED
      BY <2>1, <2>3, <2>4, <2>5, <2>6, <2>7 DEF Statement
  <1> QED
    BY <1>3, <1>4

LEMMA SerialInit == Init => L!Init
  <1> SUFFICES ASSUME Init PROVE L!Init
    OBVIOUS
  <1>1. LiveRows = [i \in Ids |-> None]
    BY DEF Init, LiveRows
  <1>2. bal \in [L!Entities -> SetValues]
    BY SerialNames DEF Init
  <1>3. /\ Nowhere = [p \in {} |-> None] /\ Nowhere \in [{} -> {}]
        /\ Nowhere = [o \in {} |-> L!Reached(Nowhere[o], bal[o])]
    BY DEF Nowhere
  <1> QED
    BY <1>1, <1>2, <1>3 DEF L!Init

LEMMA SerialStep == ApartInv /\ [Next /\ Apart']_vars => [L!CarefulNext]_(L!vars)
  <1> SUFFICES ASSUME ApartInv, [Next /\ Apart']_vars PROVE [L!CarefulNext]_(L!vars)
    OBVIOUS
  <1>1. RacesInv /\ ShapesKept /\ \A w \in Workers : Faithful(w)
    BY DEF ApartInv, FreshInv
  <1>2. CASE UNCHANGED vars
    BY <1>2, BooksRest DEF vars
  <1>3. CASE Next
    <2>1. PICK w \in Workers : Request(w) \/ Statement(w) \/ Crash(w) \/ Victim(w)
      BY <1>3 DEF Next
    <2>2. CASE Commit(w)
      BY <1>1, <2>2, FreshIsSerial
    <2>3. CASE SavePatch(w)
      BY <1>1, <2>3, PatchIsSerial
    <2>4. CASE \/ SelectRow(w) \/ UpdateRow(w) \/ InsertRow(w) \/ SoftRemoveRow(w)
               \/ ReadBalance(w) \/ WriteBalance(w) \/ Refuse(w) \/ Crash(w) \/ Victim(w)
      <3>1. rec' = rec /\ bal' = bal
        BY <2>4 DEF SelectRow, UpdateRow, InsertRow, SoftRemoveRow, ReadBalance, WriteBalance,
                    Refuse, Crash, Victim
      <3> QED
        BY <3>1, BooksRest
    <2>5. CASE Request(w)
      <3>1. \E ss, loaded : Begin(w, ss, loaded)
        BY <2>5, RequestBegins
      <3>2. rec' = rec /\ bal' = bal
        BY <3>1 DEF Begin
      <3> QED
        BY <3>2, BooksRest
    <2> QED
      BY <2>1, <2>2, <2>3, <2>4, <2>5 DEF Statement
  <1> QED
    BY <1>2, <1>3

\* Requests that touch different movements and balances implement the serial
\* requests of Ledger, whatever order their statements run in, and whichever of
\* them are refused, crash or are rolled back.
THEOREM ApartIsSerial == ApartSpec => SerialWhenApart
  <1>1. ApartInv /\ [Next /\ Apart']_vars => ApartInv'
    BY ApartInvNext
  <1>2. ApartSpec => []ApartInv
    BY <1>1, ApartInvInit, PTL DEF ApartSpec
  <1>3. L!CarefulSpec <=> L!Init /\ [][L!CarefulNext]_(L!vars)
    BY DEF L!CarefulSpec
  <1> QED
    BY <1>2, <1>3, SerialInit, SerialStep, PTL DEF ApartSpec, SerialWhenApart
=============================================================================

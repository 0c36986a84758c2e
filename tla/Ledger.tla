------------------------------- MODULE Ledger -------------------------------
(***************************************************************************)
(* The financial ledger of one user: transaction records, transfers and    *)
(* goal payments, and the balances they are linked to (bank accounts,      *)
(* assets, liabilities, savings goals).                                    *)
(*                                                                         *)
(* Each action is one request of the finance or banking API that commits.  *)
(* A request that fails (a missing row, NEGATIVE_BALANCE_NOT_ALLOWED, a    *)
(* column overflow) is rolled back by its database transaction and changes *)
(* nothing.  Requests are serial here; LedgerTx interleaves them.          *)
(***************************************************************************)
EXTENDS Money

CONSTANTS
  Accounts, Objectives, Assets, Liabilities, \* rows a movement may be linked to
  Ids,           \* identities of transaction_record rows
  PayIds,        \* identities of objective_payment rows
  Types,         \* the transaction types requests carry
  Amounts,       \* the amounts requests carry
  SetValues,     \* the balances a PATCH of an account, asset... may write
  Targets,       \* target_amount values of a goal; 0 is a goal without one
  MaxBalance,    \* numeric(15,2): balances above it overflow the column
  None,          \* SQL NULL
  Keep           \* a field the PATCH body does not mention

Patrimony == Accounts \cup Assets \cup Liabilities
Entities  == Patrimony \cup Objectives
TxTypes   == {"income", "expense", "investment", "transfer"}

ASSUME LedgerAssumption ==
  /\ Types \subseteq TxTypes
  /\ Amounts \subseteq Nat
  /\ SetValues \subseteq Int
  /\ Targets \subseteq Nat
  /\ MaxBalance \in Nat
  /\ IsFiniteSet(Ids) /\ IsFiniteSet(PayIds)
  /\ None \notin Entities \cup Ids \cup PayIds
  /\ Keep \notin Entities \cup {None}
  /\ \A v \in Amounts \cup SetValues \cup Targets : Keep # v
  /\ Keep # TRUE /\ Keep # FALSE
  /\ Accounts \cap (Assets \cup Liabilities \cup Objectives) = {}
  /\ Assets \cap (Liabilities \cup Objectives) = {}
  /\ Liabilities \cap Objectives = {}

VARIABLES
  rec,      \* rec[i]: a row of finance.transaction_record whose deleted_at is
            \* NULL, or None (requests never see the rows they soft-deleted)
  pay,      \* pay[p]: a live row of finance.objective_payment, or None
  bal,      \* encrypted_balance / current_value / current_balance of each row
  done,     \* is_completed of each goal
  target,   \* target_amount of each goal, 0 for NULL
  closed    \* linked rows that are soft-deleted

vars == <<rec, pay, bal, done, target, closed>>

-----------------------------------------------------------------------------
\* The links a create, clone or PATCH body may carry.  SinglePatrimony and the
\* CHECK of the table leave at most one of account_id, asset_id, liability_id.
Draft == [type: Types, amount: Amounts,
          patrimony: Patrimony \cup {None}, objective: Objectives \cup {None}]

Record == [type: TxTypes, amount: Nat,
           patrimony: Patrimony \cup {None}, objective: Objectives \cup {None},
           origin: Accounts \cup {None}, dest: Accounts \cup {None},
           group: Ids \cup {None}]

Payment == [objective: Objectives, amount: Nat]

\* NULL is not a row.
ASSUME RowAssumption == None \notin Record \cup Payment

\* A plain row, as recordRepo.create builds it from a request.
PlainRow(d) ==
  [type |-> d.type, amount |-> d.amount, patrimony |-> d.patrimony,
   objective |-> d.objective, origin |-> None, dest |-> None, group |-> None]

\* PATCH merges the body into the row; origin, destination and group stay.
Merged(r, d) ==
  [r EXCEPT !.type = d.type, !.amount = d.amount,
            !.patrimony = d.patrimony, !.objective = d.objective]

\* One leg of a transfer.
Leg(amt, origin, dest, liability, objective, g) ==
  [type |-> "transfer", amount |-> amt, patrimony |-> liability,
   objective |-> objective, origin |-> origin, dest |-> dest, group |-> g]

\* The absent second leg of a pair that has only one.
NoLeg == Leg(0, None, None, None, None, None)

Live == {i \in Ids : rec[i] # None}
Unused(i) == rec[i] = None
Grouped(i) == rec[i] # None /\ rec[i].group # None
PositiveAmounts == Amounts \ {0}

-----------------------------------------------------------------------------
(***************************************************************************)
(* What one movement does to one balance.                                  *)
(***************************************************************************)
\* contribution(): the sign with which a plain movement enters a balance.
LinkSign(r, e) ==
  CASE e \in Objectives /\ e = r.objective ->
         IF r.type = "expense" THEN -1 ELSE 1
    [] e \in Accounts /\ e = r.patrimony ->
         IF r.type = "income" THEN 1 ELSE -1
    [] e \in Assets /\ e = r.patrimony ->
         IF r.type = "expense" THEN -1 ELSE 1
    [] e \in Liabilities /\ e = r.patrimony -> -1
    [] OTHER -> 0

\* applyTransferAdjustment(): the sign with which a leg enters a balance.
LegSign(r, e) ==
  CASE e \in Accounts /\ e = r.origin -> -1
    [] e \in Accounts /\ e = r.dest -> 1
    [] e \in Liabilities /\ e = r.patrimony -> -1
    [] e \in Objectives /\ e = r.objective -> 1
    [] OTHER -> 0

LinkDelta(r) == [e \in Entities |-> LinkSign(r, e) * r.amount]
LegDelta(r)  == [e \in Entities |-> LegSign(r, e) * r.amount]

Minus(v)   == [e \in Entities |-> -v[e]]
Plus(v, w) == [e \in Entities |-> v[e] + w[e]]

\* The balances a leg is applied to, whatever its amount.
LegHit(r) == {e \in Entities : LegSign(r, e) # 0}

-----------------------------------------------------------------------------
(***************************************************************************)
(* applyToEntity: a soft-deleted row is not found and is skipped; a bank   *)
(* account may not go below zero; a goal's completion is evaluated again.  *)
(***************************************************************************)
\* Mutant: a soft-deleted row still receives the adjustment.
ShiftClosedToo(b, v) == [e \in Entities |-> b[e] + v[e]]

Shift(b, v) == [e \in Entities |-> IF e \in closed THEN b[e] ELSE b[e] + v[e]]

\* Mutant: the check looks at the balance before the adjustment.
PayableBefore(b, v, hit) == \A a \in (Accounts \cap hit) \ closed : b[a] >= 0

Payable(b, v, hit) == \A a \in (Accounts \cap hit) \ closed : b[a] + v[a] >= 0

\* A value the column cannot hold aborts the request (an account's balance is
\* text of any length: for accounts this is the bound of the model).
Fits(b, v, hit) ==
  \A e \in hit \ closed : b[e] + v[e] \in -MaxBalance .. MaxBalance

Admits(b, v, hit) == Payable(b, v, hit) /\ Fits(b, v, hit)

Reached(t, b) == t > 0 /\ b >= t

\* Mutant: completion is only ever set, never taken back.
SettleSticky(b, hit) ==
  /\ bal' = b
  /\ done' = [o \in Objectives |->
                IF o \in hit \ closed THEN done[o] \/ Reached(target[o], b[o])
                                      ELSE done[o]]

\* The balances saved by a request that adjusted those of hit.
Settle(b, hit) ==
  /\ bal' = b
  /\ done' = [o \in Objectives |->
                IF o \in hit \ closed THEN Reached(target[o], b[o])
                                      ELSE done[o]]

\* applyLinkAdjustments and the bulk operations: one net delta per balance,
\* and a balance whose delta is zero is left alone.
PostNet(v) ==
  LET hit == {e \in Entities : v[e] # 0}
  IN  Admits(bal, v, hit) /\ Settle(Shift(bal, v), hit)

\* Transfers apply their legs one after the other, each with its own check.
PostTwo(v1, h1, v2, h2) ==
  LET b1 == Shift(bal, v1)
  IN  /\ Admits(bal, v1, h1)
      /\ Admits(b1, v2, h2)
      /\ Settle(Shift(b1, v2), h1 \cup h2)

\* updateTransfer reverts both legs, then applies both again.
PostFour(v1, h1, v2, h2, v3, h3, v4, h4) ==
  LET b1 == Shift(bal, v1)
      b2 == Shift(b1, v2)
      b3 == Shift(b2, v3)
  IN  /\ Admits(bal, v1, h1)
      /\ Admits(b1, v2, h2)
      /\ Admits(b2, v3, h3)
      /\ Admits(b3, v4, h4)
      /\ Settle(Shift(b3, v4), h1 \cup h2 \cup h3 \cup h4)

-----------------------------------------------------------------------------
(***************************************************************************)
(* Transaction records (TransactionRecordRepository).                      *)
(***************************************************************************)
Create(i, d) ==
  /\ Unused(i)
  /\ rec' = [rec EXCEPT ![i] = PlainRow(d)]
  /\ PostNet(LinkDelta(d))
  /\ UNCHANGED <<pay, target, closed>>

\* createMany, called by a statement import: rows of one account or liability,
\* or of none, and one aggregated adjustment.
CreateMany(i, j, d, e) ==
  /\ i # j /\ Unused(i) /\ Unused(j)
  /\ d.objective = None /\ e.objective = None
  /\ d.patrimony = e.patrimony
  /\ d.patrimony \in Accounts \cup Liabilities \cup {None}
  /\ {d.type, e.type} \subseteq {"income", "expense"}
  /\ rec' = [rec EXCEPT ![i] = PlainRow(d), ![j] = PlainRow(e)]
  /\ PostNet(Plus(LinkDelta(d), LinkDelta(e)))
  /\ UNCHANGED <<pay, target, closed>>

\* Mutant: merge() has already overwritten the previous row when the
\* adjustment reads it (the snapshot of line 423 is missing).
UpdateWithoutSnapshot(i, d) ==
  /\ rec[i] # None
  /\ rec' = [rec EXCEPT ![i] = Merged(rec[i], d)]
  /\ PostNet([e \in Entities |-> 0])
  /\ UNCHANGED <<pay, target, closed>>

\* PATCH of one row, a leg of a transfer included.
Update(i, d) ==
  /\ rec[i] # None
  /\ rec' = [rec EXCEPT ![i] = Merged(rec[i], d)]
  /\ PostNet(Plus(Minus(LinkDelta(rec[i])), LinkDelta(d)))
  /\ UNCHANGED <<pay, target, closed>>

Clone(i, j, amt) ==
  /\ rec[i] # None /\ ~Grouped(i) /\ Unused(j)
  /\ LET copy == [rec[i] EXCEPT !.amount = IF amt = Keep THEN @ ELSE amt]
     IN  /\ rec' = [rec EXCEPT ![j] = copy]
         /\ PostNet(LinkDelta(copy))
  /\ UNCHANGED <<pay, target, closed>>

\* The siblings findTransferById returns for a row.
Legs(i) == IF Grouped(i) THEN {k \in Live : rec[k].group = rec[i].group}
                         ELSE {i}

\* f and s are the first and second of them in the order of their ids: the
\* origin is saved first.  A row alone is both.
InOrder(i, f, s) == Legs(i) = {f, s} /\ (f # s => rec[f].origin # None)
Second(f, s) == IF f = s THEN NoLeg ELSE rec[s]

Cleared(S) == [k \in Ids |-> IF k \in S THEN None ELSE rec[k]]

\* Mutant: only the row of the request is deleted, its twin stays.
SoftDeleteTransferOneLeg(i, f, s) ==
  /\ rec[i] # None /\ rec[i].type = "transfer"
  /\ InOrder(i, f, s)
  /\ rec' = Cleared({i})
  /\ PostTwo(Minus(LegDelta(rec[f])), LegHit(rec[f]),
             Minus(LegDelta(Second(f, s))), LegHit(Second(f, s)))
  /\ UNCHANGED <<pay, target, closed>>

SoftDeleteTransfer(i, f, s) ==
  /\ rec[i] # None /\ rec[i].type = "transfer"
  /\ InOrder(i, f, s)
  /\ rec' = Cleared({f, s})
  /\ PostTwo(Minus(LegDelta(rec[f])), LegHit(rec[f]),
             Minus(LegDelta(Second(f, s))), LegHit(Second(f, s)))
  /\ UNCHANGED <<pay, target, closed>>

\* DELETE of one row; a leg takes its whole transfer with it.
SoftDelete(i) ==
  \/ /\ rec[i] # None /\ ~Grouped(i)
     /\ rec' = Cleared({i})
     /\ PostNet(Minus(LinkDelta(rec[i])))
     /\ UNCHANGED <<pay, target, closed>>
  \/ /\ Grouped(i)
     /\ \E f, s \in Legs(i) : SoftDeleteTransfer(i, f, s)

\* Mutant: the twins of the selected legs are not looked for.
VictimsAsSelected(S) == S \cap Live

\* The rows a bulk deletion removes: when a leg is selected, the query for the
\* siblings replaces the whole selection.
Victims(S) ==
  LET groups == {rec[i].group : i \in S \cap Live} \ {None}
  IN  IF groups = {} THEN S \cap Live
                     ELSE {i \in Live : rec[i].group \in groups}

\* The amounts of rows (of movements, or of payments).
AmountsOf(R) == [i \in DOMAIN R |-> IF R[i] = None THEN 0 ELSE R[i].amount]

\* The sum of collectContributions over a set of rows.
LinkSum(S) ==
  [e \in Entities |->
     Sum({i \in S : LinkSign(rec[i], e) = 1}, AmountsOf(rec))
       - Sum({i \in S : LinkSign(rec[i], e) = -1}, AmountsOf(rec))]

SoftDeleteMany(S) ==
  /\ S \cap Live # {}
  /\ rec' = Cleared(Victims(S))
  /\ PostNet(Minus(LinkSum(Victims(S))))
  /\ UNCHANGED <<pay, target, closed>>

-----------------------------------------------------------------------------
(***************************************************************************)
(* Transfers (TransferService).                                            *)
(***************************************************************************)
CreateTransfer(i, j, src, dst, amt, obj) ==
  /\ i # j /\ Unused(i) /\ Unused(j)
  /\ src \notin closed /\ dst \notin closed
  /\ LET o == Leg(amt, src, None, None, None, i)
         d == IF dst \in Accounts THEN Leg(amt, None, dst, None, obj, i)
                                  ELSE Leg(amt, None, None, dst, obj, i)
     IN  /\ rec' = [rec EXCEPT ![i] = o, ![j] = d]
         /\ PostTwo(LegDelta(o), LegHit(o), LegDelta(d), LegHit(d))
  /\ UNCHANGED <<pay, target, closed>>

\* Mutant: only the leg that debits receives the new amount.
AmendedOriginOnly(r, amt, obj) ==
  [r EXCEPT !.amount = IF amt = Keep \/ r.origin = None THEN @ ELSE amt,
            !.objective = IF obj = Keep \/ r.dest = None THEN @ ELSE obj]

\* The fields updateTransfer writes: the amount on every leg, the goal on the
\* leg that is credited to an account.
Amended(r, amt, obj) ==
  [r EXCEPT !.amount = IF amt = Keep THEN @ ELSE amt,
            !.objective = IF obj = Keep \/ r.dest = None THEN @ ELSE obj]

UpdateTransfer(i, f, s, amt, obj) ==
  /\ rec[i] # None /\ rec[i].type = "transfer"
  /\ InOrder(i, f, s)
  /\ LET f1 == Amended(rec[f], amt, obj)
         s1 == IF f = s THEN NoLeg ELSE Amended(rec[s], amt, obj)
     IN  /\ rec' = [k \in Ids |-> CASE k = f -> f1
                                    [] k = s /\ k # f -> s1
                                    [] OTHER -> rec[k]]
         /\ PostFour(Minus(LegDelta(rec[f])), LegHit(rec[f]),
                     Minus(LegDelta(Second(f, s))), LegHit(Second(f, s)),
                     LegDelta(f1), LegHit(f1), LegDelta(s1), LegHit(s1))
  /\ UNCHANGED <<pay, target, closed>>

\* What cloneTransfer copies of a leg: its account or liability, and the goal
\* of a leg that has a destination.
CopiedLeg(r, amt, g) ==
  IF r.dest # None
  THEN Leg(amt, r.origin, r.dest, None, r.objective, g)
  ELSE IF r.patrimony \in Liabilities
       THEN Leg(amt, r.origin, None, r.patrimony, r.objective, g)
       ELSE Leg(amt, r.origin, None, None, None, g)

\* The template of the amount is the origin leg, or the only one.
CloneTransfer(i, f, s, k, l, amt) ==
  /\ rec[i] # None /\ rec[i].type = "transfer"
  /\ InOrder(i, f, s)
  /\ Unused(k) /\ Unused(l) /\ (k = l <=> f = s)
  /\ LET paid == IF amt = Keep THEN rec[f].amount ELSE amt
         f1 == CopiedLeg(rec[f], paid, k)
         s1 == IF f = s THEN NoLeg ELSE CopiedLeg(rec[s], paid, k)
     IN  /\ rec' = [n \in Ids |-> CASE n = k -> f1
                                    [] n = l /\ n # k -> s1
                                    [] OTHER -> rec[n]]
         /\ PostTwo(LegDelta(f1), LegHit(f1), LegDelta(s1), LegHit(s1))
  /\ UNCHANGED <<pay, target, closed>>

-----------------------------------------------------------------------------
(***************************************************************************)
(* Goal payments (ObjectivePaymentRepository).                             *)
(***************************************************************************)
OnlyGoal(o, amt) == [e \in Entities |-> IF e = o THEN amt ELSE 0]

AddPayment(p, o, amt) ==
  /\ pay[p] = None
  /\ o \notin closed
  /\ pay' = [pay EXCEPT ![p] = [objective |-> o, amount |-> amt]]
  /\ Fits(bal, OnlyGoal(o, amt), {o})
  /\ Settle(Shift(bal, OnlyGoal(o, amt)), {o})
  /\ UNCHANGED <<rec, target, closed>>

\* Mutant: the payment disappears and the goal keeps its money.
RemovePaymentKeepsBalance(p) ==
  /\ pay[p] # None
  /\ pay' = [pay EXCEPT ![p] = None]
  /\ UNCHANGED <<rec, bal, done, target, closed>>

RemovePayment(p) ==
  /\ pay[p] # None
  /\ pay' = [pay EXCEPT ![p] = None]
  /\ LET o == pay[p].objective
         v == OnlyGoal(o, -pay[p].amount)
     IN  Fits(bal, v, {o}) /\ Settle(Shift(bal, v), {o})
  /\ UNCHANGED <<rec, target, closed>>

-----------------------------------------------------------------------------
(***************************************************************************)
(* The linked rows themselves (banking module, financial objectives).      *)
(***************************************************************************)
\* PATCH of an account, asset or liability (or a quote of an asset): the
\* balance is overwritten.
SetBalance(e, v) ==
  /\ e \notin closed
  /\ bal' = [bal EXCEPT ![e] = v]
  /\ UNCHANGED <<rec, pay, done, target, closed>>

\* PATCH of a goal: an explicit is_completed wins over the evaluation.
UpdateObjective(o, t, b, c) ==
  LET newTarget  == IF t = Keep THEN target[o] ELSE t
      newBalance == IF b = Keep THEN bal[o] ELSE b
  IN  /\ o \notin closed
      /\ target' = [target EXCEPT ![o] = newTarget]
      /\ bal' = [bal EXCEPT ![o] = newBalance]
      /\ done' = [done EXCEPT ![o] = IF c = Keep
                                     THEN Reached(newTarget, newBalance)
                                     ELSE c]
      /\ UNCHANGED <<rec, pay, closed>>

\* softDelete of an account, asset, liability or goal.
CloseEntity(e) ==
  /\ e \notin closed
  /\ closed' = closed \cup {e}
  /\ UNCHANGED <<rec, pay, bal, done, target>>

\* The interest job saves its income row through the plain TypeORM repository,
\* which adjusts no balance (InterestAccrual has the whole job).
AccrueInterest(i, a, amt) ==
  /\ Unused(i) /\ a \notin closed
  /\ bal[a] > 0 /\ amt > 0
  /\ rec' = [rec EXCEPT ![i] =
               PlainRow([type |-> "income", amount |-> amt,
                         patrimony |-> a, objective |-> None])]
  /\ UNCHANGED <<pay, bal, done, target, closed>>

-----------------------------------------------------------------------------
(***************************************************************************)
(* The specification.                                                      *)
(***************************************************************************)
\* The linked rows exist already, with the balances they were created with.
Init ==
  /\ rec = [i \in Ids |-> None]
  /\ pay = [p \in PayIds |-> None]
  /\ bal \in [Entities -> SetValues]
  /\ target \in [Objectives -> Targets]
  /\ done = [o \in Objectives |-> Reached(target[o], bal[o])]
  /\ closed = {}

RecordNext ==
  \/ \E i \in Ids, d \in Draft : Create(i, d)
  \/ \E i, j \in Ids, d, e \in Draft : CreateMany(i, j, d, e)
  \/ \E i, j \in Ids, amt \in Amounts \cup {Keep} : Clone(i, j, amt)
  \/ \E i \in Ids : SoftDelete(i)

TransferNext ==
  \/ \E i, j \in Ids, src \in Accounts, dst \in Accounts \cup Liabilities,
        amt \in PositiveAmounts, obj \in Objectives \cup {None} :
       CreateTransfer(i, j, src, dst, amt, obj)
  \/ \E i \in Ids : \E f, s \in Legs(i), k, l \in Ids,
        amt \in PositiveAmounts \cup {Keep} : CloneTransfer(i, f, s, k, l, amt)

EntityNext ==
  \/ \E p \in PayIds, o \in Objectives, amt \in Amounts : AddPayment(p, o, amt)
  \/ \E p \in PayIds : RemovePayment(p)
  \/ \E e \in Patrimony, v \in SetValues : SetBalance(e, v)
  \/ \E o \in Objectives, t \in Targets \cup {Keep},
        b \in (SetValues \cap Nat) \cup {Keep}, c \in BOOLEAN \cup {Keep} :
       UpdateObjective(o, t, b, c)
  \/ \E e \in Entities : CloseEntity(e)

\* Changes that reach a row through the endpoint meant for another kind of row.
AnyEndpoint ==
  \/ \E i \in Ids, d \in Draft : Update(i, d)
  \/ \E S \in SUBSET Ids : SoftDeleteMany(S)
  \/ \E i \in Ids : \E f, s \in Legs(i), amt \in PositiveAmounts \cup {Keep},
        obj \in Objectives \cup {None, Keep} : UpdateTransfer(i, f, s, amt, obj)
  \/ \E i \in Ids : \E f, s \in Legs(i) : SoftDeleteTransfer(i, f, s)
  \/ \E i \in Ids, a \in Accounts, amt \in Amounts : AccrueInterest(i, a, amt)

Next == RecordNext \/ TransferNext \/ EntityNext \/ AnyEndpoint

Spec == Init /\ [][Next]_vars

\* The same changes, each through the endpoint of its kind: the generic PATCH
\* and the bulk deletion on plain movements, PATCH transfers on transfers.
OwnEndpoint ==
  \/ \E i \in Ids, d \in Draft : ~Grouped(i) /\ Update(i, d)
  \/ \E S \in SUBSET {i \in Ids : ~Grouped(i)} : SoftDeleteMany(S)
  \/ \E i \in Ids : \E f, s \in Legs(i), amt \in PositiveAmounts \cup {Keep},
        obj \in Objectives \cup {None, Keep} :
       Grouped(i) /\ UpdateTransfer(i, f, s, amt, obj)

CarefulNext == RecordNext \/ TransferNext \/ EntityNext \/ OwnEndpoint

CarefulSpec == Init /\ [][CarefulNext]_vars

-----------------------------------------------------------------------------
(***************************************************************************)
(* Properties.                                                             *)
(***************************************************************************)
\* Every variable has its type: rows carry known links, balances are integers.
TypeOK ==
  /\ rec \in [Ids -> Record \cup {None}]
  /\ pay \in [PayIds -> Payment \cup {None}]
  /\ bal \in [Entities -> Int]
  /\ done \in [Objectives -> BOOLEAN]
  /\ target \in [Objectives -> Nat]
  /\ closed \subseteq Entities

\* No orphans (softDelete 495-496, softDeleteMany 530-531): whatever sequence
\* of creations, PATCHes, clones and single or bulk deletions ran, a leg that
\* debits an account is stored together with its one counterpart, and a leg
\* that credits an account with the leg that debits.
PairsWhole ==
  \A i \in Ids : Grouped(i) =>
    /\ rec[i].origin # None =>
         \E j \in Ids : /\ Legs(i) = {i, j}
                        /\ rec[j].origin = None
    /\ rec[i].dest # None =>
         \E j \in Ids : /\ Legs(i) = {i, j}
                        /\ rec[j].origin # None /\ rec[j].dest = None

\* NEGATIVE_BALANCE_NOT_ALLOWED (applyToEntity 1020): no movement, transfer,
\* revert or bulk adjustment leaves an account it touched below zero; only a
\* PATCH of the account itself can write a negative balance.
PostingsKeepSolvent ==
  [][\A a \in Accounts :
       bal'[a] # bal[a] =>
         bal'[a] >= 0 \/ \E v \in SetValues : SetBalance(a, v)]_vars

\* A soft-deleted account, asset, liability or goal keeps the balance it had,
\* whatever later happens to the movements linked to it (applyToEntity returns
\* early on a row it does not find).
ClosedFrozen ==
  [][\A e \in closed : /\ e \in closed'
                       /\ bal'[e] = bal[e]
                       /\ e \in Objectives => done'[e] = done[e]]_vars

\* applyCompletion is the single point of truth of is_completed: whenever a
\* request changes a goal's balance or target, the goal is completed exactly if
\* it reached its target, unless that request set is_completed itself.
CompletionFollowsBalance ==
  [][\A o \in Objectives :
       \/ bal'[o] = bal[o] /\ target'[o] = target[o]
       \/ done'[o] = Reached(target'[o], bal'[o])
       \/ \E t \in Targets \cup {Keep}, b \in (SetValues \cap Nat) \cup {Keep} :
            UpdateObjective(o, t, b, done'[o])]_vars

\* The sign with which a stored row counts in a balance.
Effect(r, e) == IF r.group # None THEN LegSign(r, e) ELSE LinkSign(r, e)

\* The rows of R that enter the balance of e with a sign.
Entering(R, e, sign) == {i \in Ids : R[i] # None /\ Effect(R[i], e) = sign}

\* What stored movements R and stored payments P add up to for a balance.
PostedBy(R, e) == Sum(Entering(R, e, 1), AmountsOf(R))
                    - Sum(Entering(R, e, -1), AmountsOf(R))
PaidBy(P, e) == Sum({p \in PayIds : P[p] # None /\ P[p].objective = e},
                    AmountsOf(P))

Stored(e) == PostedBy(rec, e) + PaidBy(pay, e)

\* applyLinkAdjustments (961-965) and its transfer counterpart: a request moves
\* an open balance by exactly what it changed in the sum of the movements and
\* payments stored for it, so that no sequence of creations, edits, clones,
\* transfers, payments and deletions makes the balance drift from its movements.
\* Only a PATCH of the linked row itself writes a balance by hand.
Conservation ==
  [][\A e \in Entities \ closed :
       \/ bal'[e] - bal[e] = Stored(e)' - Stored(e)
       \/ \E v \in SetValues : SetBalance(e, v)
       \/ \E t \in Targets \cup {Keep}, b \in SetValues \cap Nat,
             c \in BOOLEAN \cup {Keep} : UpdateObjective(e, t, b, c)]_vars

\* Both legs of a transfer carry the same amount.
LegsAgree ==
  \A i, j \in Ids :
    Grouped(i) /\ Grouped(j) /\ rec[i].group = rec[j].group =>
      rec[i].amount = rec[j].amount

-----------------------------------------------------------------------------
(***************************************************************************)
(* A claim of the repository's comments that the code does not keep.       *)
(***************************************************************************)
Moved(e) == bal'[e] - bal[e]
Explained(e) == Stored(e)' - Stored(e)

\* softDeleteMany 512: the linked balances are adjusted, a transfer's too.
BulkRevertsBalances ==
  [][\A S \in SUBSET Ids : SoftDeleteMany(S) =>
       \A e \in Entities \ closed : Moved(e) = Explained(e)]_vars
=============================================================================

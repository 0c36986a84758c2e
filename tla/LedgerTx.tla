------------------------------ MODULE LedgerTx ------------------------------
(***************************************************************************)
(* The requests of Ledger as the database sees them: several workers, each *)
(* running one request as a sequence of statements inside a READ COMMITTED *)
(* transaction.                                                            *)
(*                                                                         *)
(* A request loads its movements before its transaction begins, so its     *)
(* plan of statements is fixed by rows that may have changed when it runs. *)
(* A balance is read by one statement (findOneBy) and written by another   *)
(* (save), as an absolute value.  Nothing is locked by reading; a row that *)
(* was written stays locked until its transaction ends.                    *)
(*                                                                         *)
(* Goals, assets, payments, bulk deletions and clones are left to Ledger.  *)
(***************************************************************************)
EXTENDS Integers, FiniteSets, Sequences

CONSTANTS
  Workers,       \* requests in progress at the same time
  Accounts, Liabilities, Ids, Types, SetValues, MaxBalance, None, Keep,
  Links,         \* what plain movements are linked to, None for no link
  MoveAmounts,   \* the amounts plain movements carry
  TransferAmounts, \* the amounts transfers carry
  Patched        \* the accounts and liabilities that receive PATCH requests

Entities == Accounts \cup Liabilities
Amounts == MoveAmounts \cup TransferAmounts

VARIABLES
  rec,    \* rec[i]: the committed version of a movement, or None
  bal,    \* the committed balances
  plan,   \* plan[w]: the statements request w has still to run, <<>> when idle
  saw,    \* saw[w]: what the SELECT of a read-modify-write returned, or None
  rows,   \* rows[w]: the versions of movements w wrote and did not commit
  bals,   \* bals[w]: the balances w wrote and did not commit
  seen,   \* seen[w]: the movements and balances request w has read so far
  stale   \* the requests that read something another request has since changed

vars == <<rec, bal, plan, saw, rows, bals, seen, stale>>

\* The rows that queries with deleted_at IS NULL return.
LiveRows == [i \in Ids |-> IF rec[i] = None \/ rec[i].gone THEN None
                                                           ELSE rec[i].row]

Nowhere == [x \in {} |-> None]

L == INSTANCE Ledger WITH
       Objectives <- {}, Assets <- {}, PayIds <- {}, Targets <- {},
       rec <- LiveRows, bal <- bal,
       pay <- Nowhere, done <- Nowhere, target <- Nowhere, closed <- {}

ASSUME LedgerTxAssumption ==
  /\ Types \subseteq {"income", "expense", "investment"}
  /\ Amounts \subseteq Nat \ {0}
  /\ SetValues \subseteq Nat
  /\ MaxBalance \in Nat
  /\ IsFiniteSet(Ids)
  /\ Accounts \cap Liabilities = {}
  /\ Entities \cap Ids = {}
  /\ None \notin Entities \cup Ids
  /\ Keep \notin Amounts
  /\ Patched \subseteq Entities
  /\ Links \subseteq Entities \cup {None}

Draft == [type: Types, amount: MoveAmounts,
          patrimony: Links, objective: {None}]

\* A stored movement: its columns, and whether deleted_at is set.
Version == [row: L!Record, gone: BOOLEAN]

\* NULL is not a row.
ASSUME VersionAssumption == None \notin Version \cup L!Record

\* The statements of a plan.
Save(i, r)    == [op |-> "save", id |-> i, row |-> r]
Remove(i)     == [op |-> "remove", id |-> i]
Adjust(e, n)  == [op |-> "adjust", entity |-> e, delta |-> n]
Patch(e, v, b) == [op |-> "patch", entity |-> e, value |-> v, byHand |-> b]
Finish        == [op |-> "commit"]

-----------------------------------------------------------------------------
(***************************************************************************)
(* What a statement of w sees, what it locks and whom it waits for.        *)
(***************************************************************************)
Idle(w) == plan[w] = <<>>
Now(w)  == Head(plan[w])
Doing(w, op) == ~Idle(w) /\ Now(w).op = op

\* READ COMMITTED: one's own writes, and what others have committed by now.
RowSeen(w, i)     == IF i \in DOMAIN rows[w] THEN rows[w][i] ELSE rec[i]
BalanceSeen(w, e) == IF e \in DOMAIN bals[w] THEN bals[w][e] ELSE bal[e]

\* A save updates nothing when no column differs; a balance that an account
\* is given is encrypted anew and always differs.
Writes(p) == (p.byHand /\ p.entity \in Accounts) \/ p.value # bal[p.entity]

\* The row the next statement of w updates, if it is an UPDATE.
Target(w) ==
  CASE Doing(w, "save") /\ saw[w] # None   -> {Now(w).id}
    [] Doing(w, "remove")                  -> {Now(w).id}
    [] Doing(w, "adjust") /\ saw[w] # None -> {Now(w).entity}
    [] Doing(w, "patch") /\ Writes(Now(w)) -> {Now(w).entity}
    [] OTHER -> {}

Locks(w) == DOMAIN rows[w] \cup DOMAIN bals[w]
Holders(w) == {v \in Workers \ {w} : Target(w) \cap Locks(v) # {}}
Free(w) == Holders(w) = {}

Put(f, k, v) == [x \in DOMAIN f \cup {k} |-> IF x = k THEN v ELSE f[x]]

Advance(w) == plan' = [plan EXCEPT ![w] = Tail(@)] /\ saw' = [saw EXCEPT ![w] = None]

\* Mutant: the balances a failed request wrote outlive it.
EndOfKeepsBalances(w) ==
  /\ plan' = [plan EXCEPT ![w] = <<>>]
  /\ saw'  = [saw EXCEPT ![w] = None]
  /\ rows' = [rows EXCEPT ![w] = Nowhere]
  /\ seen' = [seen EXCEPT ![w] = {}]
  /\ UNCHANGED bals

\* The request of w ends and its uncommitted writes are gone.
EndOf(w) ==
  /\ plan' = [plan EXCEPT ![w] = <<>>]
  /\ saw'  = [saw EXCEPT ![w] = None]
  /\ rows' = [rows EXCEPT ![w] = Nowhere]
  /\ bals' = [bals EXCEPT ![w] = Nowhere]
  /\ seen' = [seen EXCEPT ![w] = {}]

\* Whoever has read one of these rows now holds an old value of it.
Outdates(w, changed) ==
  stale' = {v \in Workers \ {w} : v \in stale \/ seen[v] \cap changed # {}}

-----------------------------------------------------------------------------
(***************************************************************************)
(* The statements.                                                         *)
(***************************************************************************)
\* save() of an entity with an id first selects the stored row.
SelectRow(w) ==
  /\ Doing(w, "save") /\ saw[w] = None
  /\ RowSeen(w, Now(w).id) # None
  /\ saw' = [saw EXCEPT ![w] = RowSeen(w, Now(w).id)]
  /\ seen' = [seen EXCEPT ![w] = @ \cup {Now(w).id}]
  /\ UNCHANGED <<rec, bal, plan, rows, bals, stale>>

\* ... and then updates the columns in which it differs from the entity; the
\* entity was loaded alive, so deleted_at is one of them when it is set.
Overlay(want, old, now) ==
  [row  |-> [c \in DOMAIN now.row |-> IF want[c] # old.row[c] THEN want[c]
                                                             ELSE now.row[c]],
   gone |-> now.gone /\ ~old.gone]

UpdateRow(w) ==
  /\ Doing(w, "save") /\ saw[w] # None /\ Free(w)
  /\ LET i == Now(w).id
     IN  rows' = [rows EXCEPT ![w] =
                    Put(@, i, Overlay(Now(w).row, saw[w], RowSeen(w, i)))]
  /\ Advance(w)
  /\ UNCHANGED <<rec, bal, bals, seen, stale>>

InsertRow(w) ==
  /\ Doing(w, "save") /\ RowSeen(w, Now(w).id) = None
  /\ rows' = [rows EXCEPT ![w] =
                Put(@, Now(w).id, [row |-> Now(w).row, gone |-> FALSE])]
  /\ Advance(w)
  /\ UNCHANGED <<rec, bal, bals, seen, stale>>

\* softRemove sets deleted_at, whether it is set already or not.
SoftRemoveRow(w) ==
  /\ Doing(w, "remove") /\ Free(w)
  /\ LET i == Now(w).id
     IN  rows' = [rows EXCEPT ![w] = Put(@, i, [RowSeen(w, i) EXCEPT !.gone = TRUE])]
  /\ Advance(w)
  /\ UNCHANGED <<rec, bal, bals, seen, stale>>

\* applyToEntity: findOneBy ...
ReadBalance(w) ==
  /\ Doing(w, "adjust") /\ saw[w] = None
  /\ saw' = [saw EXCEPT ![w] = [balance |-> BalanceSeen(w, Now(w).entity)]]
  /\ seen' = [seen EXCEPT ![w] = @ \cup {Now(w).entity}]
  /\ UNCHANGED <<rec, bal, plan, rows, bals, stale>>

\* Mutant: the balance that is checked is the one before the adjustment.
AllowedBefore(e, b, n) ==
  /\ e \in Accounts => b >= 0
  /\ b + n \in -MaxBalance .. MaxBalance

Allowed(e, b, n) ==
  /\ e \in Accounts => b + n >= 0
  /\ b + n \in -MaxBalance .. MaxBalance

\* ... then save, which writes the value computed from what was read.
WriteBalance(w) ==
  /\ Doing(w, "adjust") /\ saw[w] # None /\ Free(w)
  /\ LET e == Now(w).entity
         n == Now(w).delta
     IN  /\ Allowed(e, saw[w].balance, n)
         /\ bals' = [bals EXCEPT ![w] = Put(@, e, saw[w].balance + n)]
  /\ Advance(w)
  /\ UNCHANGED <<rec, bal, rows, seen, stale>>

\* Mutant: the error leaves the transaction open.
RefuseAndHang(w) ==
  /\ Doing(w, "adjust") /\ saw[w] # None
  /\ ~Allowed(Now(w).entity, saw[w].balance, Now(w).delta)
  /\ UNCHANGED vars

\* NEGATIVE_BALANCE_NOT_ALLOWED, or a value the column cannot hold: rollback.
Refuse(w) ==
  /\ Doing(w, "adjust") /\ saw[w] # None
  /\ ~Allowed(Now(w).entity, saw[w].balance, Now(w).delta)
  /\ EndOf(w)
  /\ stale' = stale \ {w}
  /\ UNCHANGED <<rec, bal>>

Commit(w) ==
  /\ Doing(w, "commit")
  /\ rec' = [i \in Ids |-> IF i \in DOMAIN rows[w] THEN rows[w][i] ELSE rec[i]]
  /\ bal' = [e \in Entities |-> IF e \in DOMAIN bals[w] THEN bals[w][e] ELSE bal[e]]
  /\ EndOf(w)
  /\ Outdates(w, Locks(w))

\* A PATCH of an account or liability saves the entity it loaded, the balance
\* in it included when another request has changed it meanwhile; the save is a
\* transaction of its own.
SavePatch(w) ==
  /\ Doing(w, "patch") /\ Free(w)
  /\ bal' = [bal EXCEPT ![Now(w).entity] = Now(w).value]
  /\ EndOf(w)
  /\ Outdates(w, IF bal'= bal THEN {} ELSE {Now(w).entity})
  /\ UNCHANGED rec

\* The process stops or loses its connection: the database rolls back.
Crash(w) ==
  /\ ~Idle(w)
  /\ EndOf(w)
  /\ stale' = stale \ {w}
  /\ UNCHANGED <<rec, bal>>

\* PostgreSQL aborts one of the requests that wait for each other in a circle.
Victim(w) ==
  /\ \E S \in SUBSET Workers : /\ w \in S
                               /\ S = UNION {Holders(v) : v \in S}
                               /\ \A v \in S : Holders(v) # {}
  /\ EndOf(w)
  /\ stale' = stale \ {w}
  /\ UNCHANGED <<rec, bal>>
-----------------------------------------------------------------------------
(***************************************************************************)
(* The requests: what each loads and the statements it will run.           *)
(***************************************************************************)
Begin(w, statements, loaded) ==
  /\ Idle(w)
  /\ plan' = [plan EXCEPT ![w] = statements]
  /\ seen' = [seen EXCEPT ![w] = loaded]
  /\ UNCHANGED <<rec, bal, saw, rows, bals, stale>>

\* An id the sequence of the table has not given out.
Fresh(i) ==
  /\ rec[i] = None
  /\ \A v \in Workers : \A k \in 1 .. Len(plan[v]) :
       plan[v][k].op = "save" => plan[v][k].id # i
  /\ \A v \in Workers : i \notin DOMAIN rows[v]

Nudge(e, n) == IF e = None \/ n = 0 THEN <<>> ELSE <<Adjust(e, n)>>

\* contribution() of a plain movement to the balance it is linked to.
Own(r) == L!LinkSign(r, r.patrimony) * r.amount

\* Mutant: a new link is credited without taking back the previous one.
LinkMovesNewOnly(old, new) ==
  IF old.patrimony = new.patrimony
  THEN Nudge(new.patrimony, Own(new) - Own(old))
  ELSE Nudge(new.patrimony, Own(new))

\* applyLinkAdjustments: the net adjustment of each balance, the previous
\* link first.
LinkMoves(old, new) ==
  IF old.patrimony = new.patrimony
  THEN Nudge(new.patrimony, Own(new) - Own(old))
  ELSE Nudge(old.patrimony, -Own(old)) \o Nudge(new.patrimony, Own(new))

\* applyTransferAdjustment with its sign.
LegMoves(r, sign) ==
  Nudge(r.origin, -r.amount * sign) \o Nudge(r.dest, r.amount * sign)
    \o Nudge(r.patrimony, -r.amount * sign)

Create(w, i, d) ==
  /\ Fresh(i)
  /\ Begin(w, <<Save(i, L!PlainRow(d))>> \o LinkMoves(L!NoLeg, L!PlainRow(d))
                \o <<Finish>>, {})

Update(w, i, d) ==
  /\ LiveRows[i] # None /\ ~L!Grouped(i)
  /\ LET new == L!Merged(LiveRows[i], d)
     IN  Begin(w, <<Save(i, new)>> \o LinkMoves(LiveRows[i], new) \o <<Finish>>, {i})

SoftDelete(w, i) ==
  /\ LiveRows[i] # None /\ ~L!Grouped(i)
  /\ Begin(w, <<Remove(i)>> \o LinkMoves(LiveRows[i], L!NoLeg) \o <<Finish>>, {i})

CreateTransfer(w, i, j, src, dst, amt) ==
  /\ i # j /\ Fresh(i) /\ Fresh(j)
  /\ LET o == L!Leg(amt, src, None, None, None, i)
         d == IF dst \in Accounts THEN L!Leg(amt, None, dst, None, None, i)
                                  ELSE L!Leg(amt, None, None, dst, None, i)
     IN  Begin(w, <<Save(i, o), Save(j, d)>> \o LegMoves(o, 1) \o LegMoves(d, 1)
                    \o <<Finish>>, {})

\* The statements of a loop over the legs, first the origin.
ForLegs(f, s, Each(_)) == IF f = s THEN Each(f) ELSE Each(f) \o Each(s)

UpdateTransfer(w, i, f, s, amt) ==
  /\ L!Grouped(i) /\ L!InOrder(i, f, s)
  /\ LET Revert(k) == LegMoves(LiveRows[k], -1)
         Apply(k) == LET new == [LiveRows[k] EXCEPT !.amount = amt]
                     IN  <<Save(k, new)>> \o LegMoves(new, 1)
     IN  Begin(w, ForLegs(f, s, Revert) \o ForLegs(f, s, Apply) \o <<Finish>>,
               {f, s})

\* Mutant: the balances are not adjusted when a transfer is deleted.
SoftDeleteTransferRowsOnly(w, i, f, s) ==
  /\ L!Grouped(i) /\ L!InOrder(i, f, s)
  /\ LET Drop(k) == <<Remove(k)>>
     IN  Begin(w, ForLegs(f, s, Drop) \o <<Finish>>, {f, s})

SoftDeleteTransfer(w, i, f, s) ==
  /\ L!Grouped(i) /\ L!InOrder(i, f, s)
  /\ LET Drop(k) == LegMoves(LiveRows[k], -1) \o <<Remove(k)>>
     IN  Begin(w, ForLegs(f, s, Drop) \o <<Finish>>, {f, s})

\* PATCH of an account or liability, with a balance in its body or without.
PatchBalance(w, e, v) == Begin(w, <<Patch(e, v, TRUE)>>, {e})
PatchOther(w, e)      == Begin(w, <<Patch(e, bal[e], FALSE)>>, {e})

-----------------------------------------------------------------------------
Init ==
  /\ rec = [i \in Ids |-> None]
  /\ bal \in [Entities -> SetValues]
  /\ plan = [w \in Workers |-> <<>>]
  /\ saw = [w \in Workers |-> None]
  /\ rows = [w \in Workers |-> Nowhere]
  /\ bals = [w \in Workers |-> Nowhere]
  /\ seen = [w \in Workers |-> {}]
  /\ stale = {}

Movement(w) ==
  \/ \E i \in Ids, d \in Draft : Create(w, i, d)
  \/ \E i \in Ids, d \in Draft : Update(w, i, d)
  \/ \E i \in Ids : SoftDelete(w, i)

Transfer(w) ==
  \/ \E i, j \in Ids, src \in Accounts, dst \in Entities,
        amt \in TransferAmounts :
       CreateTransfer(w, i, j, src, dst, amt)
  \/ \E i \in Ids : \E f, s \in L!Legs(i), amt \in TransferAmounts :
       UpdateTransfer(w, i, f, s, amt)
  \/ \E i \in Ids : \E f, s \in L!Legs(i) : SoftDeleteTransfer(w, i, f, s)

PatchEntity(w) ==
  \/ \E e \in Patched, v \in SetValues : PatchBalance(w, e, v)
  \/ \E e \in Patched : PatchOther(w, e)

Request(w) == Movement(w) \/ Transfer(w) \/ PatchEntity(w)

Statement(w) ==
  \/ SelectRow(w)
  \/ UpdateRow(w)
  \/ InsertRow(w)
  \/ SoftRemoveRow(w)
  \/ ReadBalance(w)
  \/ WriteBalance(w)
  \/ Refuse(w)
  \/ Commit(w)
  \/ SavePatch(w)

Next == \E w \in Workers : Request(w) \/ Statement(w) \/ Crash(w) \/ Victim(w)

Spec == Init /\ [][Next]_vars

\* A request that can run its next statement runs it; one whose row is locked
\* is served in turn, so it is not passed over for ever; a deadlock is noticed.
Fairness == \A w \in Workers : SF_vars(Statement(w)) /\ WF_vars(Victim(w))

FairSpec == Spec /\ Fairness
\* What a request has read, written or is going to touch.
Footprint(w) ==
  LET keys == {CASE plan[w][k].op \in {"save", "remove"}  -> {plan[w][k].id}
                 [] plan[w][k].op \in {"adjust", "patch"} -> {plan[w][k].entity}
                 [] OTHER -> {} : k \in 1 .. Len(plan[w])}
  IN  (UNION keys) \cup Locks(w) \cup seen[w]

\* No two requests in progress touch the same movement or balance.
Apart == \A v, w \in Workers : v # w => Footprint(v) \cap Footprint(w) = {}

ApartSpec == Init /\ [][Next /\ Apart']_vars

-----------------------------------------------------------------------------
(***************************************************************************)
(* Properties.                                                             *)
(***************************************************************************)
Statements ==
  [op: {"save"}, id: Ids, row: L!Record]
    \cup [op: {"remove"}, id: Ids]
    \cup [op: {"adjust"}, entity: Entities, delta: Int]
    \cup [op: {"patch"}, entity: Entities, value: Int, byHand: BOOLEAN]
    \cup [op: {"commit"}]

\* Every variable has its type.
TypeOK ==
  /\ rec \in [Ids -> Version \cup {None}]
  /\ bal \in [Entities -> Int]
  /\ plan \in [Workers -> Seq(Statements)]
  /\ saw \in [Workers -> Version \cup [balance: Int] \cup {None}]
  /\ \A w \in Workers :
       /\ DOMAIN rows[w] \subseteq Ids /\ rows[w] \in [DOMAIN rows[w] -> Version]
       /\ DOMAIN bals[w] \subseteq Entities /\ bals[w] \in [DOMAIN bals[w] -> Int]
  /\ seen \in [Workers -> SUBSET (Ids \cup Entities)]
  /\ stale \subseteq Workers

\* NEGATIVE_BALANCE_NOT_ALLOWED (applyToEntity 1020) holds under any
\* interleaving: stale reads may lose a movement, but no two requests that each
\* passed the check overdraw an account together.
NeverOverdrawn == \A a \in Accounts : bal[a] >= 0

\* No orphans (softDelete 495-496) under races: an edit and a deletion of one
\* transfer leave both legs or none, although the edit may bring a deleted
\* transfer back, and two edits leave the amount of one of them on both legs.
\* Each begins with the balance of the origin account, whose row lock keeps
\* their writes to the legs from interleaving.
RacingTransfersWhole == L!PairsWhole /\ L!LegsAgree

\* A request that read nothing another one has changed since moves every
\* balance by exactly what it changed in the stored movements: stale reads are
\* the only way in which the books drift.
FreshCommitsConserve ==
  [][\A w \in Workers : Commit(w) /\ w \notin stale =>
       \A e \in Entities : bal'[e] - bal[e] = L!Stored(e)' - L!Stored(e)]_vars

\* Every request ends, committed or rolled back: row locks are released by
\* whoever holds them, and a circle of waiting requests is broken.
RequestsEnd == \A w \in Workers : ~Idle(w) ~> Idle(w)

\* Requests that touch different rows behave like the serial requests of
\* Ledger, each happening at the moment it commits.
SerialWhenApart == L!CarefulSpec

(***************************************************************************)
(* Claims of the repository's comments that the code does not keep.        *)
(***************************************************************************)
\* applyLinkAdjustments 962-965: the balances are adjusted atomically together
\* with the movement, reverting the previous effect and applying the new one.
AdjustsAtomically ==
  [][\A w \in Workers : Commit(w) =>
       \A e \in Entities : bal'[e] - bal[e] = L!Stored(e)' - L!Stored(e)]_vars
=============================================================================

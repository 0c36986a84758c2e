----------------------------- MODULE CashCount -----------------------------
(***************************************************************************)
(* Cash counts (arqueos): the reconciliation of a month, which sets the    *)
(* movements of the user against those of bank statements, and the counts  *)
(* that are stored with it.  Counting reads the movements and stores the   *)
(* row in two calls; movements are recorded at any time.                   *)
(*                                                                         *)
(* Amounts are in thousandths: columns keep hundredths, requests are not   *)
(* limited to them.                                                        *)
(***************************************************************************)
EXTENDS Integers, FiniteSetsExt, Bags, BagsExt

CONSTANTS
  Types,        \* the types of movements
  Prints,       \* fingerprints: records [inMonth, amount, text]
  Counted,      \* amounts of cash that are counted
  Expectations, \* amounts given as expected, and Omitted
  MaxRecords,   \* movements, at most
  Omitted

VARIABLES
  register,     \* the movements, a bag of [type, print, source, early]
  matching,     \* the reconciliation of a count that is being stored, or Omitted
  arqueo        \* the stored count, or Omitted

cashVars == <<register, matching, arqueo>>

\* source is import for what statements brought; early says that the row was created
\* before the month began.
Movement == [type: Types, print: Prints, source: {"manual", "import"}, early: BOOLEAN]

\* The rows the query finds: a partition is left out by when a row was created.
InMonth == {m \in BagToSet(register) : m.print.inMonth /\ ~m.early}

\* Transfers are passed over; whatever is no income is taken for an expense.
Of(source) == {m \in InMonth : m.type # "transfer" /\ m.source = source}

Amount(S) == MapThenSumSet(LAMBDA m : m.print.amount * register[m], S)

Totals(S) ==
  LET income == Amount({m \in S : m.type = "income"})
      expense == Amount({m \in S : m.type # "income"})
  IN  [count |-> MapThenSumSet(LAMBDA m : register[m], S),
       income |-> income, expense |-> expense, net |-> income - expense]

\* A map by fingerprint keeps the first of equal ones; the type is no part of it.
PrintsOf(S) == {m.print : m \in S}
Group(P) == [count |-> Cardinality(P), amount |-> MapThenSumSet(LAMBDA p : p.amount, P)]

Reconciliation ==
  LET app == Of("manual")
      extract == Of("import")
      appPrints == PrintsOf(app)
      extractPrints == PrintsOf(extract)
  IN  [app |-> Totals(app), extract |-> Totals(extract),
       matched |-> Group(appPrints \cap extractPrints),
       appOnly |-> Group(appPrints \ extractPrints),
       extractOnly |-> Group(extractPrints \ appPrints),
       expected |-> IF extract # {} THEN Totals(extract).net ELSE Totals(app).net]

\* numeric(15, 2) rounds halves away from zero.
Kept(x) == IF x >= 0 THEN ((x + 5) \div 10) * 10 ELSE -((((-x) + 5) \div 10) * 10)

\* The row of a count: its status is of the difference before it is rounded.
Stored(counted, given, reconciliation) ==
  LET expected == IF given # Omitted THEN given ELSE reconciliation.expected
      difference == counted - expected
  IN  [counted |-> Kept(counted), expected |-> Kept(expected),
       difference |-> Kept(difference),
       status |-> IF difference < 5 /\ difference > -5 THEN "balanced" ELSE "unbalanced",
       reconciliation |-> reconciliation]
-----------------------------------------------------------------------------
Init == register = EmptyBag /\ matching = Omitted /\ arqueo = Omitted

Record(m) ==
  /\ BagCardinality(register) < MaxRecords
  /\ register' = BagAdd(register, m)
  /\ UNCHANGED <<matching, arqueo>>

\* create of the service: the reconciliation first.
Reconcile ==
  /\ matching = Omitted /\ arqueo = Omitted
  /\ matching' = Reconciliation
  /\ UNCHANGED <<register, arqueo>>

Store(counted, given) ==
  /\ matching # Omitted
  /\ arqueo' = Stored(counted, given, matching)
  /\ matching' = Omitted
  /\ UNCHANGED register

Discard ==
  /\ arqueo # Omitted
  /\ arqueo' = Omitted
  /\ UNCHANGED <<register, matching>>

Next ==
  \/ \E m \in Movement : Record(m)
  \/ Reconcile
  \/ \E counted \in Counted, given \in Expectations : Store(counted, given)
  \/ Discard

Spec == Init /\ [][Next]_cashVars
-----------------------------------------------------------------------------
Magnitude(x) == IF x < 0 THEN -x ELSE x
Single(S) == \A m \in S : register[m] = 1 /\ \A n \in S : m.print = n.print => m = n

\* Reconciliation: what is only on one side explains why the sides differ, when
\* no two movements of a side look the same and all are incomes or none is.  No
\* more movements are compared than there are.
SidesExplained ==
  LET r == Reconciliation
      S == Of("manual")
      T == Of("import")
  IN  /\ r.matched.count + r.appOnly.count <= r.app.count
      /\ r.matched.count + r.extractOnly.count <= r.extract.count
      /\ Single(S) /\ Single(T) =>
           /\ r.matched.count + r.appOnly.count = r.app.count
           /\ r.matched.count + r.extractOnly.count = r.extract.count
           /\ (\A m \in S \cup T : m.type = "income") =>
                r.app.net - r.extract.net = r.appOnly.amount - r.extractOnly.amount
           /\ (\A m \in S \cup T : m.type # "income") =>
                r.app.net - r.extract.net = r.extractOnly.amount - r.appOnly.amount

\* Stored: a count is balanced exactly when the difference that is kept is zero, and
\* the amounts that are kept differ by it, to a hundredth that rounding may add.
CountsConsistent ==
  arqueo # Omitted =>
    /\ arqueo.status = "balanced" <=> arqueo.difference = 0
    /\ Magnitude(arqueo.difference - (arqueo.counted - arqueo.expected)) <= 10

\* What the cash count says of one month is consistent.
CashAgrees == SidesExplained /\ CountsConsistent
=============================================================================

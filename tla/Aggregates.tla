----------------------------- MODULE Aggregates -----------------------------
(***************************************************************************)
(* What the movements of a user are summed up to: the four tables of       *)
(* getSummary, each from a grouped query of its own and folded again by    *)
(* category and by interval; the ratios, the insights and the narrative of *)
(* a period; and the obligation to file a tax return.                      *)
(*                                                                         *)
(* The movements are chosen one by one and every question is asked of      *)
(* every set of them.  Amounts are whole; a ratio is in hundredths of a    *)
(* percent, as round2 leaves it.                                           *)
(***************************************************************************)
EXTENDS Integers, Sequences, FiniteSets, FiniteSetsExt, SequencesExt

CONSTANTS
  Kinds,       \* the types of movements
  Sizes,       \* the amounts
  Tags,        \* what a movement is filed under: records [category, company]
  Days,        \* the days on which movements happen
  From, To,    \* the range that is asked for
  Profiles,    \* financial profiles: records [needs, wants, savings, maxDebt]
  Debts,       \* what the user owes
  Goals,       \* lists of goals: records [completed, daysLeft, percent]
  Uvts,        \* values of the tax unit
  IncomeLimit, WealthLimit,  \* the thresholds, in tax units
  MaxMovements,\* how many movements there are
  None         \* no filter, no category, no company

VARIABLES
  filed,   \* the movements, in the order of their days
  answer   \* what the last question was answered, or None

avars == <<filed, answer>>

Round(n, d) == (2 * n + d) \div (2 * d)   \* Math.round(n / d), d > 0
-----------------------------------------------------------------------------
(* getSummary.                                                              *)

Filtered(type) ==
  {i \in DOMAIN filed : /\ filed[i].day >= From /\ filed[i].day <= To
                        /\ type \in {None, filed[i].type}}

AmountOf(S) == MapThenSumSet(LAMBDA i : filed[i].amount, S)

\* SELECT key, type, SUM(amount), COUNT(*) ... GROUP BY key, type; key gives the key of
\* each movement.
Grouped(S, key) ==
  {LET same == {j \in S : key[j] = key[i] /\ filed[j].type = filed[i].type}
   IN  [key |-> key[i], type |-> filed[i].type,
        amount |-> AmountOf(same), count |-> Cardinality(same)] : i \in S}

\* Adds a row of a grouped query to an entry; transfers are passed over.
Credited(entry, row) ==
  [entry EXCEPT !.income = @ + (IF row.type = "income" THEN row.amount ELSE 0),
                !.expenses = @ + (IF row.type = "expense" THEN row.amount ELSE 0),
                !.investments = @ + (IF row.type = "investment" THEN row.amount ELSE 0),
                !.count = @ + row.count]

Nothing == [income |-> 0, expenses |-> 0, investments |-> 0, count |-> 0]

\* The map from keys to entries that the loops over rows build.
Folded(rows) ==
  [k \in {r.key : r \in {q \in rows : q.type # "transfer"}} |->
     FoldSet(LAMBDA r, e : Credited(e, r), Nothing,
             {r \in rows : r.key = k /\ r.type # "transfer"})]

Totals(type) ==
  FoldSet(LAMBDA r, e : IF r.type = "transfer" THEN e ELSE Credited(e, r), Nothing,
          Grouped(Filtered(type), [i \in DOMAIN filed |-> None]))

ByCategory(type) ==
  Folded(Grouped(Filtered(type), [i \in DOMAIN filed |-> filed[i].category]))

\* DATE_TRUNC: days for themselves, months for what month names them.
Bucket(day, by) == IF by = "day" THEN day ELSE day \div 30

Series(type, by) ==
  Folded(Grouped(Filtered(type), [i \in DOMAIN filed |-> Bucket(filed[i].day, by)]))

\* The query of companies is meant for the expenses that have one.  where()
\* drops the conditions set before it, so that only the filters remain: a
\* company, or none, gets every amount of its movements, transfers too.
ByCompany(type) ==
  LET S == Filtered(type)
      all == Totals(type).expenses
  IN  [k \in {filed[i].company : i \in S} |->
        LET amount == AmountOf({i \in S : filed[i].company = k})
        IN  [expenses |-> amount,
             percent |-> IF all > 0 THEN Round(amount * 10000, all) ELSE 0]]

GetSummary(type, by) ==
  [kind |-> "summary", type |-> type, totals |-> Totals(type),
   categories |-> ByCategory(type), series |-> Series(type, by),
   companies |-> ByCompany(type)]
-----------------------------------------------------------------------------
(* The summary of a period.                                                 *)

\* Ratios are none when there is no income.
ComputeRatios(totals, debt, profile) ==
  LET income == totals.income
      Share(x) == IF income > 0 THEN <<Round(x * 10000, income)>> ELSE <<>>
  IN  [expense |-> Share(totals.expenses),
       savings |-> Share(income - totals.expenses),
       debt |-> Share(debt),
       maxExpense |-> income * (profile.needs + profile.wants),
       toSave |-> income * profile.savings,
       overSpending |-> totals.expenses * 100 > income * (profile.needs + profile.wants),
       overIndebted |-> income > 0 /\ Round(debt * 10000, income) > profile.maxDebt * 100]

AtRisk(goals) ==
  SelectSeq(goals, LAMBDA g : ~g.completed /\ g.daysLeft <= 30 /\ g.percent < 80)

BuildInsights(ratios, goals, profile) ==
  (IF ratios.overSpending THEN <<"overspending">> ELSE <<>>) \o
  (IF ratios.overIndebted THEN <<"over_indebted">> ELSE <<>>) \o
  (IF ratios.savings # <<>> /\ ratios.savings[1] < profile.savings * 100
   THEN <<"low_savings">> ELSE <<>>) \o
  [i \in DOMAIN AtRisk(goals) |-> "objective_at_risk"]

\* The paragraph on savings compares amounts, the insight compares rates.
SavingsParagraph(totals, ratios) ==
  IF ratios.savings = <<>> THEN "unknown"
  ELSE IF (totals.income - totals.expenses) * 100 >= ratios.toSave THEN "met" ELSE "below"

\* Distinct actions in the order of the insights, five at most; two of a
\* general kind when there are none.
Recommendations(insights) ==
  IF insights = <<>> THEN 2
  ELSE LET distinct == Cardinality(ToSet(insights)) IN IF distinct > 5 THEN 5 ELSE distinct

Assess(debt, profile, goals) ==
  LET totals == Totals(None)
      ratios == ComputeRatios(totals, debt, profile)
      insights == BuildInsights(ratios, goals, profile)
  IN  [kind |-> "period", debt |-> debt, profile |-> profile, totals |-> totals,
       ratios |-> ratios, insights |-> insights,
       savings |-> SavingsParagraph(totals, ratios),
       alert |-> ratios.overSpending \/ ratios.overIndebted,
       recommended |-> Recommendations(insights)]
-----------------------------------------------------------------------------
(* The tax summary.                                                         *)

\* Amounts in tax units, in hundredths.
InUvt(amount, uvt) == Round(amount * 100, uvt)

MustDeclare(income, assets, uvt) ==
  \/ InUvt(income, uvt) >= IncomeLimit * 100
  \/ InUvt(assets, uvt) >= WealthLimit * 100

\* What is missing: the reads that failed answer no details.
Missing(incomeRead, assetsRead) ==
  (IF incomeRead THEN 0 ELSE 1) + (IF assetsRead THEN 0 ELSE 1)

TaxOf(incomeRead, assetsRead, assets, uvt) ==
  LET income == IF incomeRead THEN Totals("income").income ELSE 0
      owned == IF assetsRead THEN assets ELSE 0
  IN  [kind |-> "tax", income |-> income, assets |-> owned, uvt |-> uvt,
       declare |-> MustDeclare(income, owned, uvt), edited |-> FALSE,
       valid |-> Missing(incomeRead, assetsRead) = 0]

\* A later edit: what the edit does not name stays, and the obligation is
\* computed again unless the edit names it.
TaxEdited(tax, income, declare) ==
  LET total == IF income = None THEN tax.income ELSE income
  IN  [tax EXCEPT !.income = total, !.edited = TRUE,
                  !.declare = IF declare = None THEN MustDeclare(total, tax.assets, tax.uvt)
                              ELSE declare]
-----------------------------------------------------------------------------
Init == filed = <<>> /\ answer = None

File(row) ==
  /\ Len(filed) < MaxMovements
  /\ filed # <<>> => filed[Len(filed)].day <= row.day
  /\ filed' = Append(filed, row)
  /\ answer' = None

AskSummary(type, by) == answer' = GetSummary(type, by) /\ UNCHANGED filed
AskPeriod(debt, profile, goals) == answer' = Assess(debt, profile, goals) /\ UNCHANGED filed
AskTax(incomeRead, assetsRead, assets, uvt) ==
  answer' = TaxOf(incomeRead, assetsRead, assets, uvt) /\ UNCHANGED filed
EditTax(income, declare) ==
  /\ answer # None /\ answer.kind = "tax"
  /\ answer' = TaxEdited(answer, income, declare)
  /\ UNCHANGED filed

Ask ==
  \/ \E t \in Kinds \cup {None}, by \in {"day", "month"} : AskSummary(t, by)
  \/ \E d \in Debts, p \in Profiles, g \in Goals : AskPeriod(d, p, g)
  \/ \E ir, ar \in BOOLEAN, a \in Debts, u \in Uvts : AskTax(ir, ar, a, u)

Next ==
  \/ \E t \in Kinds, n \in Sizes, d \in Days, tag \in Tags :
       File([type |-> t, amount |-> n, day |-> d,
             category |-> tag.category, company |-> tag.company])
  \/ answer = None /\ Ask
  \/ \E n \in Sizes \cup {None}, d \in BOOLEAN \cup {None} : EditTax(n, d)

Spec == Init /\ [][Next]_avars
-----------------------------------------------------------------------------
(* Properties.                                                              *)

\* The movements of one type in the range, straight from the list.
Direct(type, asked) ==
  MapThenSumSet(LAMBDA i : filed[i].amount,
    {i \in DOMAIN filed : /\ filed[i].type = type /\ asked \in {None, type}
                          /\ filed[i].day \in From .. To})

Same(e, f) == /\ e.income = f.income /\ e.expenses = f.expenses
              /\ e.investments = f.investments /\ e.count = f.count

Added(table) ==
  FoldSet(LAMBDA k, e : [income |-> e.income + table[k].income,
                         expenses |-> e.expenses + table[k].expenses,
                         investments |-> e.investments + table[k].investments,
                         count |-> e.count + table[k].count], Nothing, DOMAIN table)

\* The four tables of getSummary are about the same movements: the totals
\* are the sums over the movements, without transfers, and the categories
\* and the intervals add up to them; and the companies, the missing one
\* among them, add up to the expenses when only those are asked for.
TablesAgree ==
  (answer # None /\ answer.kind = "summary") =>
    /\ answer.totals.income = Direct("income", answer.type)
    /\ answer.totals.expenses = Direct("expense", answer.type)
    /\ answer.totals.investments = Direct("investment", answer.type)
    /\ Same(Added(answer.categories), answer.totals)
    /\ Same(Added(answer.series), answer.totals)
    /\ answer.type = "expense" =>
         MapThenSumSet(LAMBDA k : answer.companies[k].expenses, DOMAIN answer.companies)
           = answer.totals.expenses

\* The insights, the alert and the paragraph on savings of one period do not
\* contradict each other: who spends too much under a profile whose ratios
\* make a hundred saves too little, and the rate and the amount saved fall
\* short together, up to the rounding of the rate to hundredths.
NarrativeAgrees ==
  (answer # None /\ answer.kind = "period") =>
    LET p == answer.profile
        low == \E i \in DOMAIN answer.insights : answer.insights[i] = "low_savings"
    IN  /\ answer.ratios.overSpending /\ answer.totals.income > 0
           /\ p.needs + p.wants + p.savings = 100 => answer.savings = "below"
        /\ answer.savings = "met" => ~low
        /\ answer.savings = "below" =>
             low \/ answer.ratios.savings = <<p.savings * 100>>
        /\ answer.alert => answer.insights # <<>>

\* A return that is said not to be due, of a summary that missed nothing
\* and nobody edited, is of a year whose income stays under the threshold.
DueWhenAbove ==
  (answer # None /\ answer.kind = "tax" /\ answer.valid /\ ~answer.edited) =>
    (~answer.declare => Direct("income", None) < IncomeLimit * answer.uvt)

SumsAgree == TablesAgree /\ NarrativeAgrees /\ DueWhenAbove
=============================================================================

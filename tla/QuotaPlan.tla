----------------------------- MODULE QuotaPlan -----------------------------
(***************************************************************************)
(* The savings plan of a goal (calculateQuota): how many payments there    *)
(* are until the end date, how much each is, whether the income affords    *)
(* it; and the progress the goal shows meanwhile.                          *)
(*                                                                         *)
(* Amounts are in cents.  A period is in hundredths of a day, a number of  *)
(* periods per month is a fraction.  The compound interest of the          *)
(* projection is left out: the plan says only which rate it uses.          *)
(***************************************************************************)
EXTENDS Calendar, FiniteSets

CONSTANTS
  Frequencies,  \* how often the user may pay
  Targets, Balances,
  Starts, Ends, \* dates
  Rates,        \* annual rates a request names
  BankAccounts, \* what an account resolves to: records [rate], a rate or Unknown
  SavingsProfiles, \* records [income, ratio], the ratio in percent
  Unknown       \* a field left out, or a column that is null

VARIABLES goal, offer

qvars == <<goal, offer>>

Rounded(n, d) == (2 * n + d) \div (2 * d)
CeilingOf(n, d) == (n + d - 1) \div d
AtLeast(x, y) == IF x >= y THEN x ELSE y

HundredthsOfDay == [daily |-> 100, weekly |-> 700, biweekly |-> 1400,
                    quarterly |-> 9131, yearly |-> 36525]

PerMonth == [daily |-> <<761, 25>>, weekly |-> <<433, 100>>, biweekly |-> <<217, 100>>,
             monthly |-> <<1, 1>>, quarterly |-> <<1, 3>>, yearly |-> <<1, 12>>]
-----------------------------------------------------------------------------
DiffDays(start, end) == DayNumber(end) - DayNumber(start)

\* Mutant: the month that ends on the very day is not counted.
MonthsBetween(start, end) ==
  (end.y - start.y) * 12 + (end.m - start.m) + (IF end.d > start.d THEN 1 ELSE 0)

\* Months are counted in the calendar, and the first and the last one count.
CalendarMonths(start, end) ==
  (end.y - start.y) * 12 + (end.m - start.m) + (IF end.d >= start.d THEN 1 ELSE 0)

TotalPeriods(start, end, frequency) ==
  AtLeast(1,
    IF frequency = "monthly" THEN CalendarMonths(start, end)
    ELSE CeilingOf(DiffDays(start, end) * 100, HundredthsOfDay[frequency]))

AmountToSave(g) == AtLeast(0, g.target - g.balance)

\* The rate of the account stands in for one that is missing or zero.
AnnualRate(g) ==
  LET named == IF g.rate = Unknown THEN 0 ELSE g.rate
  IN  IF g.account # Unknown /\ named <= 0 /\ g.account.rate # Unknown
      THEN g.account.rate ELSE named

\* The most a period may take from the income, as a fraction of a cent.
MaxAllowed(profile, frequency) ==
  <<profile.income * profile.ratio * PerMonth[frequency][2], 100 * PerMonth[frequency][1]>>

\* Whether each payment is affordable; unknown without an income.
Budget(g, amount, periods) ==
  IF g.profile = Unknown \/ g.profile.income = Unknown \/ g.profile.income <= 0
  THEN [max |-> Unknown, within |-> Unknown]
  ELSE LET max == MaxAllowed(g.profile, g.frequency)
       IN  [max |-> IF max[1] # 0 THEN Rounded(max[1], max[2]) ELSE Unknown,
            within |-> amount * max[2] <= max[1] * periods]

Warnings(amount, within) ==
  (IF amount = 0 THEN {"reached"} ELSE {}) \cup
  (IF within = FALSE THEN {"over budget"} ELSE {})

NoPlan(g) ==
  [kind |-> "open",
   toSave |-> IF g.target = Unknown THEN Unknown ELSE AmountToSave(g)]

CalculateQuota(g) ==
  IF g.end = Unknown \/ g.target = Unknown THEN NoPlan(g)
  ELSE IF ~Before(g.start, g.end) THEN [kind |-> "invalid"]
  ELSE LET amount == AmountToSave(g)
           periods == TotalPeriods(g.start, g.end, g.frequency)
           budget == Budget(g, amount, periods)
       IN  [kind |-> "plan", toSave |-> amount, periods |-> periods,
            daysInPeriod |-> CeilingOf(DiffDays(g.start, g.end), periods),
            quota |-> Rounded(amount, periods), rate |-> AnnualRate(g),
            max |-> budget.max, within |-> budget.within,
            warnings |-> Warnings(amount, budget.within)]

\* What the goal shows on a day: the percentage in hundredths.
Progress(g, today) ==
  [remaining |-> IF g.target = Unknown THEN Unknown ELSE AtLeast(0, g.target - g.balance),
   percent |-> IF g.target = Unknown THEN Unknown
               ELSE IF g.target > 0 THEN Rounded(g.balance * 10000, g.target) ELSE 0,
   days |-> IF g.end = Unknown THEN Unknown ELSE AtLeast(0, DiffDays(today, g.end))]
-----------------------------------------------------------------------------
Init == goal = Unknown /\ offer = Unknown

\* What a request holds that is checked before the service sees it.
Named ==
  [target: Targets \cup {Unknown}, balance: Balances, start: Starts, end: Ends \cup {Unknown},
   frequency: Frequencies, rate: Rates \cup {Unknown}, account: BankAccounts \cup {Unknown},
   profile: SavingsProfiles \cup {Unknown}]

\* One request: what it asks and what it is answered.
AskQuota == \E g \in Named : goal' = g /\ offer' = CalculateQuota(g)

Next == goal = Unknown /\ AskQuota

Spec == Init /\ [][Next]_qvars
-----------------------------------------------------------------------------
(* Properties.                                                              *)

\* The days on which a payment is due: every month on the day of the start,
\* both ends counted.
MonthlyDueDates ==
  {k \in 0 .. 36 :
     LET m == goal.start.m - 1 + k
         y == goal.start.y + m \div 12
     IN  \/ y < goal.end.y
         \/ y = goal.end.y /\ (m % 12) + 1 < goal.end.m
         \/ y = goal.end.y /\ (m % 12) + 1 = goal.end.m /\ goal.start.d <= goal.end.d}

\* The plan of calculateQuota can be kept: it has one payment for each date on
\* which one is due, at least one; together they make what is missing, up
\* to half a cent each; a later end never asks for a bigger payment; and
\* what it says of the budget is what its own figures say.
QuotaCovers ==
  (offer # Unknown /\ offer.kind = "plan") =>
    /\ goal.frequency = "monthly" => offer.periods = AtLeast(1, Cardinality(MonthlyDueDates))
    /\ goal.frequency # "monthly" =>
         LET step == HundredthsOfDay[goal.frequency]
             days == DiffDays(goal.start, goal.end) * 100
         IN  (offer.periods - 1) * step < days /\ days <= offer.periods * step
    /\ 2 * (offer.quota * offer.periods - offer.toSave) \in -offer.periods .. offer.periods
    /\ \A later \in Ends :
         Before(goal.end, later) =>
           CalculateQuota([goal EXCEPT !.end = later]).quota <= offer.quota
    /\ offer.within = TRUE /\ offer.max # Unknown => offer.quota <= offer.max
    /\ offer.within = FALSE /\ offer.max # Unknown => offer.quota >= offer.max
    /\ (offer.within = FALSE) <=> ("over budget" \in offer.warnings)
    /\ offer.toSave = Progress(goal, goal.start).remaining
=============================================================================

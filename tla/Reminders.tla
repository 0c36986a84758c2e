----------------------------- MODULE Reminders -----------------------------
(***************************************************************************)
(* The daily job that reminds a user of the fixed movements that fall due, *)
(* and the notifications it leaves.  A fixed movement recurs with a        *)
(* frequency and a day of the month; the job computes its next occurrence  *)
(* and, from some days before it, creates the notification of this         *)
(* occurrence unless it is there.  A day's run may not happen or may stop, *)
(* the creation of one notification may fail, and users delete movements   *)
(* and notifications.                                                      *)
(***************************************************************************)
EXTENDS Integers, FiniteSets, Calendar

CONSTANTS
  Rows,          \* the fixed movements
  Starts,        \* the movements and the first day of a behaviour
  Lookback,      \* how many days back movements are read
  Span,          \* bound: how many days pass
  MaxIncidents   \* bound: lost runs, failures, deletions

VARIABLES
  today, passed,  \* the date, and how many days have passed
  tx,             \* the rows of transaction_record that are fixed
  ran, todo,      \* whether today's run has begun, and the rows it has left
  reminders,        \* the rows of notification that are reminders
  announced,      \* history: every occurrence a notification was created for
  handled,        \* history: the last day on which the job handled each row
  incidents

rvars == <<today, passed, tx, ran, todo, reminders, announced, handled, incidents>>

\* is_fixed movements: frequency, due_day, created_at, reminder_days, deleted_at.
Frequencies == {"daily", "weekly", "biweekly", "monthly", "quarterly", "yearly", "none"}
-----------------------------------------------------------------------------
(***************************************************************************)
(* nextOccurrence.                                                         *)
(***************************************************************************)
\* Mutant: a day past the end of the month falls in the next one.
ClampDayOverflowing(y, m, day) == Normal(y, m, day)

ClampDay(y, m, day) ==
  Date(y, m, IF day < DaysInMonth(y, m) THEN day ELSE DaysInMonth(y, m))

\* The date in the month n months after that of t.
AddMonthsClamped(t, n, day) ==
  LET total == 12 * t.y + t.m - 1 + n
  IN  ClampDay(total \div 12, (total % 12) + 1, day)

NextMonthly(due, now) ==
  LET candidate == ClampDay(now.y, now.m, due)
  IN  IF Before(candidate, now) THEN AddMonthsClamped(now, 1, due) ELSE candidate

\* Every n days from an anchor that may lie before or after now.
NextEvery(n, anchor, now) ==
  LET offset == (DayNumber(now) - DayNumber(anchor)) % n
  IN  IF offset = 0 THEN now ELSE AddDays(now, n - offset)

\* Steps of n months from the month of creation until now is reached.
NextStep(n, due, created, now) ==
  LET candidate[k \in 0 .. Lookback] ==
        IF k = 0 THEN AddMonthsClamped(created, 0, due)
        ELSE AddMonthsClamped(candidate[k - 1], n, due)
      reached == CHOOSE k \in 0 .. Lookback :
                   /\ ~Before(candidate[k], now)
                   /\ \A j \in 0 .. k - 1 : Before(candidate[j], now)
  IN  candidate[reached]

NextOccurrence(t, now) ==
  CASE t.frequency = "daily" -> now
    [] t.frequency = "weekly" -> NextEvery(7, t.created, now)
    [] t.frequency = "biweekly" ->
         NextEvery(14, ClampDay(t.created.y, t.created.m, t.due), now)
    [] t.frequency = "quarterly" -> NextStep(3, t.due, t.created, now)
    [] t.frequency = "yearly" -> NextStep(12, t.due, t.created, now)
    [] OTHER -> NextMonthly(t.due, now)
-----------------------------------------------------------------------------
(***************************************************************************)
(* The job, the notifications and the clock.                               *)
(***************************************************************************)
Incident == incidents < MaxIncidents /\ incidents' = incidents + 1

\* findFixedForReminders: rows that are not older than the look-back.
Recent == {r \in Rows : /\ tx[r].live
                        /\ DayNumber(tx[r].created) >= DayNumber(today) - Lookback}

BeginRun ==
  /\ ~ran
  /\ ran' = TRUE
  /\ todo' = Recent
  /\ UNCHANGED <<today, passed, tx, reminders, announced, handled, incidents>>

\* The server is down at seven, or the query fails.
LoseRun ==
  /\ ~ran
  /\ Incident
  /\ ran' = TRUE
  /\ UNCHANGED <<today, passed, tx, todo, reminders, announced, handled>>

\* createIfMissing; id tells notifications of the same reference apart.
CreateIfMissing(r, on) ==
  IF \E n \in reminders : n.row = r /\ n.on = on THEN UNCHANGED <<reminders, announced>>
  ELSE /\ reminders' = reminders \cup {[row |-> r, on |-> on, id |-> passed]}
       /\ announced' = announced \cup {[row |-> r, on |-> on]}

Remind(r) ==
  /\ r \in todo
  /\ todo' = todo \ {r}
  /\ LET next == NextOccurrence(tx[r], today)
         ahead == DayNumber(next) - DayNumber(today)
     IN  IF ahead \in 0 .. tx[r].ahead THEN CreateIfMissing(r, next)
         ELSE UNCHANGED <<reminders, announced>>
  /\ handled' = [handled EXCEPT ![r] = passed]
  /\ UNCHANGED <<today, passed, tx, ran, incidents>>

RemindFails(r) ==
  /\ r \in todo
  /\ Incident
  /\ todo' = todo \ {r}
  /\ UNCHANGED <<today, passed, tx, ran, reminders, announced, handled>>

\* The server restarts: the run of the day is not taken up again.
Restart ==
  /\ todo # {}
  /\ Incident
  /\ todo' = {}
  /\ UNCHANGED <<today, passed, tx, ran, reminders, announced, handled>>

\* The user deletes a notification (its row is removed) or a movement.
Dismiss(n) ==
  /\ n \in reminders
  /\ Incident
  /\ reminders' = reminders \ {n}
  /\ UNCHANGED <<today, passed, tx, ran, todo, announced, handled>>

SoftDelete(r) ==
  /\ tx[r].live
  /\ Incident
  /\ tx' = [tx EXCEPT ![r].live = FALSE]
  /\ UNCHANGED <<today, passed, ran, todo, reminders, announced, handled>>

NextDay ==
  /\ ran /\ todo = {}
  /\ passed < Span
  /\ today' = AddDays(today, 1)
  /\ passed' = passed + 1
  /\ ran' = FALSE
  /\ UNCHANGED <<tx, todo, reminders, announced, handled, incidents>>

Init ==
  /\ \E s \in Starts : tx = s.tx /\ today = s.today
  /\ passed = 0
  /\ ran = FALSE /\ todo = {}
  /\ reminders = {} /\ announced = {}
  /\ handled = [r \in Rows |-> -1]
  /\ incidents = 0

Next == \/ BeginRun \/ LoseRun \/ Restart \/ NextDay
        \/ \E r \in Rows : Remind(r) \/ RemindFails(r) \/ SoftDelete(r)
        \/ \E n \in reminders : Dismiss(n)

Spec == Init /\ [][Next]_rvars
-----------------------------------------------------------------------------
(***************************************************************************)
(* Properties.                                                             *)
(***************************************************************************)
\* What recurs with a movement, as a user understands it: which days fall due.
LastDayOr(t, day) == IF day < DaysInMonth(t.y, t.m) THEN day ELSE DaysInMonth(t.y, t.m)
MonthsSince(t, c) == 12 * t.y + t.m - (12 * c.y + c.m)
FallsDue(t, d) ==
  CASE t.frequency = "daily" -> TRUE
    [] t.frequency = "weekly" -> Weekday(d) = Weekday(t.created)
    [] t.frequency = "biweekly" ->
         LET anchor == [t.created EXCEPT !.d = LastDayOr(t.created, t.due)]
         IN  (DayNumber(d) - DayNumber(anchor)) % 14 = 0
    [] t.frequency = "quarterly" -> d.d = LastDayOr(d, t.due) /\ MonthsSince(d, t.created) % 3 = 0
    [] t.frequency = "yearly" -> d.d = LastDayOr(d, t.due) /\ MonthsSince(d, t.created) % 12 = 0
    [] OTHER -> d.d = LastDayOr(d, t.due)

\* A day on which a movement falls due has been announced by the time its run is
\* over, when one run of the days it is announced ahead has handled the movement,
\* and only such days are announced: through short months, leap years and the
\* turn of the year, and although single runs are lost; and however many runs
\* see an occurrence, it has one notification.
OccurrencesAnnounced ==
  /\ ran /\ todo = {} =>
       \A r \in Recent :
         FallsDue(tx[r], today) /\ handled[r] >= 0 /\ handled[r] >= passed - tx[r].ahead
           => [row |-> r, on |-> today] \in announced
  /\ \A a \in announced : FallsDue(tx[a.row], a.on)
  /\ \A m, n \in reminders : m.row = n.row /\ m.on = n.on => m = n
=============================================================================

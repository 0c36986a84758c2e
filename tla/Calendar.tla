------------------------------ MODULE Calendar ------------------------------
(***************************************************************************)
(* The Gregorian calendar as the JavaScript Date used by the code keeps    *)
(* it: a date is a record of year, month and day, and a number of days     *)
(* since 1 January of year 1.                                              *)
(***************************************************************************)
EXTENDS Integers

Leap(y) == y % 4 = 0 /\ (y % 100 # 0 \/ y % 400 = 0)

DaysInMonth(y, m) == CASE m = 2 -> IF Leap(y) THEN 29 ELSE 28
                       [] m \in {4, 6, 9, 11} -> 30
                       [] OTHER -> 31

Date(y, m, d) == [y |-> y, m |-> m, d |-> d]

\* Days before the first day of month m of year y.
DaysBefore(y, m) ==
  LET n == y - 1
      upTo[k \in 0 .. 12] == IF k = 0 THEN 0 ELSE upTo[k - 1] + DaysInMonth(y, k)
  IN  365 * n + n \div 4 - n \div 100 + n \div 400 + upTo[m - 1]

DayNumber(t) == DaysBefore(t.y, t.m) + t.d

Before(s, t) == DayNumber(s) < DayNumber(t)

\* new Date(y, m, d): a month past December falls in the next year, and a day
\* past the end of its month in the next month.
Normal(y, m, d) ==
  LET yy == y + (m - 1) \div 12
      mm == ((m - 1) % 12) + 1
  IN  IF d <= DaysInMonth(yy, mm) THEN Date(yy, mm, d)
      ELSE IF mm = 12 THEN Date(yy + 1, 1, d - 31)
           ELSE Date(yy, mm + 1, d - DaysInMonth(yy, mm))

\* The date n days after t, n at most a month.
AddDays(t, n) == Normal(t.y, t.m, t.d + n)

\* getDay(): 0 is Sunday.
Weekday(t) == DayNumber(t) % 7
=============================================================================

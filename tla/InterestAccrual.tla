-------------------------- MODULE InterestAccrual --------------------------
(***************************************************************************)
(* The job that pays the interest of bank accounts.  A run, started by the *)
(* clock every day or by hand at any time, loads the accounts it may pay   *)
(* and then, account by account, stores an income and saves the account    *)
(* with the date of the payment: two writes without a transaction, the     *)
(* second of the copy loaded at the start.  Users edit and delete their    *)
(* accounts meanwhile, calls fail, and the server restarts.                *)
(*                                                                         *)
(* A date is a number of days; the account was created on day 0.  The      *)
(* amount of an interest is abstracted to whether there is any: a rate, a  *)
(* balance and at least the days its frequency asks for.                   *)
(***************************************************************************)
EXTENDS Integers, Sequences, FiniteSets

CONSTANTS
  Accounts,   \* the accounts
  Runs,       \* the runs of the job that may be in progress at once
  Editors,    \* the PATCH requests that may be in progress at once
  Opened,     \* what the table may hold at first
  MinDays,    \* MinDays[f]: the days between payments of frequency f
  Terms,      \* the terms a PATCH may set
  LastDay,    \* bound of the clock
  MaxIncidents, \* how many overlapping runs, edits, deletions, failures and
                \* restarts happen
  None

VARIABLES
  day,        \* today
  account,    \* the rows of bank_account
  run,        \* run[r]: the copies that are left and the payment in progress
  edit,       \* edit[e]: the copy a PATCH has loaded and merged
  paid,       \* history: the incomes stored for each account
  unsettled,  \* history: accounts whose dates and incomes may disagree
  refused,    \* history: accounts whose income was refused
  incidents, crashes

ivars == <<day, account, run, edit, paid, unsettled, refused, incidents, crashes>>

Days == 0 .. LastDay

\* A row: whether rate and balance are positive, and its dates.
AccountRow ==
  [live: BOOLEAN, enabled: BOOLEAN, earns: BOOLEAN,
   frequency: DOMAIN MinDays \cup {"other"},
   last: Days \cup {None}, from: Days \cup {None},
   term: Nat, maturity: Nat \cup {None}, renew: BOOLEAN]

Payment == [from: Nat, to: Days, deposit: BOOLEAN, renew: BOOLEAN]
-----------------------------------------------------------------------------
(* calculateInterest and the roll-over.                                     *)

PeriodStart(a) == CASE a.last # None -> a.last
                    [] a.last = None /\ a.from # None -> a.from
                    [] OTHER -> 0

Deposit(a) == a.term # 0 /\ a.maturity # None

\* The payment an account is owed today, or None.
CalculateInterest(a, today) ==
  LET start == PeriodStart(a)
      due == /\ a.earns /\ start # today
             /\ IF Deposit(a) THEN today >= a.maturity
                ELSE a.frequency \in DOMAIN MinDays /\ today - start >= MinDays[a.frequency]
  IN  IF due THEN [from |-> IF Deposit(a) THEN a.maturity ELSE start, to |-> today,
                   deposit |-> Deposit(a), renew |-> a.renew]
      ELSE None

\* Mutant: the dates of a renewed deposit stay.
DatedWithoutRollOver(a, today) == [a EXCEPT !.last = today]

\* updateAccountMetadata: what it saves.
Dated(a, today) ==
  IF Deposit(a) /\ today >= a.maturity /\ a.renew
  THEN [a EXCEPT !.last = today, !.maturity = @ + a.term]
  ELSE [a EXCEPT !.last = today]
-----------------------------------------------------------------------------
(* The job.                                                                 *)

Idle == [todo |-> {}, now |-> None, on |-> None]
Left(r) == {c.id : c \in run[r].todo}
CopyOf(r, a) == (CHOOSE c \in run[r].todo : c.id = a).row
Without(r, a) == {c \in run[r].todo : c.id # a}
Incident == incidents < MaxIncidents /\ incidents' = incidents + 1

\* findEligibleAccounts
Find(r) ==
  /\ run[r] = Idle
  /\ IF \A s \in Runs : run[s] = Idle THEN UNCHANGED incidents ELSE Incident
  /\ run' = [run EXCEPT ![r].todo =
               {[id |-> a, row |-> account[a]] :
                  a \in {b \in Accounts : account[b].live /\ account[b].enabled}}]
  /\ UNCHANGED <<day, account, edit, paid, unsettled, refused, crashes>>

Skip(r, a) ==
  /\ run[r].now = None /\ a \in Left(r)
  /\ CalculateInterest(CopyOf(r, a), day) = None
  /\ run' = [run EXCEPT ![r].todo = Without(r, a)]
  /\ UNCHANGED <<day, account, edit, paid, unsettled, refused, incidents, crashes>>

\* The copy is not what the table holds, or another run is between its writes.
Overtaken(r, a) == \/ CopyOf(r, a) # account[a]
                   \/ \E s \in Runs : run[s].now = a

StoreIncome(r, a) ==
  LET p == CalculateInterest(CopyOf(r, a), day)
  IN  /\ run[r].now = None /\ a \in Left(r)
      /\ p # None
      /\ paid' = [paid EXCEPT ![a] = Append(@, p)]
      /\ run' = [run EXCEPT ![r].now = a, ![r].on = day]
      /\ unsettled' = IF Overtaken(r, a) THEN unsettled \cup {a} ELSE unsettled
      /\ UNCHANGED <<day, account, edit, refused, incidents, crashes>>

\* The catch around the whole body of the loop: the next account follows.
IncomeFailsAndStops(r, a) ==
  /\ run[r].now = None /\ a \in Left(r)
  /\ CalculateInterest(CopyOf(r, a), day) # None
  /\ Incident
  /\ run' = [run EXCEPT ![r] = Idle]
  /\ refused' = refused \cup {a}
  /\ UNCHANGED <<day, account, edit, paid, unsettled, crashes>>

IncomeFails(r, a) ==
  /\ run[r].now = None /\ a \in Left(r)
  /\ CalculateInterest(CopyOf(r, a), day) # None
  /\ Incident
  /\ run' = [run EXCEPT ![r].todo = Without(r, a)]
  /\ refused' = refused \cup {a}
  /\ UNCHANGED <<day, account, edit, paid, unsettled, crashes>>

\* save(account) writes every column in which the copy differs from the table,
\* deleted_at included.
SaveDates(r) ==
  LET a == run[r].now
  IN  /\ a # None
      /\ account' = [account EXCEPT ![a] = Dated(CopyOf(r, a), run[r].on)]
      /\ unsettled' = IF account[a] # CopyOf(r, a) THEN unsettled \cup {a} ELSE unsettled
      /\ run' = [run EXCEPT ![r] = [todo |-> Without(r, a), now |-> None, on |-> None]]
      /\ UNCHANGED <<day, edit, paid, refused, incidents, crashes>>

DatesFail(r) ==
  /\ run[r].now # None
  /\ Incident
  /\ unsettled' = unsettled \cup {run[r].now}
  /\ run' = [run EXCEPT ![r] = [todo |-> Without(r, run[r].now), now |-> None, on |-> None]]
  /\ UNCHANGED <<day, account, edit, paid, refused, crashes>>

Crash ==
  /\ Incident
  /\ crashes' = crashes + 1
  /\ unsettled' = unsettled \cup ({run[r].now : r \in Runs} \ {None})
  /\ run' = [r \in Runs |-> Idle]
  /\ edit' = [e \in Editors |-> None]
  /\ UNCHANGED <<day, account, paid, refused>>

Tick ==
  /\ day < LastDay
  /\ day' = day + 1
  /\ UNCHANGED <<account, run, edit, paid, unsettled, refused, incidents, crashes>>
-----------------------------------------------------------------------------
(* Requests of the user: a PATCH loads the row, merges and saves.              *)

\* The bodies of a PATCH.  start_date and term_days together set the maturity.
Changed(a) ==
  {[a EXCEPT !.enabled = ~@], [a EXCEPT !.earns = ~@], [a EXCEPT !.from = day]}
    \cup {[a EXCEPT !.term = t] : t \in Terms}
    \cup {[a EXCEPT !.term = t, !.maturity = day + t] : t \in Terms}

LoadForPatch(e, a) ==
  /\ edit[e] = None /\ Incident
  /\ account[a].live
  /\ \E c \in Changed(account[a]) : edit' = [edit EXCEPT ![e] = [id |-> a, old |-> account[a], new |-> c]]
  /\ UNCHANGED <<day, account, run, paid, unsettled, refused, crashes>>

SavePatch(e) ==
  /\ edit[e] # None
  /\ account' = [account EXCEPT ![edit[e].id] = edit[e].new]
  /\ unsettled' = IF account[edit[e].id] # edit[e].old THEN unsettled \cup {edit[e].id} ELSE unsettled
  /\ edit' = [edit EXCEPT ![e] = None]
  /\ UNCHANGED <<day, run, paid, refused, incidents, crashes>>

SoftDelete(a) ==
  /\ Incident /\ account[a].live
  /\ account' = [account EXCEPT ![a].live = FALSE]
  /\ UNCHANGED <<day, run, edit, paid, unsettled, refused, crashes>>
-----------------------------------------------------------------------------
Init ==
  /\ day = 0
  /\ account \in Opened
  /\ run = [r \in Runs |-> Idle]
  /\ edit = [e \in Editors |-> None]
  /\ paid = [a \in Accounts |-> <<>>]
  /\ unsettled = {} /\ refused = {}
  /\ incidents = 0 /\ crashes = 0

Proceed(r) == \/ \E a \in Accounts : Skip(r, a) \/ StoreIncome(r, a)
              \/ SaveDates(r)

Next ==
  \/ \E r \in Runs : Find(r) \/ Proceed(r) \/ DatesFail(r)
  \/ \E r \in Runs, a \in Accounts : IncomeFails(r, a)
  \/ \E e \in Editors, a \in Accounts : LoadForPatch(e, a)
  \/ \E e \in Editors : SavePatch(e)
  \/ \E a \in Accounts : SoftDelete(a)
  \/ Crash \/ Tick

Spec == Init /\ [][Next]_ivars
-----------------------------------------------------------------------------
(* Properties.                                                              *)

\* No day earns interest twice and none is left out.  The payments of an account
\* without a term follow one another day to day, the last one up to the date in
\* the row; a maturity of a deposit that renews is paid once, and not before it
\* has come.  Accounts are left aside whose two writes were separated by a
\* failure, a restart or another writer.  A deposit that does not renew is left
\* aside as well: the code pays its maturity again every day.
PaidOnce ==
  \A a \in Accounts \ unsettled :
    /\ \A i \in 1 .. Len(paid[a]) - 1 :
         LET p == paid[a][i]  q == paid[a][i + 1]
         IN  /\ ~p.deposit /\ ~q.deposit => q.from = p.to
             /\ p.deposit /\ q.deposit /\ p.renew => p.from < q.from
    /\ \A i \in 1 .. Len(paid[a]) : paid[a][i].from <= paid[a][i].to
    /\ paid[a] # <<>> /\ (\A r \in Runs : run[r].now # a)
         => account[a].last = paid[a][Len(paid[a])].to

\* An account that a run has loaded and that is owed an interest leaves the run
\* paid, unless its own income is refused or the server restarts: the failure of
\* one account stops no other.
NoneForgotten ==
  [][crashes' = crashes =>
       \A r \in Runs : \A a \in Left(r) :
         (a \in Left(r))' \/ run[r].now = a \/ (a \in refused)'
           \/ CalculateInterest(CopyOf(r, a), day) = None]_ivars
=============================================================================

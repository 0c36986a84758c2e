------------------------------- MODULE Races -------------------------------
(***************************************************************************)
(* Where requests and jobs overlap: the database transactions of LedgerTx, *)
(* the recovery of a password, the guards of the login and the interest of *)
(* the accounts.  They share no state: a behaviour is of one of them, and  *)
(* part says of which; the variables of the others rest.                   *)
(***************************************************************************)
EXTENDS LedgerTx

CONSTANTS
  Calls, MaxAttempts, MaxCodes, MaxTokens, MaxResets,
  Logins, MaxFailures, Window, BlockDuration, Limit, Ttl, LastTime, MaxLogins,
  Savings, Runs, Editors, Opened, MinDays, Terms, LastDay, MaxIncidents

VARIABLES part,
          otp, call, token, granted, wrong, cleared, resets, raced,
          time, hits, hitsUntil, stopUntil, failures, failUntil, blockUntil, login,
          passed, ended, lost,
          day, account, run, edit, paid, unsettled, refused, incidents, crashes

Recovery == INSTANCE PasswordReset WITH Nothing <- None
Login == INSTANCE LoginGuard
Interest == INSTANCE InterestAccrual WITH Accounts <- Savings

\* A code that never serves, a login that is always blocked or never allowed, and an
\* interest that is paid several times a day are not configurations of the program.
ASSUME RacesAssumption ==
  /\ MaxAttempts \in Nat \ {0}
  /\ MaxFailures \in Nat \ {0} /\ {Window, BlockDuration} \subseteq Nat
  /\ Limit \in Nat /\ Ttl \in Nat

\* The rows of accounts at first: none has been paid.  A term is at least one day.
ASSUME InterestAssumption ==
  /\ LastDay \in Nat /\ Terms \subseteq Nat \ {0}
  /\ \A f \in DOMAIN MinDays : MinDays[f] \in Nat
  /\ Opened \subseteq [Savings -> {a \in Interest!AccountRow : a.last = None}]
  /\ None \notin Nat \cup Savings \cup Interest!Payment

recoveryVars == <<otp, call, token, granted, wrong, cleared, resets, raced>>
loginVars == <<time, hits, hitsUntil, stopUntil, failures, failUntil, blockUntil, login,
               passed, ended, lost>>
interestVars == <<day, account, run, edit, paid, unsettled, refused, incidents, crashes>>
allVars == <<part, vars, recoveryVars, loginVars, interestVars>>

NoRecovery ==
  /\ otp = <<>> /\ call = <<>> /\ token = <<>> /\ granted = <<>> /\ wrong = <<>>
  /\ cleared = 0 /\ resets = 0 /\ raced = {}

NoLogin ==
  /\ time = 0 /\ hits = 0 /\ hitsUntil = 0 /\ stopUntil = 0
  /\ failures = 0 /\ failUntil = 0 /\ blockUntil = 0
  /\ login = [r \in Logins |-> [step |-> "idle", read |-> 0]]
  /\ passed = <<>> /\ ended = <<>> /\ lost = FALSE

NoInterest ==
  /\ day = 0 /\ account = <<>> /\ run = [r \in Runs |-> Interest!Idle]
  /\ edit = <<>> /\ paid = <<>>
  /\ unsettled = Savings /\ refused = {} /\ incidents = 0 /\ crashes = 0

RacesInit ==
  /\ Init
  /\ \/ part = "transactions" /\ NoRecovery /\ NoLogin /\ NoInterest
     \/ part = "recovery" /\ Recovery!Init /\ NoLogin /\ NoInterest
     \/ part = "login" /\ NoRecovery /\ Login!Init /\ NoInterest
     \/ part = "interest" /\ NoRecovery /\ NoLogin /\ Interest!Init

TransactionsRest == part # "transactions" /\ UNCHANGED <<part, vars>>
RecoveryRests == UNCHANGED recoveryVars
LoginRests == UNCHANGED loginVars
InterestRests == UNCHANGED interestVars

RacesNext ==
  \/ part = "transactions" /\ Next /\ UNCHANGED part /\ RecoveryRests /\ LoginRests /\ InterestRests
  \/ part = "recovery" /\ Recovery!Next /\ TransactionsRest /\ LoginRests /\ InterestRests
  \/ part = "login" /\ Login!Next /\ TransactionsRest /\ RecoveryRests /\ InterestRests
  \/ part = "interest" /\ Interest!Next /\ TransactionsRest /\ RecoveryRests /\ LoginRests
  \* Only transactions are checked for deadlock: the others stop at their bounds.
  \/ TransactionsRest /\ RecoveryRests /\ LoginRests /\ InterestRests

RacesSpec == RacesInit /\ [][RacesNext]_allVars
-----------------------------------------------------------------------------
\* PasswordReset: how often a code serves, and which.
CodesLimited == Recovery!CodesLimited
OnlyNewestUsable == Recovery!OnlyNewestUsable

\* LoginGuard: the block and the rate limit.
LoginsGuarded == Login!BlockedByFailures /\ Login!RateLimited

\* InterestAccrual: each day once, and no account forgotten.
PaidOnce == Interest!PaidOnce
NoneForgotten == Interest!NoneForgotten
=============================================================================

----------------------------- MODULE MCServices -----------------------------
(***************************************************************************)
(* The person of MCUserDirectory and the services around the books: the    *)
(* sums and plans made of movements, cash counts, quotes,                  *)
(* the notifications, presence and sessions, and the answers to requests.  *)
(* They share no state: part says which a behaviour is about.              *)
(***************************************************************************)
EXTENDS MCUserDirectory, Services

CONSTANTS v1, v2, k1, k2, x1, x2, g1, g2

VARIABLES part,
          filed, answer,
          goal, offer,
          register, matching, arqueo

-----------------------------------------------------------------------------
\* A day inside the range in each of two months and one outside; incomes on
\* both sides of the limit; the ratios of a profile make a hundred, or less.
Ratios(needs, wants, savings) == [needs |-> needs, wants |-> wants, savings |-> savings, maxDebt |-> 40]

Sums == INSTANCE Aggregates
  WITH Kinds <- {"income", "expense", "investment", "transfer"}, Sizes <- {24001, 28000},
       Tags <- {[category |-> Nil, company |-> Nil], [category |-> "c1", company |-> "e1"]},
       Days <- {5, 31, 40}, From <- 5, To <- 35,
       Profiles <- {Ratios(50, 30, 20), Ratios(50, 20, 20)}, Debts <- {0, 12001},
       Goals <- {<<>>, <<[completed |-> FALSE, daysLeft |-> 30, percent |-> 79]>>},
       Uvts <- {20}, IncomeLimit <- 1400, WealthLimit <- 4750, MaxMovements <- 2, None <- Nil

\* Starts in the middle and at the end of a month; ends on the day of the start, at the
\* end of a short month, and a day before a full year.
Day(y, m, d) == [y |-> y, m |-> m, d |-> d]

Plans == INSTANCE QuotaPlan
  WITH Frequencies <- {"daily", "weekly", "biweekly", "monthly", "quarterly", "yearly"},
       Targets <- {1000, 10001}, Balances <- {0, 1000},
       Starts <- {Day(2026, 1, 15), Day(2026, 1, 31)},
       Ends <- {Day(2026, 1, 15), Day(2026, 2, 15), Day(2026, 2, 28),
                Day(2026, 3, 31), Day(2027, 1, 14)},
       Rates <- {0, 5}, BankAccounts <- {[rate |-> Nil], [rate |-> 7]},
       SavingsProfiles <- {[income |-> Nil, ratio |-> 20], [income |-> 10000, ratio |-> 20],
                           [income |-> 10000, ratio |-> 0]},
       Unknown <- Nil

\* Two movements of a month that look different, and one of another month;
\* amounts around the half of a hundredth that a difference may be.
Fingerprint(in, amount, text) == [inMonth |-> in, amount |-> amount, text |-> text]

Cash == INSTANCE CashCount
  WITH Types <- {"income", "investment", "transfer"},
       Prints <- {Fingerprint(TRUE, 1000, "p1"), Fingerprint(TRUE, 2000, "p2"),
                  Fingerprint(FALSE, 1000, "p1")},
       Counted <- {1000, 1004, 1005}, Expectations <- {996, Nil}, MaxRecords <- 3,
       Omitted <- Nil

\* A PATCH of the value with its currency or without, of the symbol, and of a name.
Change(value, currency, symbol) == [value |-> value, currency |-> currency, symbol |-> symbol]

MCChanges == {Change(TRUE, TRUE, Nil), Change(TRUE, FALSE, Nil),
              Change(FALSE, FALSE, "s2"), Change(FALSE, FALSE, Nil)}

\* A user and an admin with a socket between them; or one of them with two sockets.
Between == socket[x2] = Nil /\ Len(marks) <= 1
Single == session[g2] = Nil /\ (session[g1] # Nil => session[g1].user = v2)

\* What is no HttpException, a bad body, and exceptions with each form of message.
Exception(class, status, form) == [class |-> class, status |-> status, form |-> form]
Value(form, data, total) == [form |-> form, data |-> data, total |-> total, ok |-> "false"]

MCThrown ==
  {Exception("other", "500", Nil), Exception("validation", "400", Nil),
   Exception("http", "500", "text"), Exception("http", "400", "list"),
   Exception("http", "404", "formatted")}
MCReturned ==
  {Value("page", 2, 7), Value("none", 0, Nil), Value("list", 2, Nil),
   Value("one", 1, Nil), Value("envelope", 0, Nil)}
-----------------------------------------------------------------------------
cashVars == <<register, matching, arqueo>>
figureVars == <<filed, answer, goal, offer, cashVars, quoteVars>>
mcvars == <<part, vars, figureVars, noticeVars, presenceVars, answerVars>>

MCInit ==
  /\ part \in {"users", "sums", "plans", "cash", "quotes", "notices",
              "shared", "alone", "answers"}
  /\ Init /\ Sums!Init /\ Plans!Init /\ Cash!Init /\ Market!Init
  /\ Notices!Init /\ Online!Init /\ Answers!Init

\* A step of one part: the variables of the others rest.
OthersRest == UNCHANGED <<vars, noticeVars, presenceVars, answerVars>>
OnlySums ==
  Sums!Next /\ UNCHANGED <<goal, offer, cashVars, quoteVars>> /\ OthersRest
OnlyPlans ==
  Plans!Next /\ UNCHANGED <<filed, answer, cashVars, quoteVars>> /\ OthersRest
OnlyCash ==
  Cash!Next /\ UNCHANGED <<filed, answer, goal, offer, quoteVars>> /\ OthersRest
OnlyQuotes ==
  Market!Next /\ UNCHANGED <<filed, answer, goal, offer, cashVars>> /\ OthersRest
OnlyNotices ==
  Notices!Next /\ UNCHANGED <<vars, figureVars, presenceVars, answerVars>>
OnlyAnswers ==
  Answers!Next /\ UNCHANGED <<vars, figureVars, noticeVars, presenceVars>>
OnlyPresence ==
  Online!Next /\ UNCHANGED <<vars, figureVars, noticeVars, answerVars>>

MCNext ==
  /\ UNCHANGED part
  /\ \/ part = "users" /\ Next
          /\ UNCHANGED <<figureVars, noticeVars, presenceVars, answerVars>>
     \/ part = "sums" /\ OnlySums
     \/ part = "plans" /\ OnlyPlans
     \/ part = "cash" /\ OnlyCash
     \/ part = "quotes" /\ OnlyQuotes
     \/ part = "notices" /\ OnlyNotices
     \/ part = "shared" /\ OnlyPresence /\ Between'
     \/ part = "alone" /\ OnlyPresence /\ Single'
     \/ part = "answers" /\ OnlyAnswers

MCSpec == MCInit /\ [][MCNext]_mcvars
-----------------------------------------------------------------------------
\* Aggregates, CashCount and QuotaPlan: what the figures say of one set of
\* movements, what explains a difference, and a plan that can be kept.
CalculatorsAgree ==
  /\ part = "sums" => Sums!SumsAgree
  /\ part = "cash" => Cash!CashAgrees
  /\ part = "plans" => Plans!QuotaCovers
=============================================================================

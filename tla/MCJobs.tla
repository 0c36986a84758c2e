------------------------------- MODULE MCJobs -------------------------------
(***************************************************************************)
(* How movements get into the books and what is told of them: the imports  *)
(* of MCStatementImport, the parser they call, the categories of movements,*)
(* the daily reminders, and the listings with their pages.  They share no  *)
(* state: part says which a behaviour is about; the others rest.           *)
(***************************************************************************)
EXTENDS MCStatementImport, Categorisation, Listings

CONSTANTS t1, t2, p1, p2

VARIABLES part,
          doc, phase, layout, printed, lines, current, pending, out,
          today, passed, tx, ran, todo, reminders, announced, handled, incidents

Samples == INSTANCE StatementSamples

Parser == INSTANCE StatementParser
  WITH Documents <- Samples!Documents, DetectPatterns <- Samples!DetectPatterns,
       BankOrder <- Samples!BankOrder, ExpenseWords <- {"w2"}, IncomeWords <- {"w3"},
       DefaultType <- "expense", MaxMovements <- 3, ThisYear <- 2024

\* A recurrence through a short month, a leap day, the turn of a year and a month
\* that has the day, each beside another of the same creation date.
Calendar == INSTANCE Calendar
Fixed(f, due, created, ahead) ==
  [live |-> TRUE, frequency |-> f, due |-> due, created |-> created, ahead |-> ahead]
Schedule(f, due, created, g, now) ==
  [tx |-> (t1 :> Fixed(f, due, created, 2)) @@ (t2 :> Fixed(g, due, created, 0)), today |-> now]
Date(y, m, d) == Calendar!Date(y, m, d)

Remind == INSTANCE Reminders
  WITH Rows <- {t1, t2}, Lookback <- 370, Span <- 14, MaxIncidents <- 1,
       Starts <-
         {Schedule("monthly", 31, Date(2023, 12, 31), "daily", Date(2024, 2, 20)),
          Schedule("quarterly", 30, Date(2022, 11, 30), "weekly", Date(2023, 2, 20)),
          Schedule("yearly", 29, Date(2024, 2, 29), "none", Date(2025, 2, 19)),
          Schedule("biweekly", 31, Date(2024, 11, 5), "quarterly", Date(2024, 12, 22)),
          Schedule("monthly", 1, Date(2024, 11, 5), "yearly", Date(2024, 12, 22))}

\* Two descriptions that differ only in how they are spaced, and an empty one;
\* a category with its subcategory, another, and the other without.
Text(lower, normal) == [lower |-> lower, normal |-> normal]
Choice(category, sub) == [category |-> category, sub |-> sub]

MCDescriptions == {Text("rent", "rent"), Text("rent  ", "rent"), Text(" ", None)}
MCCategories == {Choice(None, None), Choice("c1", "s1"), Choice("c2", "s2"), Choice("c2", None)}
MCSubsOf == [c1 |-> {"s1"}, c2 |-> {"s2"}]

\* Up to three rows with two dates; the listings that are cached or that leave equal
\* dates in any order change once while they are read.
MCMaxWrites == [movements |-> 2, transfers |-> 1, imports |-> 1, users |-> 1,
                audit |-> 2, log |-> 2]
Paged == INSTANCE PageWalks

parserVars == <<doc, phase, layout, printed, lines, current, pending, out>>
reminderVars == <<today, passed, tx, ran, todo, reminders, announced, handled, incidents>>
mcvars == <<part, vars, parserVars, reminderVars, ruleVars, listingVars>>

NoDocument ==
  /\ doc = <<>> /\ phase = "none" /\ layout = [format |-> "none"]
  /\ printed = <<>> /\ lines = <<>> /\ current = None /\ pending = <<>> /\ out = <<>>

NoMovements ==
  /\ today = Date(2024, 1, 1) /\ passed = 0 /\ tx = <<>> /\ ran = FALSE /\ todo = {}
  /\ reminders = {} /\ announced = {} /\ handled = <<>> /\ incidents = 0

NoPages == entry = <<>> /\ written = <<>> /\ walk = [step |-> "none"] /\ kept = <<>>

MCInit ==
  /\ Init /\ Rules!Init
  /\ \/ part \in {"import", "rules"} /\ NoDocument /\ NoMovements /\ NoPages
     \/ part = "parser" /\ Parser!Init /\ NoMovements /\ NoPages
     \/ part = "reminders" /\ NoDocument /\ Remind!Init /\ NoPages
     \/ part = "pages" /\ NoDocument /\ NoMovements /\ Paged!Init

ImportRests == part # "import" /\ UNCHANGED <<part, vars>>
ParserRests == UNCHANGED parserVars
RemindersRest == UNCHANGED reminderVars
RulesRest == UNCHANGED <<ruleVars, listingVars>>

MCNext ==
  \/ part = "import" /\ Next /\ UNCHANGED part /\ ParserRests /\ RemindersRest /\ RulesRest
  \/ part = "parser" /\ Parser!Next /\ ImportRests /\ RemindersRest /\ RulesRest
  \/ part = "reminders" /\ Remind!Next /\ ImportRests /\ ParserRests /\ RulesRest
  \/ /\ part = "rules" /\ Rules!Next /\ UNCHANGED listingVars
     /\ ImportRests /\ ParserRests /\ RemindersRest
  \/ /\ part = "pages" /\ Paged!Next /\ UNCHANGED ruleVars
     /\ ImportRests /\ ParserRests /\ RemindersRest

MCFairSpec ==
  /\ MCInit /\ [][MCNext]_mcvars
  /\ WF_vars(part = "import" /\ Process)
  /\ \A q \in Retries : WF_vars(part = "import" /\ RetryStep(q))
-----------------------------------------------------------------------------
\* StatementParser: the words, the rows and the amounts of the movements.
OwnWords == Parser!OwnWords
EveryRowBooked == Parser!EveryRowBooked
AmountsAsPrinted == Parser!AmountsAsPrinted

\* Reminders: what is announced, and how often.
OccurrencesAnnounced == Remind!OccurrencesAnnounced
=============================================================================

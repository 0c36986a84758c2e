------------------------------ MODULE Reports ------------------------------
(***************************************************************************)
(* The summaries of a user's movements and what is computed from them.     *)
(* getSummary answers from a cache whose keys carry a generation number;   *)
(* a request that changes movements raises the number once it has          *)
(* committed, reading it and writing it back in two calls.  The financial  *)
(* and the tax summary find their row, ask for the summary and save.       *)
(*                                                                         *)
(* A summary is known by how many committed changes it includes; the       *)
(* amounts, ratios and advice derived from it are left out, and of the     *)
(* rows they are saved in only whether they exist is kept.  There is one   *)
(* user, one month, one year and one query.                                *)
(***************************************************************************)
EXTENDS Integers, FiniteSets

CONSTANTS
  Writers,     \* requests that change movements
  Readers,     \* requests that read or compute a summary
  Requested,   \* what they are for: "summary", "report", "tax"
  MaxChanges, MaxReads, \* bounds
  Nothing

VARIABLES
  changes,     \* how many changes of movements have committed
  generation,  \* tx:summary:gen:<user>
  cached,      \* the summaries in the cache, by the generation in their key
  period,      \* the row of financial_period: "none", "open", "closed"
  report,      \* whether the month's row of financial_summary exists
  tax,         \* whether the year's row of tax_summary exists
  writer, reader,  \* the requests in progress
  told,        \* history: the newest change whose request has answered
  overlapped,  \* history: whether two writers raised the same generation
  refused,     \* history: requests whose period could not be resolved
  reads        \* how many reads have begun

rvars == <<changes, generation, cached, period, report, tax, writer, reader,
           told, overlapped, refused, reads>>

cacheVars == <<generation, cached>>
tables == <<period, report, tax>>
requests == <<writer, reader>>
history == <<told, overlapped, refused, reads>>

Idle == [step |-> "idle"]
Generations == 0 .. MaxChanges
-----------------------------------------------------------------------------
(* TransactionRecordService: a change, then invalidateSummary.              *)

Change(w) ==
  /\ writer[w] = Idle /\ changes < MaxChanges
  /\ changes' = changes + 1
  /\ writer' = [writer EXCEPT ![w] = [step |-> "get", change |-> changes']]
  /\ UNCHANGED <<cacheVars, tables, reader, history>>

\* A transfer, an import, a payment of a goal or an interest changes movements and
\* tells no cache.
ChangeSilently ==
  /\ changes < MaxChanges
  /\ changes' = changes + 1
  /\ UNCHANGED <<cacheVars, tables, requests, history>>

GetGeneration(w) ==
  /\ writer[w].step = "get"
  /\ writer' = [writer EXCEPT ![w] = [step |-> "set", change |-> @.change, seen |-> generation]]
  /\ UNCHANGED <<changes, cacheVars, tables, reader, history>>

SetGeneration(w) ==
  /\ writer[w].step = "set"
  /\ generation' = writer[w].seen + 1
  /\ overlapped' = (overlapped \/ generation # writer[w].seen)
  /\ told' = IF writer[w].change > told THEN writer[w].change ELSE told
  /\ writer' = [writer EXCEPT ![w] = Idle]
  /\ UNCHANGED <<changes, cached, tables, reader, refused, reads>>

\* A call to the cache fails: the request answers with an error, the change stays.
InvalidateFails(w) ==
  /\ writer[w] # Idle
  /\ writer' = [writer EXCEPT ![w] = Idle]
  /\ UNCHANGED <<changes, cacheVars, tables, reader, history>>

\* A summary lasts 45 s, more or less a part of them at random.
Expire(g) ==
  /\ cached[g] # Nothing
  /\ cached' = [cached EXCEPT ![g] = Nothing]
  /\ UNCHANGED <<changes, generation, tables, requests, history>>

\* The generation lasts a day: the summaries and the requests of then are gone.
Lapse ==
  /\ generation # 0
  /\ \A g \in Generations : cached[g] = Nothing
  /\ \A w \in Writers : writer[w] = Idle
  /\ \A r \in Readers : reader[r] = Idle
  /\ generation' = 0
  /\ UNCHANGED <<changes, cached, tables, requests, history>>
-----------------------------------------------------------------------------
(* getSummary, on behalf of GET /summary, of a report and of a tax summary.  *)

Goto(r, step) == reader' = [reader EXCEPT ![r].step = step]

ReadGeneration(r) ==
  /\ reader[r].step = "summary"
  /\ reader' = [reader EXCEPT ![r].step = "look", ![r].gen = generation]
  /\ UNCHANGED <<changes, cacheVars, tables, writer, history>>

LookUp(r) ==
  /\ reader[r].step = "look"
  /\ reader' = IF cached[reader[r].gen] = Nothing
               THEN [reader EXCEPT ![r].step = "query"]
               ELSE [reader EXCEPT ![r].step = "use", ![r].summary = cached[reader[r].gen], ![r].gen = 0]
  /\ UNCHANGED <<changes, cacheVars, tables, writer, history>>

Query(r) ==
  /\ reader[r].step = "query"
  /\ reader' = [reader EXCEPT ![r].step = "store", ![r].summary = changes]
  /\ UNCHANGED <<changes, cacheVars, tables, writer, history>>

\* Mutant: the summary goes under the generation of now.
StoreUnderNewest(r) ==
  /\ reader[r].step = "store"
  /\ cached' = [cached EXCEPT ![generation] = reader[r].summary]
  /\ reader' = [reader EXCEPT ![r].step = "use", ![r].gen = 0]
  /\ UNCHANGED <<changes, generation, tables, writer, history>>

StoreSummary(r) ==
  /\ reader[r].step = "store"
  /\ cached' = [cached EXCEPT ![reader[r].gen] = reader[r].summary]
  /\ reader' = [reader EXCEPT ![r].step = "use", ![r].gen = 0]
  /\ UNCHANGED <<changes, generation, tables, writer, history>>

\* Begin a request: what it is for decides its first step.
Begin(r, for, step) ==
  /\ for \in Requested /\ reader[r] = Idle /\ reads < MaxReads
  /\ reads' = reads + 1
  /\ reader' = [reader EXCEPT ![r] = [step |-> step, for |-> for, since |-> told,
                                      gen |-> 0, summary |-> 0, row |-> FALSE]]
  /\ UNCHANGED <<changes, cacheVars, tables, writer, told, overlapped, refused>>

Answer(r) == reader' = [reader EXCEPT ![r] = Idle]

AskSummary(r) == Begin(r, "summary", "summary")

AnswerSummary(r) ==
  /\ reader[r].step = "use" /\ reader[r].for = "summary"
  /\ Answer(r)
  /\ UNCHANGED <<changes, cacheVars, tables, writer, told, overlapped, refused, reads>>

\* A call of the request fails, but for a tax summary, which takes it for an
\* income of nothing.
ReadFails(r) ==
  /\ reader[r].step \in {"summary", "look", "query", "store"} /\ reader[r].for # "tax"
  /\ Answer(r)
  /\ UNCHANGED <<changes, cacheVars, tables, writer, history>>
-----------------------------------------------------------------------------
(* findOrCreateCurrent and the other operations of a period.                *)

AskReport(r) == Begin(r, "report", "find period")

FindPeriod(r) ==
  /\ reader[r].step = "find period"
  /\ Goto(r, IF period = "none" THEN "find again" ELSE "find report")
  /\ UNCHANGED <<changes, cacheVars, tables, writer, history>>

\* create() looks once more and refuses a duplicate.
FindAgain(r) ==
  /\ reader[r].step = "find again"
  /\ Goto(r, IF period = "none" THEN "insert period" ELSE "find winner")
  /\ UNCHANGED <<changes, cacheVars, tables, writer, history>>

\* The unique index refuses the second insertion.
InsertPeriod(r) ==
  /\ reader[r].step = "insert period"
  /\ IF period = "none"
     THEN period' = "open" /\ Goto(r, "find report")
     ELSE UNCHANGED period /\ Goto(r, "find winner")
  /\ UNCHANGED <<changes, cacheVars, report, tax, writer, history>>

\* Mutant: the duplicate is an error.
FindWinnerNot(r) ==
  /\ reader[r].step = "find winner"
  /\ reader' = [reader EXCEPT ![r] = Idle]
  /\ refused' = refused \cup {r}
  /\ UNCHANGED <<changes, cacheVars, tables, writer, told, overlapped, reads>>

\* The catch of findOrCreateCurrent.
FindWinner(r) ==
  /\ reader[r].step = "find winner"
  /\ IF period # "none" THEN Goto(r, "find report") /\ UNCHANGED refused
     ELSE reader' = [reader EXCEPT ![r] = Idle] /\ refused' = refused \cup {r}
  /\ UNCHANGED <<changes, cacheVars, tables, writer, told, overlapped, reads>>

\* POST /periods, which finds and inserts as above and refuses a duplicate.
CreatePeriod ==
  /\ period = "none" /\ "report" \in Requested
  /\ period' = "open"
  /\ UNCHANGED <<changes, cacheVars, report, tax, requests, history>>

ClosePeriod ==
  /\ period = "open"
  /\ period' = "closed"
  /\ UNCHANGED <<changes, cacheVars, report, tax, requests, history>>
-----------------------------------------------------------------------------
(* FinancialSummaryCalculatorService.calculateAndPersist.  A closed period is *)
(* computed as well, for nothing ever sets is_final.                         *)

FindReport(r) ==
  /\ reader[r].step = "find report"
  /\ reader' = [reader EXCEPT ![r].step = "summary", ![r].row = report]
  /\ UNCHANGED <<changes, cacheVars, tables, writer, history>>

\* The row that was found is saved, or a new one inserted.
SaveReport(r) ==
  /\ reader[r].step = "use" /\ reader[r].for = "report"
  /\ reader[r].row \/ ~report
  /\ report' = TRUE
  /\ Answer(r)
  /\ UNCHANGED <<changes, cacheVars, period, tax, writer, told, overlapped, refused, reads>>

\* Another request has inserted it meanwhile: the unique index refuses.
ReportRefused(r) ==
  /\ reader[r].step = "use" /\ reader[r].for = "report"
  /\ ~reader[r].row /\ report
  /\ Answer(r)
  /\ UNCHANGED <<changes, cacheVars, tables, writer, history>>
-----------------------------------------------------------------------------
(* TaxSummaryCalculatorService.calculateAndPersist: one row, never computed   *)
(* again.                                                                   *)

AskTax(r) == ~tax /\ Begin(r, "tax", "summary")

\* resolveIncome takes any error for an income of nothing.
IncomeUnread(r) ==
  /\ reader[r].step \in {"summary", "look", "query", "store"} /\ reader[r].for = "tax"
  /\ reader' = [reader EXCEPT ![r].step = "use", ![r].summary = 0, ![r].since = 0]
  /\ UNCHANGED <<changes, cacheVars, tables, writer, history>>

\* The unique index refuses a second row.
SaveTax(r) ==
  /\ reader[r].step = "use" /\ reader[r].for = "tax"
  /\ tax' = TRUE
  /\ Answer(r)
  /\ UNCHANGED <<changes, cacheVars, period, report, writer, told, overlapped, refused, reads>>
-----------------------------------------------------------------------------
Init ==
  /\ changes = 0 /\ generation = 0
  /\ cached = [g \in Generations |-> Nothing]
  /\ period = "none" /\ report = FALSE /\ tax = FALSE
  /\ writer = [w \in Writers |-> Idle]
  /\ reader = [r \in Readers |-> Idle]
  /\ told = 0 /\ overlapped = FALSE /\ refused = {} /\ reads = 0

Next ==
  \/ \E w \in Writers : Change(w) \/ GetGeneration(w) \/ SetGeneration(w) \/ InvalidateFails(w)
  \/ ChangeSilently \/ Lapse \/ CreatePeriod \/ ClosePeriod
  \/ \E g \in Generations : Expire(g)
  \/ \E r \in Readers :
       \/ AskSummary(r) \/ ReadGeneration(r) \/ LookUp(r) \/ Query(r) \/ StoreSummary(r)
       \/ AnswerSummary(r) \/ ReadFails(r)
       \/ AskReport(r) \/ FindPeriod(r) \/ FindAgain(r) \/ InsertPeriod(r) \/ FindWinner(r)
       \/ FindReport(r) \/ SaveReport(r) \/ ReportRefused(r)
       \/ AskTax(r) \/ IncomeUnread(r) \/ SaveTax(r)

Spec == Init /\ [][Next]_rvars
-----------------------------------------------------------------------------
(* Properties.                                                              *)

\* What a request reads or saves includes every change whose own request had
\* answered before it began, through whatever reads and changes overlap it.  Two
\* changes that raise the same generation may set it back to a number already in
\* use, and then old summaries answer until they expire.
AnswersFresh ==
  overlapped \/ \A r \in Readers : reader[r].step = "use" => reader[r].summary >= reader[r].since

\* No request that needs the current period fails because another one creates it.
PeriodResolved == refused = {}
=============================================================================

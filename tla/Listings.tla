------------------------------ MODULE Listings ------------------------------
(***************************************************************************)
(* The paged listings: movements, transfers, imports, users, the audit and *)
(* the system log.  What their queries take, skip and order by, and what a *)
(* screen that walks through the pages of one of them has shown.           *)
(***************************************************************************)
EXTENDS Integers, FiniteSetsExt, SequencesExt

CONSTANTS
  Ids,         \* the ids that rows may get, ascending as they are inserted
  Keys,        \* dates that the listings order by
  Cap,         \* the largest page the listings give
  Limits,      \* sizes of a page that are asked for
  MaxWrites,   \* MaxWrites[list]: writes, at most
  Nothing      \* NULL, or no severity asked for

\* A page has at least one row.
ASSUME ListingAssumption ==
  /\ Ids \subseteq Nat /\ IsFiniteSet(Ids)
  /\ Keys \subseteq Int
  /\ Limits \subseteq Nat \ {0} /\ Cap \in Nat

VARIABLES
  entry,       \* entry[i]: the row i, or Nothing
  written,     \* the kinds of the writes so far
  walk,        \* how far the screen is
  kept         \* the pages of users in the query cache

listingVars == <<entry, written, walk, kept>>
-----------------------------------------------------------------------------
Lists == {"movements", "transfers", "imports", "users", "audit", "log"}
Smaller(a, b) == IF a < b THEN a ELSE b

\* What a query takes, and by what it orders: latest date first, and then the id.
Query(take, limit, page, then) == [take |-> take, skip |-> (page - 1) * limit, then |-> then]

\* Mutant: the movements of a day in any order.
MovementsByDate(limit, page) == Query(Smaller(limit, Cap), limit, page, "none")

MovementsQuery(limit, page) == Query(Smaller(limit, Cap), limit, page, "younger")
TransfersQuery(limit, page) == Query(Smaller(limit, Cap), limit, page, "younger")
ImportsQuery(limit, page) == Query(Smaller(limit, Cap), limit, page, "none")
UsersQuery(limit, page) == Query(limit, limit, page, "none")
AuditQuery(limit, page) == Query(limit, limit, page, "none")
LogQuery(limit, page) == Query(limit, limit, page, "older")

QueryOf(list, limit, page) ==
  CASE list = "movements" -> MovementsQuery(limit, page)
    [] list = "transfers" -> TransfersQuery(limit, page)
    [] list = "imports" -> ImportsQuery(limit, page)
    [] list = "users" -> UsersQuery(limit, page)
    [] list = "audit" -> AuditQuery(limit, page)
    [] list = "log" -> LogQuery(limit, page)

\* Only the DTOs of movements and of the audit let a larger page through.
Sizes(list) == IF list \in {"movements", "audit"} THEN Limits
               ELSE {n \in Limits : n <= Cap}

\* The filters of a query pass "in".  The log is written with the levels of Nest and
\* asked with severities; an INFO is written as LOG.
Levels == {"LOG", "ERROR"}
LogFilter(severity) == IF severity = Nothing THEN Levels ELSE {severity} \cap Levels
Filters(list) == IF list = "log" THEN {LogFilter(s) : s \in {Nothing, "INFO", "ERROR"}}
                 ELSE {{"in"}}
Tags(list) == IF list = "log" THEN Levels ELSE {"in", "out"}

Live == {i \in Ids : entry[i] # Nothing}
Listed == {i \in Live : entry[i].tag \in walk.filter}

Before(q, i, j) ==
  \/ entry[i].key > entry[j].key
  \/ /\ entry[i].key = entry[j].key
     /\ \/ q.then = "younger" /\ i > j
        \/ q.then = "older" /\ i < j

\* The orders the database may answer in: rows that the query does not order
\* come as they come.
Orders(q) ==
  {s \in SetToSeqs(Listed) : \A a, b \in DOMAIN s : a < b => ~Before(q, s[b], s[a])}

Tied == \E i, j \in Listed : i # j /\ entry[i].key = entry[j].key

PageOf(q, s) == SubSeq(s, q.skip + 1, Smaller(q.skip + q.take, Len(s)))
-----------------------------------------------------------------------------
Now == Len(written)

Pages == walk.pages
From == Min({Pages[n].at : n \in DOMAIN Pages})
During == {written[k] : k \in From + 1 .. Now}
InTurn == \A m, n \in DOMAIN Pages : m < n => Pages[m].at <= Pages[n].at
Shown == UNION {ToSet(Pages[n].rows) : n \in DOMAIN Pages}
Once ==
  \A m, n \in DOMAIN Pages : \A a \in DOMAIN Pages[m].rows, b \in DOMAIN Pages[n].rows :
    Pages[m].rows[a] = Pages[n].rows[b] => m = n /\ a = b
Steady == {i \in Listed : entry[i].since <= From}

\* A query that orders its rows down to the last, or that had none to tell apart.
Orderly == \/ walk.list \in {"movements", "transfers", "log"}
           \/ \A n \in DOMAIN Pages : ~Pages[n].tied

\* MovementsQuery, ReadRows, CountRows: a screen that walks through all of the
\* pages, each no larger than the listing gives, read in their turn and in an
\* order down to the last row, shows every row that was there all the time unless
\* one went or moved meanwhile, and no row twice unless one came or moved.
PagesWhole ==
  walk.step = "done" /\ walk.limit <= Cap /\ InTurn /\ Orderly =>
    /\ During \subseteq {"add"} => Steady \subseteq Shown
    /\ During \subseteq {"drop"} => Once
=============================================================================

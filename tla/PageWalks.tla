----------------------------- MODULE PageWalks ------------------------------
(***************************************************************************)
(* A screen walks through the pages of a listing while rows are written. A *)
(* page is two queries, the rows and then their number, except of the log, *)
(* whose files are read at once; the pages of users may come from the      *)
(* query cache.                                                            *)
(***************************************************************************)
EXTENDS Listings

\* A page: its rows, how many there are of all, when it was read, and whether
\* rows had the same key then.
Answer(rows, total) == [rows |-> rows, total |-> total, at |-> Now, tied |-> Tied]

Walks(list, limit, filter) ==
  [list |-> list, limit |-> limit, filter |-> filter, step |-> "rows",
   pages |-> <<>>, part |-> Nothing, again |-> FALSE]

\* The screen asks for the next page until the pages cover the total it was told.
Shows(answer) ==
  LET pages == Append(walk.pages, answer)
  IN  walk' = [walk EXCEPT !.pages = pages, !.part = Nothing,
                 !.step = IF Len(pages) * walk.limit < answer.total THEN "rows" ELSE "done"]

Asked == Len(walk.pages) + 1
Cached == walk.list = "users" /\ Asked \in DOMAIN kept

FromCache ==
  /\ walk.step = "rows" /\ Cached
  /\ Shows(kept[Asked])
  /\ UNCHANGED <<entry, written, kept>>

\* The rows; also of a page whose 30 seconds in the cache are over.
ReadRows ==
  /\ walk.step = "rows"
  /\ \E s \in Orders(QueryOf(walk.list, walk.limit, Asked)) :
       LET rows == PageOf(QueryOf(walk.list, walk.limit, Asked), s)
       IN  IF walk.list = "log" THEN Shows(Answer(rows, Cardinality(Listed)))
           ELSE walk' = [walk EXCEPT !.part = Answer(rows, 0), !.step = "count"]
  /\ UNCHANGED <<entry, written, kept>>

CountRows ==
  /\ walk.step = "count"
  /\ LET answer == [walk.part EXCEPT !.total = Cardinality(Listed)]
     IN  /\ Shows(answer)
         /\ kept' = IF walk.list = "users"
                    THEN [n \in DOMAIN kept \cup {Asked} |->
                            IF n = Asked THEN answer ELSE kept[n]]
                    ELSE kept
  /\ UNCHANGED <<entry, written>>

\* The screen starts again, with what the cache holds.
StartAgain ==
  /\ walk.step = "done" /\ walk.list = "users" /\ ~walk.again
  /\ walk' = [Walks(walk.list, walk.limit, walk.filter) EXCEPT !.again = TRUE]
  /\ UNCHANGED <<entry, written, kept>>
-----------------------------------------------------------------------------
(* The writers.  The audit and the log only grow.                           *)
Write(kind) ==
  /\ Now < MaxWrites[walk.list] /\ walk.step # "done"
  /\ written' = Append(written, kind)
  /\ UNCHANGED <<walk, kept>>

Add(i, key, tag) ==
  /\ entry[i] = Nothing /\ \A j \in Live : j < i
  /\ \A j \in Ids : j < i => j \in Live \/ "drop" \in ToSet(written)
  /\ Write("add")
  /\ entry' = [entry EXCEPT ![i] = [key |-> key, tag |-> tag, since |-> Now + 1]]

Drop(i) ==
  /\ i \in Live /\ walk.list \notin {"audit", "log"}
  /\ Write("drop")
  /\ entry' = [entry EXCEPT ![i] = Nothing]

Revise(i, key, tag) ==
  /\ i \in Live /\ walk.list \notin {"audit", "log"}
  /\ <<key, tag>> # <<entry[i].key, entry[i].tag>>
  /\ Write("revise")
  /\ entry' = [entry EXCEPT ![i] = [key |-> key, tag |-> tag, since |-> Now + 1]]

Init ==
  /\ \E list \in Lists : \E limit \in Sizes(list), filter \in Filters(list) :
       walk = Walks(list, limit, filter)
  /\ \E stored \in SUBSET Ids :
       /\ stored # {} /\ \A i \in stored, j \in Ids \ stored : i < j
       /\ \E rows \in [stored -> [key: Keys, tag: Tags(walk.list) \ {"out"}, since: {0}]] :
            entry = [i \in Ids |-> IF i \in stored THEN rows[i] ELSE Nothing]
  /\ written = <<>> /\ kept = <<>>

Next ==
  \/ FromCache \/ ReadRows \/ CountRows \/ StartAgain
  \/ \E i \in Ids, key \in Keys, tag \in Tags(walk.list) : Add(i, key, tag) \/ Revise(i, key, tag)
  \/ \E i \in Ids : Drop(i)

Spec == Init /\ [][Next]_listingVars
=============================================================================

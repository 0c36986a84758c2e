------------------------------- MODULE Quotes -------------------------------
(***************************************************************************)
(* Quotes of financial assets: a refresh loads the assets of a user that   *)
(* have a symbol, asks the market for each at once, and stores the prices  *)
(* when all have answered.  PATCH and DELETE load a row and save it; the   *)
(* save of a PATCH writes what differs from the row there is then.         *)
(*                                                                         *)
(* A value is known by where it comes from: a form, or a symbol and the    *)
(* moment its price is of.                                                 *)
(***************************************************************************)
EXTENDS Integers, Functions

CONSTANTS
  Assets,     \* identities of assets
  Symbols,    \* symbols that the market knows
  Blank,      \* a symbol of blanks, or one the market does not know
  Calls,      \* identities of requests, each used again once it is answered
  MaxMoment,  \* how often the prices change
  MaxCalls,   \* requests, at most
  Changes,    \* what a PATCH names: records [value, currency, symbol]
  Unset

VARIABLES
  asset,      \* asset[a]: the row, or Unset
  moment,     \* the prices of now
  calling,    \* calling[k]: how far a request is, or Unset
  dirty,      \* dirty[a]: the fields a PATCH wrote since the last quote
  crossed,    \* assets written while a request held an older row of theirs
  called      \* requests so far

quoteVars == <<asset, moment, calling, dirty, crossed, called>>

Typed == [symbol |-> Unset, at |-> 0]        \* a value from a form
Zero == [symbol |-> Unset, at |-> -1]        \* the price of a quote that failed
Priced(s, at) == [symbol |-> s, at |-> at]

Asset(s) == [value |-> Typed, currency |-> Unset, symbol |-> s, live |-> TRUE]

Alive == {a \in Assets : asset[a] # Unset /\ asset[a].live}
Open(k, op) == calling[k] # Unset /\ calling[k].op = op
Arrive(k, call) ==
  /\ calling[k] = Unset /\ called < MaxCalls
  /\ calling' = [calling EXCEPT ![k] = call]
  /\ called' = called + 1
  /\ UNCHANGED <<asset, moment, dirty, crossed>>
Answered(k) == calling' = [calling EXCEPT ![k] = Unset]

\* Requests other than k whose save would put an older row, or the price of an
\* older one, over what a writes now.
Behind(k, a, ops) ==
  \E other \in Calls \ {k} : /\ calling[other] # Unset /\ calling[other].op \in ops
                             /\ a \in DOMAIN calling[other].rows
Crosses(k, a, ops) == crossed' = IF Behind(k, a, ops) THEN crossed \cup {a} ELSE crossed
-----------------------------------------------------------------------------
Create(a, s) ==
  /\ asset[a] = Unset
  /\ asset' = [asset EXCEPT ![a] = Asset(s)]
  /\ UNCHANGED <<moment, calling, dirty, crossed, called>>

\* findSymbolized: blanks are a symbol, too.
AskRefresh(k) ==
  Arrive(k, [op |-> "refresh", step |-> "fetch", quotes |-> <<>>,
             rows |-> [a \in {b \in Alive : asset[b].symbol # Unset} |-> asset[a]]])

\* The market answers for one asset, or does not; blanks are not asked for.
Fetch(k, a) ==
  /\ Open(k, "refresh") /\ calling[k].step = "fetch"
  /\ a \in DOMAIN calling[k].rows \ DOMAIN calling[k].quotes
  /\ LET s == calling[k].rows[a].symbol
     IN  \E quote \in {Zero} \cup (IF s = Blank THEN {} ELSE {Priced(s, moment)}) :
           calling' = [calling EXCEPT ![k].quotes =
                         [b \in DOMAIN @ \cup {a} |-> IF b = a THEN quote ELSE @[b]]]
  /\ UNCHANGED <<asset, moment, dirty, crossed, called>>

Successes(quotes) == {a \in DOMAIN quotes : quotes[a] # Zero}

\* Promise.all: nothing is stored before the last one answered.
FetchedAll(k) ==
  /\ Open(k, "refresh") /\ calling[k].step = "fetch"
  /\ DOMAIN calling[k].quotes = DOMAIN calling[k].rows
  /\ IF Successes(calling[k].quotes) = {} THEN Answered(k)
     ELSE calling' = [calling EXCEPT ![k].step = "store",
                                     ![k].quotes = Restrict(@, Successes(@))]
  /\ UNCHANGED <<asset, moment, dirty, crossed, called>>

\* Mutant: the price without the currency it is in.
StoreQuoteValue(k, a) ==
  /\ Open(k, "refresh") /\ calling[k].step = "store" /\ a \in DOMAIN calling[k].quotes
  /\ LET quote == calling[k].quotes[a]
         rest == Restrict(calling[k].quotes, DOMAIN calling[k].quotes \ {a})
     IN  /\ asset' = IF a \in Alive THEN [asset EXCEPT ![a].value = quote] ELSE asset
         /\ dirty' = IF a \in Alive THEN [dirty EXCEPT ![a] = {}] ELSE dirty
         /\ IF DOMAIN rest = {} THEN Answered(k)
            ELSE calling' = [calling EXCEPT ![k].quotes = rest]
  /\ Crosses(k, a, {"refresh", "patch"})
  /\ UNCHANGED <<moment, called>>

\* updateQuote sets both columns of a row that is not deleted.
StoreQuote(k, a) ==
  /\ Open(k, "refresh") /\ calling[k].step = "store" /\ a \in DOMAIN calling[k].quotes
  /\ LET quote == calling[k].quotes[a]
         rest == Restrict(calling[k].quotes, DOMAIN calling[k].quotes \ {a})
     IN  /\ asset' = IF a \in Alive
                     THEN [asset EXCEPT ![a].value = quote, ![a].currency = quote.symbol]
                     ELSE asset
         /\ dirty' = IF a \in Alive THEN [dirty EXCEPT ![a] = {}] ELSE dirty
         /\ IF DOMAIN rest = {} THEN Answered(k)
            ELSE calling' = [calling EXCEPT ![k].quotes = rest]
  /\ Crosses(k, a, {"refresh", "patch"})
  /\ UNCHANGED <<moment, called>>

AskPatch(k, a, changes) ==
  /\ a \in Alive
  /\ Arrive(k, [op |-> "patch", changes |-> changes, rows |-> [b \in {a} |-> asset[b]]])

\* The row as it was loaded, with the fields of the request.
Merged(row, changes) ==
  [row EXCEPT !.value = IF changes.value THEN Typed ELSE @,
              !.currency = IF changes.currency THEN Unset ELSE @,
              !.symbol = IF changes.symbol # Unset THEN changes.symbol ELSE @]

Fields(changes) == {f \in {"value", "currency"} : changes[f]}
                   \cup {f \in {"symbol"} : changes.symbol # Unset}

SavePatch(k) ==
  /\ Open(k, "patch")
  /\ \E a \in DOMAIN calling[k].rows :
       /\ asset' = [asset EXCEPT ![a] = Merged(calling[k].rows[a], calling[k].changes)]
       /\ dirty' = [dirty EXCEPT ![a] = @ \cup Fields(calling[k].changes)]
       /\ Crosses(k, a, {"refresh", "patch"})
  /\ Answered(k)
  /\ UNCHANGED <<moment, called>>

AskRemove(k, a) ==
  a \in Alive /\ Arrive(k, [op |-> "remove", rows |-> [b \in {a} |-> asset[b]]])

\* softRemove writes deleted_at alone.
SaveRemove(k) ==
  /\ Open(k, "remove")
  /\ \E a \in DOMAIN calling[k].rows :
       /\ asset' = [asset EXCEPT ![a].live = FALSE]
       /\ Crosses(k, a, {"patch"})
  /\ Answered(k)
  /\ UNCHANGED <<moment, dirty, called>>

PricesMove ==
  /\ moment < MaxMoment
  /\ moment' = moment + 1
  /\ UNCHANGED <<asset, calling, dirty, crossed, called>>

Init ==
  /\ asset = [a \in Assets |-> Unset]
  /\ moment = 1
  /\ calling = [k \in Calls |-> Unset]
  /\ dirty = [a \in Assets |-> {}]
  /\ crossed = {} /\ called = 0

Next ==
  \/ PricesMove
  \/ \E a \in Assets, s \in Symbols \cup {Blank, Unset} : Create(a, s)
  \/ \E k \in Calls : AskRefresh(k) \/ FetchedAll(k) \/ SavePatch(k) \/ SaveRemove(k)
  \/ \E k \in Calls, a \in Assets :
       \/ Fetch(k, a) \/ StoreQuote(k, a) \/ AskRemove(k, a)
       \/ \E changes \in Changes : AskPatch(k, a, changes)

Spec == Init /\ [][Next]_quoteVars
-----------------------------------------------------------------------------
Quoted(row) == row.value.symbol # Unset

\* StoreQuote, SavePatch: the price of a failed quote is never kept.  Unless a row
\* was written over from an older one, a quoted value has the currency it was
\* quoted in and the symbol it was asked for, until a PATCH names that field; its
\* quotes are of later and later moments, and what is deleted stays so.
QuotesHonest ==
  [][\A a \in Assets : asset'[a] # Unset =>
       /\ asset'[a].value # Zero
       /\ a \notin crossed' /\ Quoted(asset'[a]) =>
            /\ "currency" \notin dirty'[a] => asset'[a].currency = asset'[a].value.symbol
            /\ "symbol" \notin dirty'[a] => asset'[a].symbol = asset'[a].value.symbol
       /\ a \notin crossed' /\ asset[a] # Unset =>
            /\ asset'[a].live => asset[a].live
            /\ Quoted(asset[a]) /\ Quoted(asset'[a]) => asset'[a].value.at >= asset[a].value.at
     ]_quoteVars
=============================================================================

-------------------------- MODULE StatementParser --------------------------
(***************************************************************************)
(* The parser of bank statements: text items of a PDF become lines, a line *)
(* with a date becomes a movement, and the lines after it continue it.     *)
(*                                                                         *)
(* A text item is a record [page, y, x, kind, ...].  Horizontal positions  *)
(* are columns (Ref, Day, Text, Value, Count, Share, Balance from left to  *)
(* right); amounts are the characters that are printed; a word stands for  *)
(* a piece of description.  What is matched with a regular expression in   *)
(* the code is a set of words here.                                        *)
(***************************************************************************)
EXTENDS Integers, SequencesExt, Calendar

CONSTANTS
  Documents,      \* the PDFs: sequences of text items, in the order of pdf.js
  DetectPatterns, \* DetectPatterns[b]: the words that tell a statement of bank b
  BankOrder,      \* the banks, in the order they are tried
  ExpenseWords, IncomeWords,  \* EXPENSE_KEYWORDS, INCOME_KEYWORDS
  DefaultType,    \* the type the import asks for where the row does not tell
  MaxMovements,   \* MAX_TRANSACTIONS_PER_FILE
  ThisYear,       \* the year of the clock
  None

VARIABLES
  doc,      \* the document
  phase,    \* "extract", "read" or "done"
  layout,   \* the format, the year of the period and the columns of the header
  printed,  \* the lines of the document
  lines,    \* those that are left to read
  current,  \* the movement being read, or None
  pending,  \* words of lines below the movement being read
  out       \* the movements found

pvars == <<doc, phase, layout, printed, lines, current, pending, out>>

Ref == 1  Day == 2  Text == 3  Value == 4  Count == 5  Share == 6  Balance == 7
-----------------------------------------------------------------------------
(***************************************************************************)
(* parseAmount.                                                            *)
(***************************************************************************)
\* slice(0, n)
Take(s, n) == IF Len(s) <= n THEN s ELSE SubSeq(s, 1, n)

Digits == {"0", "1", "2", "3", "4", "5", "6", "7", "8", "9"}
DigitOf(c) == CHOOSE n \in 0 .. 9 : c = <<"0","1","2","3","4","5","6","7","8","9">>[n + 1]
Number(s) == FoldLeft(LAMBDA n, c : 10 * n + DigitOf(c), 0, s)

LastOf(s, c) == LET at == {k \in 1 .. Len(s) : s[k] = c}
                IN  IF at = {} THEN 0 ELSE CHOOSE k \in at : \A j \in at : j <= k

\* Mutant: the comma is always the decimal separator.
SplitAtComma(s) ==
  LET comma == LastOf(s, ",")
  IN  IF comma = 0 THEN <<Remove(s, "."), <<>>>>
      ELSE <<Remove(SubSeq(s, 1, comma - 1), "."), SubSeq(s, comma + 1, Len(s))>>

\* The digits before and after the decimal separator.  A single kind of
\* separator followed by three digits groups thousands, unless at most three
\* characters come before it.
Split(s) ==
  LET comma == LastOf(s, ",")
      dot   == LastOf(s, ".")
      last  == IF comma > dot THEN comma ELSE dot
      before == SubSeq(s, 1, last - 1)
      after  == SubSeq(s, last + 1, Len(s))
  IN  IF last = 0 THEN <<s, <<>>>>
      ELSE IF comma * dot = 0 /\ Len(after) = 3 /\ Len(before) > 3
           THEN <<Remove(s, s[last]), <<>>>>
           ELSE <<IF comma * dot = 0 THEN Remove(before, s[last])
                  ELSE SelectSeq(before, LAMBDA c : c \notin {",", "."}), after>>

\* The amount in cents, or None.
ParseAmount(raw) ==
  LET bare == SelectSeq(raw, LAMBDA c : c \notin {" ", "$"})
      parens == Len(bare) > 1 /\ Head(bare) = "(" /\ Last(bare) = ")"
      open  == IF parens THEN SubSeq(bare, 2, Len(bare) - 1) ELSE bare
      front == open # <<>> /\ Head(open) = "-"
      tail  == IF front THEN Tail(open) ELSE open
      back  == tail # <<>> /\ Last(tail) = "-"
      signless == IF back THEN Front(tail) ELSE tail
      parts == Split(IF signless # <<>> /\ Head(signless) = "+" THEN Tail(signless)
                     ELSE signless)
      decimals == Take(parts[2], 2)
      cents == IF Len(decimals) = 1 THEN 10 * Number(decimals) ELSE Number(decimals)
      value == 100 * Number(parts[1]) + cents
  IN  IF parts[1] = <<>> \/ ~ ToSet(parts[1] \o decimals) \subseteq Digits THEN None
      ELSE IF parens \/ front \/ back THEN -value ELSE value

-----------------------------------------------------------------------------
(***************************************************************************)
(* extractTextLines: items of a page whose heights differ by at most one   *)
(* unit form a line; a line reads from left to right and lines from top to *)
(* bottom, whatever their page.                                            *)
(***************************************************************************)
AddItem(ls, item) ==
  LET near == {k \in 1 .. Len(ls) : /\ ls[k].page = item.page
                                     /\ ls[k].y - item.y \in -1 .. 1}
  IN  IF near = {} THEN Append(ls, [page |-> item.page, y |-> item.y, items |-> <<item>>])
      ELSE LET k == CHOOSE k \in near : \A j \in near : k <= j
           IN  [ls EXCEPT ![k].items = Append(@, item)]

\* Array.sort, by the key of each element; it keeps the order of equal ones.
Sorted(s, key) ==
  LET Rank(k) == Cardinality({j \in 1 .. Len(s) : \/ key[j] < key[k]
                                                  \/ key[j] = key[k] /\ j <= k})
  IN  [r \in 1 .. Len(s) |-> s[CHOOSE k \in 1 .. Len(s) : Rank(k) = r]]

\* The number an amount stands for is read along with its line.
Read(item) == IF item.kind = "amount" THEN item @@ [cents |-> ParseAmount(item.raw)] ELSE item

ExtractTextLines(items) ==
  LET grouped == FoldLeft(AddItem, <<>>, [k \in 1 .. Len(items) |-> Read(items[k])])
      leftToRight(l) ==
        [l EXCEPT !.items = Sorted(l.items, [k \in 1 .. Len(l.items) |-> l.items[k].x])]
  IN  Sorted([k \in 1 .. Len(grouped) |-> leftToRight(grouped[k])],
             [k \in 1 .. Len(grouped) |-> -grouped[k].y])

-----------------------------------------------------------------------------
(***************************************************************************)
(* Dates and words.                                                        *)
(***************************************************************************)
\* buildDate, with the year of the period where the row prints none.
BuildDate(y, m, d) ==
  IF y \in 1900 .. 2100 /\ m \in 1 .. 12 /\ d \in 1 .. DaysInMonth(y, m)
  THEN Date(y, m, d) ELSE None

IsDate(i)   == i.kind = "date"
IsAmount(i) == i.kind = "amount" /\ i.cents # None
ValueOf(i)  == i.cents
Words(s)    == LET w == SelectSeq(s, LAMBDA i : i.kind = "word")
               IN  [k \in 1 .. Len(w) |-> w[k].word]
WordsOf(l)  == ToSet(Words(l.items))
InColumn(l, c) == SelectSeq(l.items, LAMBDA i : i.x = c)
First(s) == IF s = <<>> THEN None ELSE Head(s)
Abs(n) == IF n < 0 THEN -n ELSE n

-----------------------------------------------------------------------------
(***************************************************************************)
(* Which layout: the bank most of whose patterns match, its account layout *)
(* when the header and the dates without year show one, else the generic.  *)
(***************************************************************************)
Score(ls, b) == Cardinality({<<k, w>> \in (1 .. Len(ls)) \X DetectPatterns[b] :
                               w \in WordsOf(ls[k])})

DetectBank(ls) ==
  LET best == {b \in ToSet(BankOrder) : \A c \in ToSet(BankOrder) :
                                          Score(ls, c) <= Score(ls, b)}
      b == Head(SelectSeq(BankOrder, LAMBDA c : c \in best))
  IN  IF Score(ls, b) = 0 THEN None ELSE b

HasAccountLayout(ls) ==
  /\ \E k \in 1 .. Len(ls) : {"DCTO", "VALOR", "SALDO"} \subseteq WordsOf(ls[k])
  /\ \E k \in 1 .. Len(ls) : \E i \in ToSet(ls[k].items) : IsDate(i) /\ i.form = "dd/mm"

FormatOf(ls) ==
  LET b == DetectBank(ls)
  IN  CASE b \in {"rappicard", "nu"} -> b
        [] b \notin {"rappicard", "nu"} /\ HasAccountLayout(ls) -> "account"
        [] b = "bancolombia" /\ ~HasAccountLayout(ls) -> "card"
        [] OTHER -> "generic"

-----------------------------------------------------------------------------
(***************************************************************************)
(* Rows of the fixed layouts.  History: page and y say where a movement    *)
(* was read.                                                               *)
(***************************************************************************)
Movement(l, date, value, negative, text) ==
  [page |-> l.page, y |-> l.y, date |-> date, amount |-> Abs(value),
   type |-> IF (value < 0) = (negative = "expense") THEN "expense" ELSE "income",
   text |-> text, balance |-> None, quota |-> None]

\* The year of the period, that of its first day.
YearOf(ls) ==
  LET periods == {k \in 1 .. Len(ls) : \E i \in ToSet(ls[k].items) : i.kind = "period"}
      k == CHOOSE k \in periods : \A j \in periods : k <= j
  IN  IF periods = {} THEN ThisYear
      ELSE (CHOOSE i \in ToSet(ls[k].items) : i.kind = "period").from

\* extractInstallments: the number of quotas and the amount of one.
Quota(l, value) ==
  LET right == SelectSeq(l.items, LAMBDA i : i.x > Value)
      Small(i) == i.kind = "amount" /\ Len(i.raw) <= 3 /\ ToSet(i.raw) \subseteq Digits
      counts == SelectSeq(right, LAMBDA i : Small(i) /\ Number(i.raw) >= 1)
      count == Number(Head(counts).raw)
      after == SelectSeq(right, LAMBDA i : i.x > Head(counts).x)
      shares == SelectSeq(Take(after, 2),
                  LAMBDA i : /\ ~Small(i) /\ IsAmount(i) /\ ValueOf(i) # 0
                             /\ 2 * Abs(ValueOf(i)) <= 3 * Abs(value))
  IN  IF counts = <<>> THEN None
      ELSE CASE count = 1 -> [count |-> 1, share |-> None]
             [] count > 1 /\ shares # <<>> /\ ValueOf(Head(shares)) > 0 ->
                  [count |-> count, share |-> ValueOf(Head(shares))]
             [] OTHER -> [count |-> count,
                          share |-> IF value > 0 THEN value \div count ELSE None]

\* The movement of a line with a day of this form and an amount, or None; the year
\* is that of the period unless the form prints one.
PaidRow(l, form, year, negative) ==
  LET day  == First(SelectSeq(InColumn(l, Day), LAMBDA i : IsDate(i) /\ i.form = form))
      paid == First(SelectSeq(InColumn(l, Value), IsAmount))
      DateOf(d) == BuildDate(IF form = "dd/mm/yyyy" THEN d.y4 ELSE year, d.m, d.d)
  IN  IF day = None THEN None
      ELSE IF DateOf(day) = None \/ paid = None THEN None
      ELSE IF ValueOf(paid) = 0 THEN None
      ELSE Movement(l, DateOf(day), ValueOf(paid), negative, Words(InColumn(l, Text)))

CardRow(l) ==
  LET row == PaidRow(l, "dd/mm/yyyy", None, "income")
  IN  IF row = None THEN None
      ELSE IF "ABONO SUCURSAL VIRTUAL" \in ToSet(row.text) THEN None
      ELSE [row EXCEPT !.quota = Quota(l, IF row.type = "income" THEN -row.amount ELSE row.amount)]

NuRow(l, year) == PaidRow(l, "dd mon", year, "expense")

AccountRow(l, year) ==
  LET row  == PaidRow(l, "dd/mm", year, "expense")
      left == First(SelectSeq(InColumn(l, Balance), IsAmount))
  IN  IF row = None \/ left = None THEN row
      ELSE [row EXCEPT !.balance = Abs(ValueOf(left))]

\* The formats that read each line by itself.
FixedRow(f, l, year) ==
  CASE f = "card" -> CardRow(l) [] f = "nu" -> NuRow(l, year) [] OTHER -> AccountRow(l, year)

-----------------------------------------------------------------------------
(***************************************************************************)
(* The generic layout: columns of the header, classifyMovement.            *)
(***************************************************************************)
\* detectColumnLayout: the place of the first item that names the column.
ColumnOf(ls, word) ==
  LET items == FlattenSeq([k \in 1 .. Len(ls) |-> ls[k].items])
      named == SelectSeq(items, LAMBDA i : i.kind = "word" /\ i.word = word)
  IN  IF named = <<>> THEN None ELSE Head(named).x

LayoutOf(ls) == [format |-> FormatOf(ls), year |-> YearOf(ls),
                 debit |-> ColumnOf(ls, "debito"), credit |-> ColumnOf(ls, "credito"),
                 balance |-> ColumnOf(ls, "saldo")]

NoiseWords == {"saldo anterior", "resumen"}

\* isNumericToken: no currency sign, no parenthesis, a sign only in front.
Numeric(s) == SelectSeq(s, LAMBDA i : /\ IsAmount(i)
                                      /\ ToSet(i.raw) \cap {"$", "(", ")"} = {}
                                      /\ "-" \notin ToSet(Tail(i.raw)))
Flag(i) == IF Len(i.raw) < 3 THEN <<>> ELSE SubSeq(i.raw, Len(i.raw) - 2, Len(i.raw))

\* The index of the amount nearest to a column, 0 without column or amount.
Pick(nums, column) ==
  IF column = None \/ nums = <<>> THEN 0
  ELSE CHOOSE k \in 1 .. Len(nums) : \A j \in 1 .. Len(nums) :
         \/ Abs(nums[k].x - column) < Abs(nums[j].x - column)
         \/ Abs(nums[k].x - column) = Abs(nums[j].x - column) /\ k <= j

Without(nums, k) == IF k = 0 THEN nums ELSE RemoveAt(nums, k)
Size(nums, k) == IF k = 0 THEN 0 ELSE Abs(ValueOf(nums[k]))

Booked(debit, credit, balance) ==
  [amount |-> IF debit > 0 THEN debit ELSE credit,
   type |-> CASE debit > 0 /\ credit > 0 -> DefaultType
              [] debit > 0 /\ credit = 0 -> "expense"
              [] OTHER -> "income",
   balance |-> balance]

\* Amounts go to the debit, the credit and the balance column in this order,
\* each taking the nearest one that is left.
ByColumns(nums) ==
  LET d  == Pick(nums, layout.debit)
      n1 == Without(nums, d)
      c  == Pick(n1, layout.credit)
      n2 == Without(n1, c)
      b  == Pick(n2, layout.balance)
  IN  IF Size(nums, d) + Size(n1, c) = 0 THEN None
      ELSE Booked(Size(nums, d), Size(n1, c), IF b = 0 THEN None ELSE Size(n2, b))

ByPosition(nums) ==
  IF Len(nums) < 3 \/ Size(nums, 1) + Size(nums, 2) = 0 THEN None
  ELSE Booked(Size(nums, 1), Size(nums, 2), Size(nums, 3))

BySign(i, text) ==
  LET expense == ValueOf(i) < 0 \/ Flag(i) = <<" ", "D", "B">>
      income  == Flag(i) = <<" ", "C", "R">>
      type == CASE expense -> "expense"
                [] ~expense /\ income -> "income"
                [] ~(expense \/ income) /\ text \cap ExpenseWords # {} -> "expense"
                [] ~(expense \/ income) /\ text \cap ExpenseWords = {}
                     /\ text \cap IncomeWords # {} -> "income"
                [] OTHER -> DefaultType
  IN  IF ValueOf(i) = 0 THEN None
      ELSE [amount |-> Abs(ValueOf(i)), type |-> type, balance |-> None]

ClassifyMovement(nums, text) ==
  LET columns  == IF layout.debit = None /\ layout.credit = None THEN None
                  ELSE ByColumns(nums)
      position == ByPosition(nums)
  IN  CASE columns # None -> columns
        [] columns = None /\ position # None -> position
        [] OTHER -> BySign(Last(nums), text)

-----------------------------------------------------------------------------
(***************************************************************************)
(* Steps.                                                                  *)
(***************************************************************************)
\* The movement being read is complete.
Finalized ==
  LET text == current.text \o pending
      m == IF layout.format = "rappicard"
           THEN [amount |-> Abs(current.value), balance |-> None, quota |-> current.quota,
                 type |-> IF current.value < 0 THEN "income" ELSE "expense"]
           ELSE ClassifyMovement(current.nums, ToSet(text)) 
  IN  IF current = None THEN out
      ELSE IF m = None THEN out
      ELSE IF m.amount = 0 THEN out
      ELSE Append(out, [page |-> current.page, y |-> current.y, date |-> current.date,
                        amount |-> m.amount, type |-> m.type, text |-> text,
                        balance |-> m.balance,
                        quota |-> IF layout.format = "rappicard" THEN m.quota ELSE None])

Line == Head(lines)
NextLine(formats) ==
  /\ phase = "read" /\ lines # <<>>
  /\ layout.format \in formats
  /\ lines' = Tail(lines)
  /\ UNCHANGED <<doc, phase, layout, printed>>
Unaffected == UNCHANGED <<current, pending, out>>

Extract ==
  /\ phase = "extract"
  /\ phase' = "read"
  /\ printed' = ExtractTextLines(doc)
  /\ lines' = printed'
  /\ layout' = LayoutOf(lines')
  /\ UNCHANGED <<doc, current, pending, out>>

ReadFixedRow ==
  /\ NextLine({"card", "nu", "account"})
  /\ LET row == FixedRow(layout.format, Line, layout.year)
     IN  out' = IF row = None THEN out ELSE Append(out, row)
  /\ UNCHANGED <<current, pending>>

\* parseRappiCard: a dated line starts a movement; the lines below it on the
\* same page continue its description.
RappiDay == First(SelectSeq(InColumn(Line, Day), LAMBDA i : IsDate(i) /\ i.form = "iso"))

ReadRappiRow ==
  /\ NextLine({"rappicard"})
  /\ RappiDay # None
  /\ out' = Finalized
  /\ LET paid  == First(InColumn(Line, Value))
         value == IF paid = None THEN 0 ELSE IF ValueOf(paid) = None THEN 0 ELSE ValueOf(paid)
     IN  current' = [page |-> Line.page, y |-> Line.y,
                     date |-> Date(RappiDay.y4, RappiDay.m, RappiDay.d),
                     value |-> value, text |-> Words(InColumn(Line, Text)),
                     quota |-> Quota(Line, value)]
  /\ UNCHANGED pending

\* Mutant: without the comparison of pages.
ContinueRappiRowOfAnyPage ==
  /\ NextLine({"rappicard"})
  /\ RappiDay = None
  /\ IF current = None THEN UNCHANGED current
     ELSE current' = [current EXCEPT !.text = @ \o Words(InColumn(Line, Text))]
  /\ UNCHANGED <<pending, out>>

ContinueRappiRow ==
  /\ NextLine({"rappicard"})
  /\ RappiDay = None
  /\ IF current = None THEN UNCHANGED current
     ELSE IF Line.page = current.page /\ Line.y < current.y
          THEN current' = [current EXCEPT !.text = @ \o Words(InColumn(Line, Text))]
          ELSE UNCHANGED current
  /\ UNCHANGED <<pending, out>>

\* parseStatementLines without a known layout.
Noise == WordsOf(Line) \cap NoiseWords # {}
DayAt == {k \in 1 .. Len(Line.items) :
            /\ Line.items[k].x < Value
            /\ IsDate(Line.items[k]) /\ Line.items[k].form \in {"iso", "dd/mm/yyyy"}
            /\ BuildDate(Line.items[k].y4, Line.items[k].m, Line.items[k].d) # None}

SkipNoise ==
  /\ NextLine({"generic"})
  /\ Noise
  /\ pending' = <<>>
  /\ UNCHANGED <<current, out>>

ReadDatedLine ==
  /\ NextLine({"generic"})
  /\ ~Noise /\ DayAt # {}
  /\ LET at   == CHOOSE k \in DayAt : \A j \in DayAt : k <= j
         day  == Line.items[at]
         left == SubSeq(Line.items, 1, at - 1)
         rest == SubSeq(Line.items, at + 1, Len(Line.items))
         nums == Numeric(rest)
         text == SelectSeq(rest, LAMBDA i : \A n \in ToSet(nums) : i.x < n.x)
     IN  IF nums = <<>> THEN UNCHANGED <<current, out>>
         ELSE /\ out' = Finalized
              /\ current' = [page |-> Line.page, y |-> Line.y,
                             date |-> Date(day.y4, day.m, day.d),
                             text |-> Words(left) \o Words(text), nums |-> nums]
  /\ pending' = <<>>

ReadLineBelow ==
  /\ NextLine({"generic"})
  /\ ~Noise /\ DayAt = {}
  /\ IF current = None THEN Unaffected
     ELSE IF Numeric(Line.items) # <<>>
          THEN /\ current' = [current EXCEPT !.nums = @ \o Numeric(Line.items),
                                             !.text = @ \o Words(Line.items)]
               /\ pending' = <<>>
               /\ UNCHANGED out
          ELSE /\ pending' = pending \o Words(Line.items)
               /\ UNCHANGED <<current, out>>

\* Mutant: the row being read when the document ends is lost.
FinishWithoutLast ==
  /\ phase = "read" /\ lines = <<>>
  /\ out' = Take(out, MaxMovements)
  /\ phase' = "done"
  /\ current' = None /\ pending' = <<>>
  /\ UNCHANGED <<doc, layout, printed, lines>>

Finish ==
  /\ phase = "read" /\ lines = <<>>
  /\ out' = Take(Finalized, MaxMovements)
  /\ phase' = "done"
  /\ current' = None /\ pending' = <<>>
  /\ UNCHANGED <<doc, layout, printed, lines>>

Init ==
  /\ doc \in Documents
  /\ phase = "extract" /\ layout = None
  /\ printed = <<>> /\ lines = <<>> /\ current = None /\ pending = <<>> /\ out = <<>>

Next == \/ Extract \/ ReadFixedRow \/ ReadRappiRow \/ ContinueRappiRow
        \/ SkipNoise \/ ReadDatedLine \/ ReadLineBelow \/ Finish

Spec == Init /\ [][Next]_pvars

-----------------------------------------------------------------------------
(***************************************************************************)
(* Properties.  All speak of the document itself: its lines from top to    *)
(* bottom, and the number n that each amount was printed from.             *)
(***************************************************************************)
StartsRow(l) ==
  CASE layout.format = "rappicard" ->
         \E i \in ToSet(InColumn(l, Day)) : IsDate(i) /\ i.form = "iso"
    [] layout.format = "generic" ->
         /\ WordsOf(l) \cap NoiseWords = {}
         /\ \E i \in ToSet(l.items) : /\ IsDate(i) /\ i.x < Value
                                      /\ i.form \in {"iso", "dd/mm/yyyy"}
                                      /\ BuildDate(i.y4, i.m, i.d) # None
                                      /\ \E n \in ToSet(Numeric(l.items)) : n.x > i.x
    [] OTHER -> FixedRow(layout.format, l, layout.year) # None

\* The lines that belong to the row at height y of a page: itself and those
\* below it, down to the next row of the page.
Block(page, y) ==
  {l \in ToSet(printed) :
     /\ l.page = page /\ l.y <= y
     /\ \A r \in ToSet(printed) : r.page = page /\ StartsRow(r) /\ r.y < y => l.y > r.y}

OnePage == \A i, j \in ToSet(doc) : i.page = j.page

\* A movement is described by words of its own row and of the lines that
\* continue it: always in the RappiCard layout, whose pages arrive interleaved,
\* and in the other layouts when the document has one page.
OwnWords ==
  phase = "done" /\ (layout.format = "rappicard" \/ OnePage) =>
    \A m \in ToSet(out) : \A w \in ToSet(m.text) :
      \E l \in Block(m.page, m.y) : w \in WordsOf(l)

\* Every row whose amounts are not zero is booked, once, and in the order of the
\* document, the last row and the first row of a page included.
EveryRowBooked ==
  phase = "done" /\ Len(out) < MaxMovements =>
    LET rows == SelectSeq(printed, LAMBDA l :
                  /\ StartsRow(l)
                  /\ \A i \in ToSet(l.items) : i.kind = "amount" /\ i.x >= Value => i.n # 0
                  /\ \E i \in ToSet(l.items) : i.kind = "amount" /\ i.x = Value)
        booked == SelectSeq(out, LAMBDA m : \E k \in 1 .. Len(rows) :
                                  rows[k].page = m.page /\ rows[k].y = m.y)
    IN  /\ Len(booked) = Len(rows)
        /\ \A k \in 1 .. Len(rows) : rows[k].page = booked[k].page /\ rows[k].y = booked[k].y

\* A movement has the amount that is printed in its row, cent for cent, and its
\* sign: that of the value in the layouts that print one, and under a header the
\* column of a row that fills the debit, the credit and the balance.
PrintedAmount(m) ==
  LET block == UNION {ToSet(l.items) : l \in Block(m.page, m.y)}
      row == UNION {ToSet(l.items) : l \in {l \in Block(m.page, m.y) : l.y = m.y}}
      At(x) == CHOOSE i \in row : i.kind = "amount" /\ i.x = x
      Filled == \A x \in {layout.debit, layout.credit, layout.balance} :
                  x # None /\ \E i \in row : i.kind = "amount" /\ i.x = x
  IN  CASE layout.format \in {"card", "rappicard"} ->
             m.amount = Abs(At(Value).n) /\ (m.type = "income" <=> At(Value).n < 0)
        [] layout.format \in {"nu", "account"} ->
             m.amount = Abs(At(Value).n) /\ (m.type = "expense" <=> At(Value).n < 0)
        [] layout.format = "generic" /\ Filled ->
             LET d == At(layout.debit).n  c == At(layout.credit).n
             IN  d * c = 0 /\ d + c # 0 =>
                   /\ m.amount = d + c
                   /\ m.type = "expense" <=> d > 0
                   /\ m.balance = At(layout.balance).n
        [] OTHER -> \E i \in block : i.kind = "amount" /\ m.amount = Abs(i.n)

AmountsAsPrinted == phase = "done" => \A m \in ToSet(out) : PrintedAmount(m)
=============================================================================

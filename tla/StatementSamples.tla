-------------------------- MODULE StatementSamples --------------------------
(***************************************************************************)
(* Statements for the parser: every document of three lines of the         *)
(* RappiCard and of the generic layout, with and without a header, and of  *)
(* two lines of the card, Nu and account layouts.  An amount carries the   *)
(* number n it was printed from and its characters raw.                    *)
(***************************************************************************)
EXTENDS Integers, SequencesExt, TLC

LOCAL DigitChars == <<"0", "1", "2", "3", "4", "5", "6", "7", "8", "9">>
DigitsOf[n \in Nat] ==
  IF n < 10 THEN <<DigitChars[n + 1]>>
  ELSE Append(DigitsOf[n \div 10], DigitChars[(n % 10) + 1])

\* Thousands grouped with a separator.
Grouped[s \in Seq(ToSet(DigitChars)), sep \in {",", "."}] ==
  IF Len(s) <= 3 THEN s
  ELSE Grouped[SubSeq(s, 1, Len(s) - 3), sep] \o <<sep>> \o SubSeq(s, Len(s) - 2, Len(s))

\* n cents as a bank prints them, with sep between thousands.
WrittenAmount(n, sep) ==
  LET abs == IF n < 0 THEN -n ELSE n
      cents == <<DigitChars[((abs % 100) \div 10) + 1], DigitChars[(abs % 10) + 1]>>
  IN  (IF n < 0 THEN <<"-">> ELSE <<>>) \o Grouped[DigitsOf[abs \div 100], sep]
      \o <<IF sep = "." THEN "," ELSE ".">> \o cents

LOCAL Place(page, y, x) == [page |-> page, y |-> y, x |-> x]
Word(page, y, x, w) == [kind |-> "word", word |-> w] @@ Place(page, y, x)
DateItem(page, y, x, form, y4, m, d) ==
  [kind |-> "date", form |-> form, y4 |-> y4, m |-> m, d |-> d] @@ Place(page, y, x)
Amount(page, y, x, n, sep) ==
  [kind |-> "amount", n |-> n, raw |-> WrittenAmount(n, sep)] @@ Place(page, y, x)
Small(page, y, x, n) == [kind |-> "amount", n |-> 100 * n, raw |-> DigitsOf[n]] @@ Place(page, y, x)

\* The columns of StatementParser.
Ref == 1  Day == 2  Text == 3  Value == 4  Count == 5  Share == 6  Balance == 7

Label(k) == <<"w1", "w2", "w3">>[k]
Height(k) == 10 * (6 - k)

\* pdf.js yields the lines of a page in any order, here from the last to the first.
LOCAL Upwards(lines) == Reverse(FlattenSeq(lines))

RappiLine(k) ==
  UNION {{ <<DateItem(p, Height(k), Day, "iso", 2025, 2, 28), Word(p, Height(k), Text, Label(k)),
             Amount(p, Height(k) + 1, Value, -150000000, "."), Small(p, Height(k), Count, 3)>>,
           <<Word(p, Height(k), Text, Label(k))>>,
           <<DateItem(p, Height(k), Day, "iso", 2025, 2, 28), Word(p, Height(k), Text, Label(k))>>} :
         p \in {1, 2}}
Rappi == {Append(Upwards(l), Word(1, 90, Ref, "Tasa M.V")) :
            l \in RappiLine(1) \X RappiLine(2) \X RappiLine(3)}

GenericLine(k) ==
  LET y == Height(k)
      day == DateItem(1, y, Day, "dd/mm/yyyy", 2024, 2, 29)
      word == Word(1, y, Text, Label(k))
  IN  { <<day, word, Amount(1, y, 4, 123456, "."), Amount(1, y, 5, 0, "."), Amount(1, y, 6, 99900, ".")>>,
        <<day, word, Amount(1, y, 4, 0, ","), Amount(1, y, 5, 123456789, ","), Amount(1, y, 6, 99900, ",")>>,
        <<day, word, Amount(1, y, 4, -5000, ".")>>,
        <<day, word>>,
        <<word>>,
        <<word, Amount(1, y, 6, 7700, ".")>>,
        <<Word(1, y, Text, "resumen")>> }
Header == <<Word(1, 95, 4, "debito"), Word(1, 95, 5, "credito"), Word(1, 95, 6, "saldo")>>
Generic == {Upwards(l) \o h : l \in GenericLine(1) \X GenericLine(2) \X GenericLine(3),
                              h \in {<<>>, Header}}

FixedLine(k) ==
  LET y == Height(k)
      Form(f) == DateItem(1, y, Day, f, 2024, 2, 29)
  IN  {<<Form(f), Word(1, y, Text, Label(k)), Amount(1, y, Value, n, "."), Small(1, y, Count, 3),
         Amount(1, y, Share, 4200, "."), Amount(1, y, Balance, 880000, ".")>> :
          f \in {"dd/mm/yyyy", "dd mon", "dd/mm"}, n \in {-12600, 12600, 0}}
      \cup {<<Word(1, y, Text, Label(k))>>,
            <<Form("dd/mm/yyyy"), Word(1, y, Text, "ABONO SUCURSAL VIRTUAL"),
              Amount(1, y, Value, -500, ".")>>}
Marks == {<<Word(1, 95, Text, "Couta/Abono")>>,
          <<Word(1, 95, Text, "Nu Placa"), [kind |-> "period", from |-> 2024] @@ Place(1, 96, Text)>>,
          <<Word(1, 95, Ref, "DCTO"), Word(1, 95, Value, "VALOR"), Word(1, 95, Balance, "SALDO")>>}
Fixed == {Upwards(l) \o m : l \in FixedLine(1) \X FixedLine(2), m \in Marks}

Documents == Rappi \cup Generic \cup Fixed

BankOrder == <<"bancolombia", "rappicard", "nu">>
DetectPatterns ==
  [bancolombia |-> {"Couta/Abono"}, rappicard |-> {"Tasa M.V"}, nu |-> {"Nu Placa"}]
=============================================================================

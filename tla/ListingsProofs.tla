--------------------------- MODULE ListingsProofs ---------------------------
(***************************************************************************)
(* A walk through the pages of a listing, for any number of rows, sizes of *)
(* a page and writes: what PagesWhole says of the rows shown.              *)
(*                                                                         *)
(* The place of a row is the number of rows that the order has up to it.   *)
(* Rows that come only push a row back, rows that go only pull it forward, *)
(* and the n-th page has the rows whose places are the n-th stretch of     *)
(* the size of a page.  A row that stays while others come is therefore on *)
(* the first page whose end it does not lie beyond; a row on one page      *)
(* cannot be on a later one while others go.                               *)
(***************************************************************************)
EXTENDS PageWalks, FiniteSetTheorems, SequenceTheorems, WellFoundedInduction, TLAPS

Words == {"in", "out"} \cup Levels
Entry == [key: Keys, tag: Words, since: Nat]
Page == [rows: Seq(Ids), total: Nat, at: Nat, tied: BOOLEAN]
Walk == [list: Lists, limit: Nat \ {0}, filter: SUBSET Words,
         step: {"rows", "count", "done"}, pages: Seq(Page), part: Page \cup {Nothing},
         again: BOOLEAN]

PagesTypeOK ==
  /\ entry \in [Ids -> Entry \cup {Nothing}]
  /\ written \in Seq({"add", "drop", "revise"})
  /\ walk \in Walk
  /\ walk.step = "count" => walk.part \in Page
  /\ DOMAIN kept \subseteq Nat \ {0} /\ kept \in [DOMAIN kept -> Page]
  /\ \A i \in Live : entry[i].since <= Now

\* The pages that a screen has or may get, by their number.
Read(n) ==
  {walk.pages[k] : k \in {n} \cap DOMAIN walk.pages}
    \cup {kept[k] : k \in {n} \cap DOMAIN kept}
    \cup (IF walk.step = "count" /\ n = Asked THEN {walk.part} ELSE {})
Numbers == DOMAIN walk.pages \cup DOMAIN kept \cup {Asked}

\* The order of a listing, and the place of a row in it: how many rows there are up to
\* it, now or among those that were there at a.
Earlier(i, j) == Before(QueryOf(walk.list, walk.limit, 1), i, j)
UpTo(i) == {j \in Listed : j = i \/ Earlier(j, i)}
PlaceNow(i) == Cardinality(UpTo(i))
AsOf(a) == {i \in Listed : entry[i].since <= a}
Place(a, i) == Cardinality(UpTo(i) \cap AsOf(a))

\* Whether the order told all rows apart when the page was read.
Clear(p) == walk.list \in {"movements", "transfers", "log"} \/ ~p.tied

\* The writes after a, and until b, are all of one kind.
Only(kind, a, b) == \A k \in a + 1 .. b : written[k] = kind

\* While rows come, the n-th page has all that had their place on it; while they go,
\* what it shows stays within the first n pages; and just read, it shows what is
\* beyond the pages before it.
HasItsRows(n, p) ==
  Clear(p) /\ Only("add", p.at, Now) =>
    \A i \in AsOf(p.at) :
      (n - 1) * walk.limit < Place(p.at, i) /\ Place(p.at, i) <= n * walk.limit
        => \E a \in DOMAIN p.rows : p.rows[a] = i
StaysWithin(n, p) ==
  Only("drop", p.at, Now) =>
    \A a \in DOMAIN p.rows :
      p.rows[a] \in Listed => PlaceNow(p.rows[a]) <= n * walk.limit
IsBeyond(n, p) ==
  p.at = Now /\ Clear(p) =>
    \A a \in DOMAIN p.rows :
      p.rows[a] \in Listed /\ (n - 1) * walk.limit < PlaceNow(p.rows[a])
OneByOne(p) == \A a, b \in DOMAIN p.rows : p.rows[a] = p.rows[b] => a = b

PageInv(n, p) ==
  p.at <= Now /\ HasItsRows(n, p) /\ StaysWithin(n, p) /\ IsBeyond(n, p) /\ OneByOne(p)

\* No row is on two pages if rows only went between the two, and the first was read
\* no later.
Apart(m, p, n, q) ==
  m < n /\ p.at <= q.at /\ Clear(q) /\ Only("drop", p.at, q.at) =>
    \A a \in DOMAIN p.rows, b \in DOMAIN q.rows : p.rows[a] # q.rows[b]

\* The total that came with a page covers the rows there were when it was read.
Covers(p) == Only("add", p.at, Now) => Cardinality(AsOf(p.at)) <= p.total

ReadInv ==
  walk.limit <= Cap =>
    /\ \A n \in Numbers : \A p \in Read(n) : PageInv(n, p)
    /\ \A m, n \in Numbers : \A p \in Read(m), q \in Read(n) : Apart(m, p, n, q)
Told == {walk.pages[k] : k \in DOMAIN walk.pages} \cup {kept[k] : k \in DOMAIN kept}
CoverInv ==
  /\ walk.limit <= Cap => \A p \in Told : Covers(p)
  /\ walk.step = "done" =>
       /\ walk.pages # <<>>
       /\ walk.pages[Len(walk.pages)].total <= Len(walk.pages) * walk.limit

PagesInv == PagesTypeOK /\ ReadInv /\ CoverInv
-----------------------------------------------------------------------------
(***************************************************************************)
(* The order of a listing and the places of its rows.                      *)
(***************************************************************************)
LEMMA PageEnds ==
  ASSUME NEW n \in Nat \ {0}, NEW limit \in Nat \ {0}
  PROVE  /\ (n - 1) * limit \in Nat /\ n * limit \in Nat
         /\ n * limit = (n - 1) * limit + limit
  OBVIOUS

LEMMA PagesAscend ==
  ASSUME NEW m \in Nat \ {0}, NEW n \in Nat \ {0}, NEW limit \in Nat \ {0}, m < n
  PROVE  m * limit <= (n - 1) * limit
  <1>1. PICK k \in Nat : n - 1 = m + k
    <2>1. n - 1 - m \in Nat /\ n - 1 = m + (n - 1 - m)
      OBVIOUS
    <2> QED
      BY <2>1
  <1>2. (m + k) * limit = m * limit + k * limit /\ k * limit \in Nat /\ m * limit \in Nat
    OBVIOUS
  <1> QED
    BY <1>1, <1>2

\* What the n-th query of a walk takes and skips; its order is that of the first.
LEMMA QueryTakes ==
  ASSUME NEW list \in Lists, NEW limit \in Nat \ {0}, limit <= Cap, NEW n \in Nat \ {0}
  PROVE  LET q == QueryOf(list, limit, n)
         IN  /\ q.take = limit /\ q.skip = (n - 1) * limit
             /\ q.then = QueryOf(list, limit, 1).then
  <1>1. Smaller(limit, Cap) = limit
    BY ListingAssumption DEF Smaller
  <1>2. CASE list = "movements"
    BY <1>1, <1>2 DEF QueryOf, MovementsQuery, Query
  <1>3. CASE list = "transfers"
    BY <1>1, <1>3 DEF QueryOf, TransfersQuery, Query
  <1>4. CASE list = "imports"
    BY <1>1, <1>4 DEF QueryOf, ImportsQuery, Query
  <1>5. CASE list = "users"
    BY <1>5 DEF QueryOf, UsersQuery, Query
  <1>6. CASE list = "audit"
    BY <1>6 DEF QueryOf, AuditQuery, Query
  <1>7. CASE list = "log"
    BY <1>7 DEF QueryOf, LogQuery, Query
  <1> QED
    BY <1>2, <1>3, <1>4, <1>5, <1>6, <1>7 DEF Lists

LEMMA OrderOfAll ==
  ASSUME PagesTypeOK, walk.limit <= Cap, NEW n \in Nat \ {0}, NEW i, NEW j
  PROVE  Before(QueryOf(walk.list, walk.limit, n), i, j) <=> Earlier(i, j)
  <1>1. walk.list \in Lists /\ walk.limit \in Nat \ {0}
    BY DEF PagesTypeOK, Walk
  <1>2. QueryOf(walk.list, walk.limit, n).then = QueryOf(walk.list, walk.limit, 1).then
    BY <1>1, QueryTakes
  <1> QED
    BY <1>2 DEF Before, Earlier

LEMMA RowTypes ==
  ASSUME PagesTypeOK, NEW i \in Live
  PROVE  /\ i \in Ids /\ i \in Nat
         /\ entry[i].key \in Int /\ entry[i].since \in Nat /\ entry[i].since <= Now
  BY ListingAssumption DEF PagesTypeOK, Live, Entry

LEMMA ListedFinite ==
  /\ Listed \subseteq Ids /\ Listed \subseteq Live
  /\ \A S \in SUBSET Listed : IsFiniteSet(S) /\ Cardinality(S) \in Nat
  <1>1. Listed \subseteq Ids /\ Listed \subseteq Live
    BY DEF Listed, Live
  <1> QED
    BY <1>1, ListingAssumption, FS_Subset, FS_CardinalityType

\* A query that orders down to the last row, or that has no two alike, tells them apart.
LEMMA OrderIsTotal ==
  ASSUME PagesTypeOK, NEW i \in Listed, NEW j \in Listed, i # j,
         walk.list \in {"movements", "transfers", "log"} \/ ~Tied
  PROVE  Earlier(i, j) \/ Earlier(j, i)
  <1>1. i \in Nat /\ j \in Nat /\ entry[i].key \in Int /\ entry[j].key \in Int
    BY RowTypes, ListedFinite
  <1>2. CASE entry[i].key # entry[j].key
    BY <1>1, <1>2 DEF Earlier, Before
  <1>3. CASE entry[i].key = entry[j].key
    <2>1. Tied
      BY <1>3 DEF Tied
    <2>2. CASE walk.list \in {"movements", "transfers"}
      <3>1. QueryOf(walk.list, walk.limit, 1).then = "younger"
        BY <2>2 DEF QueryOf, MovementsQuery, TransfersQuery, Query
      <3> QED
        BY <1>1, <1>3, <3>1 DEF Earlier, Before
    <2>3. CASE walk.list = "log"
      <3>1. QueryOf(walk.list, walk.limit, 1).then = "older"
        BY <2>3 DEF QueryOf, LogQuery, Query
      <3> QED
        BY <1>1, <1>3, <3>1 DEF Earlier, Before
    <2> QED
      BY <2>1, <2>2, <2>3
  <1> QED
    BY <1>2, <1>3

\* What a query may answer in has every row listed, once, and none before one that the
\* order puts earlier.
LEMMA OrdersAll ==
  ASSUME PagesTypeOK, walk.limit <= Cap, NEW n \in Nat \ {0},
         NEW s \in Orders(QueryOf(walk.list, walk.limit, n))
  PROVE  /\ Cardinality(Listed) \in Nat
         /\ DOMAIN s = 1 .. Cardinality(Listed) /\ s \in [DOMAIN s -> Listed]
         /\ Len(s) = Cardinality(Listed)
         /\ \A i \in Listed : \E a \in DOMAIN s : s[a] = i
         /\ \A a, b \in DOMAIN s : s[a] = s[b] => a = b
         /\ \A a, b \in DOMAIN s : a < b => ~Earlier(s[b], s[a])
  <1>1. Cardinality(Listed) \in Nat /\ IsFiniteSet(Listed)
    BY ListedFinite
  <1>2. /\ s \in [1 .. Cardinality(Listed) -> Listed]
        /\ \A a, b \in 1 .. Cardinality(Listed) : a # b => s[a] # s[b]
        /\ \A a, b \in DOMAIN s : a < b => ~Before(QueryOf(walk.list, walk.limit, n), s[b], s[a])
    BY DEF Orders, SetToSeqs
  <1>3. /\ DOMAIN s = 1 .. Cardinality(Listed)
        /\ s \in [DOMAIN s -> Listed]
        /\ Len(s) = Cardinality(Listed)
        /\ \A a, b \in DOMAIN s : s[a] = s[b] => a = b
    BY <1>1, <1>2
  <1>4. s \in Surjection(1 .. Cardinality(Listed), Listed)
    <2>1. s \in Injection(1 .. Cardinality(Listed), Listed)
      BY <1>2 DEF Injection, IsInjective
    <2>2. Cardinality(1 .. Cardinality(Listed)) = Cardinality(Listed)
      BY <1>1, FS_Interval
    <2> QED
      BY <1>1, <2>1, <2>2, FS_Injection
  <1>5. \A i \in Listed : \E a \in DOMAIN s : s[a] = i
    BY <1>3, <1>4 DEF Surjection
  <1>6. \A a, b \in DOMAIN s : a < b => ~Earlier(s[b], s[a])
    BY <1>2, OrderOfAll
  <1> QED
    BY <1>1, <1>3, <1>5, <1>6
\* The place of a row is its position in every answer, if the order is total, and at
\* most that in any case.
LEMMA PlaceIsPosition ==
  ASSUME PagesTypeOK, walk.limit <= Cap, NEW n \in Nat \ {0},
         NEW s \in Orders(QueryOf(walk.list, walk.limit, n)), NEW a \in DOMAIN s
  PROVE  /\ PlaceNow(s[a]) \in Nat /\ PlaceNow(s[a]) <= a
         /\ (walk.list \in {"movements", "transfers", "log"} \/ ~Tied) => PlaceNow(s[a]) = a
  <1> DEFINE Upper == {s[b] : b \in 1 .. a}
  <1>1. /\ DOMAIN s = 1 .. Cardinality(Listed) /\ Cardinality(Listed) \in Nat
        /\ s \in [DOMAIN s -> Listed]
        /\ \A i \in Listed : \E b \in DOMAIN s : s[b] = i
        /\ \A b, c \in DOMAIN s : s[b] = s[c] => b = c
        /\ \A b, c \in DOMAIN s : b < c => ~Earlier(s[c], s[b])
    BY OrdersAll
  <1>2. a \in Nat /\ s[a] \in Listed /\ 1 .. a \subseteq DOMAIN s
    BY <1>1
  <1>3. IsFiniteSet(Upper) /\ Cardinality(Upper) = a
    <2>1. [b \in 1 .. a |-> s[b]] \in Bijection(1 .. a, Upper)
      <3>1. [b \in 1 .. a |-> s[b]] \in Injection(1 .. a, Upper)
        BY <1>1, <1>2 DEF Injection, IsInjective
      <3>2. [b \in 1 .. a |-> s[b]] \in Surjection(1 .. a, Upper)
        BY DEF Surjection
      <3> QED
        BY <3>1, <3>2 DEF Bijection
    <2>2. ExistsBijection(1 .. a, Upper)
      BY <2>1 DEF ExistsBijection
    <2>3. IsFiniteSet(1 .. a) /\ Cardinality(1 .. a) = a
      BY <1>2, FS_Interval
    <2> QED
      BY <2>2, <2>3, FS_Bijection
  <1>4. UpTo(s[a]) \subseteq Upper
    <2> SUFFICES ASSUME NEW j \in UpTo(s[a])
                 PROVE  j \in Upper
      OBVIOUS
    <2>1. PICK b \in DOMAIN s : s[b] = j
      BY <1>1 DEF UpTo
    <2>2. ~(a < b)
      BY <1>1, <1>2, <2>1 DEF UpTo
    <2>3. b \in 1 .. a
      BY <1>1, <1>2, <2>1, <2>2
    <2> QED
      BY <2>1, <2>3
  <1>5. PlaceNow(s[a]) \in Nat /\ PlaceNow(s[a]) <= a
    <2>1. UpTo(s[a]) \in SUBSET Upper
      BY <1>4
    <2> QED
      BY <1>3, <2>1, FS_Subset, FS_CardinalityType DEF PlaceNow
  <1>6. ASSUME walk.list \in {"movements", "transfers", "log"} \/ ~Tied
        PROVE  PlaceNow(s[a]) = a
    <2>1. ASSUME NEW b \in 1 .. a
          PROVE  s[b] \in UpTo(s[a])
      <3>1. b \in DOMAIN s /\ s[b] \in Listed /\ b <= a /\ b \in Nat
        BY <1>1, <1>2
      <3>2. CASE b = a
        BY <3>1, <3>2 DEF UpTo
      <3>3. CASE b # a
        <4>1. s[b] # s[a] /\ ~Earlier(s[a], s[b])
          BY <1>1, <1>2, <3>1, <3>3
        <4> QED
          BY <1>2, <1>6, <3>1, <4>1, OrderIsTotal DEF UpTo
      <3> QED
        BY <3>2, <3>3
    <2>2. UpTo(s[a]) = Upper
      BY <1>4, <2>1
    <2> QED
      BY <1>3, <2>2 DEF PlaceNow
  <1> QED
    BY <1>5, <1>6

\* A page is a sequence of rows, whatever size was asked for.
LEMMA PageOfIds ==
  ASSUME PagesTypeOK, NEW n \in Nat \ {0},
         NEW s \in Orders(QueryOf(walk.list, walk.limit, n))
  PROVE  PageOf(QueryOf(walk.list, walk.limit, n), s) \in Seq(Ids)
  <1>1. walk.list \in Lists /\ walk.limit \in Nat \ {0}
    BY DEF PagesTypeOK, Walk
  <1>2. PICK q : q = QueryOf(walk.list, walk.limit, n)
    OBVIOUS
  <1>3. q.take \in Nat /\ q.skip \in Nat
    <2>1. (n - 1) * walk.limit \in Nat
      BY <1>1, PageEnds
    <2>2. Smaller(walk.limit, Cap) \in Nat
      BY <1>1, ListingAssumption DEF Smaller
    <2> QED
      BY <1>1, <1>2, <2>1, <2>2 DEF QueryOf, MovementsQuery, TransfersQuery, ImportsQuery,
         UsersQuery, AuditQuery, LogQuery, Query, Lists
  <1>4. PICK total \in Nat : total = Cardinality(Listed)
    BY ListedFinite
  <1>5. s \in [1 .. total -> Ids] /\ Len(s) = total
    <2>1. s \in [1 .. total -> Listed]
      BY <1>4 DEF Orders, SetToSeqs
    <2> QED
      BY <2>1, ListedFinite
  <1>6. PICK last \in Nat : last = Smaller(q.skip + q.take, total)
    BY <1>3 DEF Smaller
  <1>7. last <= total
    BY <1>3, <1>6 DEF Smaller
  <1>8. SubSeq(s, q.skip + 1, last) \in Seq(Ids)
    <2>1. \A k \in q.skip + 1 .. last : s[k] \in Ids
      BY <1>3, <1>5, <1>7
    <2>2. q.skip + 1 \in Int /\ last \in Int
      BY <1>3
    <2> QED
      BY <2>1, <2>2, SubSeqProperties
  <1> QED
    BY <1>2, <1>5, <1>6, <1>8 DEF PageOf

\* The rows of the n-th page are those at the n-th stretch of the answer.
LEMMA PageRows ==
  ASSUME PagesTypeOK, walk.limit <= Cap, NEW n \in Nat \ {0},
         NEW s \in Orders(QueryOf(walk.list, walk.limit, n)),
         NEW rows, rows = PageOf(QueryOf(walk.list, walk.limit, n), s)
  PROVE  /\ rows \in Seq(Ids)
         /\ \A a \in DOMAIN rows :
              /\ a \in Nat \ {0} /\ a <= walk.limit
              /\ (n - 1) * walk.limit + a \in DOMAIN s
              /\ rows[a] = s[(n - 1) * walk.limit + a]
         /\ \A b \in DOMAIN s :
              (n - 1) * walk.limit < b /\ b <= n * walk.limit
                => \E a \in DOMAIN rows : rows[a] = s[b]
  <1>1. PICK low \in Nat : low = (n - 1) * walk.limit
    BY PageEnds DEF PagesTypeOK, Walk
  <1>2. PICK high \in Nat : high = n * walk.limit
    BY PageEnds DEF PagesTypeOK, Walk
  <1>3. walk.list \in Lists /\ walk.limit \in Nat \ {0} /\ high = low + walk.limit
    BY <1>1, <1>2, PageEnds DEF PagesTypeOK, Walk
  <1>4. PICK total \in Nat : total = Cardinality(Listed)
    BY ListedFinite
  <1>5. DOMAIN s = 1 .. total /\ s \in [1 .. total -> Ids] /\ Len(s) = total
    BY <1>4, OrdersAll, ListedFinite
  <1>6. PICK last \in Nat : last = Smaller(high, total)
    BY DEF Smaller
  <1>7. last <= high /\ last <= total /\ (last = high \/ last = total)
    BY <1>6 DEF Smaller
  <1>8. rows = SubSeq(s, low + 1, last)
    <2>1. PICK q : q = QueryOf(walk.list, walk.limit, n)
      OBVIOUS
    <2>2. q.take = walk.limit /\ q.skip = low
      BY <1>1, <1>3, <2>1, QueryTakes
    <2>3. rows = PageOf(q, s)
      BY <2>1
    <2>4. Smaller(q.skip + q.take, Len(s)) = last
      BY <1>3, <1>5, <1>6, <2>2
    <2> QED
      BY <2>2, <2>3, <2>4 DEF PageOf
  <1>9. /\ rows \in Seq(Ids)
        /\ Len(rows) = IF low + 1 <= last THEN last - low ELSE 0
        /\ \A a \in 1 .. last - low : rows[a] = s[low + a]
    <2>1. \A k \in low + 1 .. last : s[k] \in Ids
      BY <1>5, <1>7
    <2>2. low + 1 \in Int /\ last \in Int
      OBVIOUS
    <2>3. /\ SubSeq(s, low + 1, last) \in Seq(Ids)
          /\ Len(SubSeq(s, low + 1, last)) = IF low + 1 <= last THEN last - (low + 1) + 1 ELSE 0
          /\ \A a \in 1 .. last - (low + 1) + 1 :
               SubSeq(s, low + 1, last)[a] = s[low + 1 + a - 1]
      BY <2>1, <2>2, SubSeqProperties
    <2>4. /\ last - (low + 1) + 1 = last - low
          /\ \A a \in 1 .. last - low : low + 1 + a - 1 = low + a
      OBVIOUS
    <2>5. \A a \in 1 .. last - low : SubSeq(s, low + 1, last)[a] = s[low + a]
      BY <2>3, <2>4
    <2> QED
      BY <1>8, <2>3, <2>4, <2>5
  <1>10. DOMAIN rows = 1 .. Len(rows)
    BY <1>9, LenProperties
  <1>11. ASSUME NEW a \in DOMAIN rows
         PROVE  /\ a \in Nat \ {0} /\ a <= walk.limit
                /\ low + a \in DOMAIN s /\ rows[a] = s[low + a]
    <2>1. a \in Nat /\ 1 <= a /\ a <= last - low /\ last - low \in Int
      BY <1>9, <1>10
    <2>2. a <= walk.limit /\ low + a \in 1 .. total
      BY <1>3, <1>7, <2>1
    <2>3. rows[a] = s[low + a]
      BY <1>9, <2>1
    <2> QED
      BY <1>5, <2>1, <2>2, <2>3
  <1>12. ASSUME NEW b \in DOMAIN s, low < b, b <= high
         PROVE  \E a \in DOMAIN rows : rows[a] = s[b]
    <2>1. b - low \in 1 .. last - low /\ b - low \in DOMAIN rows /\ low + (b - low) = b
      BY <1>5, <1>7, <1>9, <1>10, <1>12
    <2> QED
      BY <1>9, <2>1
  <1> QED
    BY <1>1, <1>2, <1>9, <1>11, <1>12
(***************************************************************************)
(* What is known of a page: when it is read, while the screen moves, and   *)
(* after each kind of write.                                               *)
(***************************************************************************)
LEMMA AllAsOfNow ==
  ASSUME PagesTypeOK, NEW i
  PROVE  AsOf(Now) = Listed /\ Place(Now, i) = PlaceNow(i)
  <1>1. AsOf(Now) = Listed
    BY RowTypes, ListedFinite DEF AsOf
  <1>2. UpTo(i) \cap AsOf(Now) = UpTo(i)
    BY <1>1 DEF UpTo
  <1> QED
    BY <1>1, <1>2 DEF Place, PlaceNow

LEMMA PageJustRead ==
  ASSUME PagesTypeOK, walk.limit <= Cap, NEW n \in Nat \ {0},
         NEW s \in Orders(QueryOf(walk.list, walk.limit, n)), NEW total,
         NEW p, p = Answer(PageOf(QueryOf(walk.list, walk.limit, n), s), total)
  PROVE  PageInv(n, p)
  <1>1. PICK low \in Nat : low = (n - 1) * walk.limit
    BY PageEnds DEF PagesTypeOK, Walk
  <1>2. PICK high \in Nat : high = n * walk.limit
    BY PageEnds DEF PagesTypeOK, Walk
  <1>3. walk.limit \in Nat \ {0} /\ high = low + walk.limit
    BY <1>1, <1>2, PageEnds DEF PagesTypeOK, Walk
  <1>4. /\ p.rows = PageOf(QueryOf(walk.list, walk.limit, n), s)
        /\ p.at = Now /\ (p.tied <=> Tied)
    BY DEF Answer
  <1>5. /\ \A a \in DOMAIN p.rows :
             /\ a \in Nat \ {0} /\ a <= walk.limit
             /\ low + a \in DOMAIN s /\ p.rows[a] = s[low + a]
        /\ \A b \in DOMAIN s : low < b /\ b <= high => \E a \in DOMAIN p.rows : p.rows[a] = s[b]
    BY <1>1, <1>2, <1>4, PageRows
  <1>6. /\ DOMAIN s = 1 .. Cardinality(Listed) /\ s \in [DOMAIN s -> Listed]
        /\ \A i \in Listed : \E b \in DOMAIN s : s[b] = i
        /\ \A b, c \in DOMAIN s : s[b] = s[c] => b = c
    BY OrdersAll
  <1>7. \A b \in DOMAIN s : /\ PlaceNow(s[b]) \in Nat /\ PlaceNow(s[b]) <= b
                            /\ Clear(p) => PlaceNow(s[b]) = b
    BY <1>4, PlaceIsPosition DEF Clear
  <1>8. Now \in Nat /\ Cardinality(Listed) \in Nat
    BY ListedFinite, LenProperties DEF PagesTypeOK, Now
  <1>9. HasItsRows(n, p)
    <2> SUFFICES ASSUME Clear(p), NEW i \in Listed,
                        low < PlaceNow(i), PlaceNow(i) <= high
                 PROVE  \E a \in DOMAIN p.rows : p.rows[a] = i
      BY <1>1, <1>2, <1>4, AllAsOfNow DEF HasItsRows
    <2>1. PICK b \in DOMAIN s : s[b] = i
      BY <1>6
    <2> QED
      BY <1>5, <1>7, <2>1
  <1>10. StaysWithin(n, p)
    <2> SUFFICES ASSUME NEW a \in DOMAIN p.rows
                 PROVE  PlaceNow(p.rows[a]) <= high
      BY <1>2 DEF StaysWithin
    <2>1. /\ a \in Nat /\ a <= walk.limit /\ low + a \in DOMAIN s /\ low + a \in Nat
          /\ p.rows[a] = s[low + a]
      BY <1>5
    <2>2. PlaceNow(p.rows[a]) \in Nat /\ PlaceNow(p.rows[a]) <= low + a
      BY <1>7, <2>1
    <2> QED
      BY <1>3, <2>1, <2>2
  <1>11. IsBeyond(n, p)
    <2> SUFFICES ASSUME Clear(p), NEW a \in DOMAIN p.rows
                 PROVE  p.rows[a] \in Listed /\ low < PlaceNow(p.rows[a])
      BY <1>1 DEF IsBeyond
    <2>1. /\ a \in Nat \ {0} /\ low + a \in DOMAIN s /\ p.rows[a] = s[low + a]
      BY <1>5
    <2>2. PlaceNow(p.rows[a]) = low + a /\ p.rows[a] \in Listed
      BY <1>6, <1>7, <2>1
    <2> QED
      BY <2>1, <2>2
  <1>12. OneByOne(p)
    <2> SUFFICES ASSUME NEW a \in DOMAIN p.rows, NEW b \in DOMAIN p.rows, p.rows[a] = p.rows[b]
                 PROVE  a = b
      BY DEF OneByOne
    <2>1. /\ a \in Nat /\ low + a \in DOMAIN s /\ p.rows[a] = s[low + a]
          /\ b \in Nat /\ low + b \in DOMAIN s /\ p.rows[b] = s[low + b]
      BY <1>5
    <2>2. low + a = low + b
      BY <1>6, <2>1
    <2> QED
      BY <2>1, <2>2
  <1> QED
    BY <1>4, <1>8, <1>9, <1>10, <1>11, <1>12 DEF PageInv

LEMMA PlacesAreNumbers ==
  ASSUME NEW i, NEW a
  PROVE  PlaceNow(i) \in Nat /\ Place(a, i) \in Nat
  BY ListedFinite DEF PlaceNow, Place, UpTo

\* The page just read is apart from those read before, whose number is another.
LEMMA ApartFromOthers ==
  ASSUME walk.limit \in Nat \ {0}, Now \in Nat,
         NEW m \in Nat \ {0}, NEW n \in Nat \ {0}, NEW p, NEW q,
         p.at \in Nat, q.at = Now, PageInv(m, p), PageInv(n, q)
  PROVE  Apart(m, p, n, q) /\ Apart(n, q, m, p)
  <1>1. ASSUME NEW k \in Nat \ {0}, NEW l \in Nat \ {0}, NEW u, NEW v, k < l,
               StaysWithin(k, u), IsBeyond(l, v), Clear(v), v.at = Now, Only("drop", u.at, Now),
               NEW a \in DOMAIN u.rows, NEW b \in DOMAIN v.rows, u.rows[a] = v.rows[b]
        PROVE  FALSE
    <2>1. k * walk.limit <= (l - 1) * walk.limit
      BY <1>1, PagesAscend
    <2>2. v.rows[b] \in Listed /\ (l - 1) * walk.limit < PlaceNow(v.rows[b])
      BY <1>1 DEF IsBeyond
    <2>3. PlaceNow(v.rows[b]) <= k * walk.limit
      BY <1>1, <2>2 DEF StaysWithin
    <2>4. PlaceNow(v.rows[b]) \in Nat
      BY PlacesAreNumbers
    <2> QED
      BY <2>1, <2>2, <2>3, <2>4, PageEnds
  <1>2. Apart(m, p, n, q)
    BY <1>1 DEF Apart, PageInv
  <1>3. Apart(n, q, m, p)
    <2>1. q.at <= p.at => p.at = Now
      BY DEF PageInv
    <2> QED
      BY <1>1, <2>1 DEF Apart, PageInv
  <1> QED
    BY <1>2, <1>3

\* What is known of a page does not depend on where the screen is.
LEMMA SameRowsSamePlaces ==
  ASSUME entry' = entry, written' = written, walk'.filter = walk.filter,
         walk'.list = walk.list, walk'.limit = walk.limit, NEW i, NEW a
  PROVE  /\ Now' = Now /\ Listed' = Listed /\ AsOf(a)' = AsOf(a)
         /\ PlaceNow(i)' = PlaceNow(i) /\ Place(a, i)' = Place(a, i)
  <1>1. Now' = Now
    BY DEF Now
  <1>2. Live' = Live
    BY DEF Live
  <1>3. Listed' = Listed
    BY <1>2 DEF Listed
  <1>4. AsOf(a)' = AsOf(a)
    BY <1>3 DEF AsOf
  <1>5. UpTo(i)' = UpTo(i)
    BY <1>3 DEF UpTo, Earlier, Before
  <1> QED
    BY <1>1, <1>3, <1>4, <1>5 DEF PlaceNow, Place

LEMMA PageStays ==
  ASSUME entry' = entry, written' = written, walk'.filter = walk.filter,
         walk'.list = walk.list, walk'.limit = walk.limit,
         NEW m, NEW n, NEW p, NEW q
  PROVE  /\ PageInv(n, p) => PageInv(n, p)'
         /\ Covers(p) => Covers(p)'
         /\ Apart(m, p, n, q) => Apart(m, p, n, q)'
  <1>1. /\ Now' = Now /\ Listed' = Listed
        /\ \A a, i : /\ AsOf(a)' = AsOf(a)
                     /\ PlaceNow(i)' = PlaceNow(i) /\ Place(a, i)' = Place(a, i)
    BY SameRowsSamePlaces
  <1>2. /\ \A kind, a, b : Only(kind, a, b)' <=> Only(kind, a, b)
        /\ Only("add", p.at, Now)' <=> Only("add", p.at, Now)
        /\ Only("drop", p.at, Now)' <=> Only("drop", p.at, Now)
    BY <1>1 DEF Only
  <1>3. /\ Clear(p)' <=> Clear(p)
        /\ Clear(q)' <=> Clear(q)
    BY DEF Clear
  <1>4. HasItsRows(n, p) => HasItsRows(n, p)'
    BY <1>1, <1>2, <1>3 DEF HasItsRows
  <1>5. StaysWithin(n, p) => StaysWithin(n, p)'
    BY <1>1, <1>2 DEF StaysWithin
  <1>6. IsBeyond(n, p) => IsBeyond(n, p)'
    BY <1>1, <1>3 DEF IsBeyond
  <1>7. PageInv(n, p) => PageInv(n, p)'
    BY <1>1, <1>4, <1>5, <1>6 DEF PageInv, OneByOne
  <1>8. Covers(p) => Covers(p)'
    BY <1>1, <1>2 DEF Covers
  <1>9. Apart(m, p, n, q) => Apart(m, p, n, q)'
    BY <1>2, <1>3 DEF Apart
  <1> QED
    BY <1>7, <1>8, <1>9

\* One more write: what is known of the writes before stays.
LEMMA OneMoreWrite ==
  ASSUME PagesTypeOK, NEW kind \in {"add", "drop", "revise"}, Write(kind)
  PROVE  /\ Now \in Nat /\ Now' = Now + 1 /\ written'[Now + 1] = kind
         /\ \A k \in 1 .. Now : written'[k] = written[k]
         /\ written' \in Seq({"add", "drop", "revise"})
         /\ walk' = walk /\ kept' = kept
  BY DEF PagesTypeOK, Write, Now

LEMMA OnlyTheLast ==
  ASSUME PagesTypeOK, NEW kind \in {"add", "drop", "revise"}, Write(kind),
         NEW other, NEW a \in Nat, a <= Now
  PROVE  /\ Only(other, a, Now)' => other = kind /\ Only(other, a, Now)
         /\ \A b \in Nat : b <= Now => (Only(other, a, b)' <=> Only(other, a, b))
  <1>1. /\ Now \in Nat /\ Now' = Now + 1 /\ written'[Now + 1] = kind
        /\ \A k \in 1 .. Now : written'[k] = written[k]
    BY OneMoreWrite
  <1>2. ASSUME NEW b \in Nat, b <= Now
        PROVE  Only(other, a, b)' <=> Only(other, a, b)
    <2>1. \A k \in a + 1 .. b : written'[k] = written[k]
      BY <1>1, <1>2
    <2> QED
      BY <2>1 DEF Only
  <1>3. ASSUME Only(other, a, Now)'
        PROVE  other = kind /\ Only(other, a, Now)
    <2>1. \A k \in a + 1 .. Now + 1 : written'[k] = other
      BY <1>1, <1>3 DEF Only
    <2>2. Now + 1 \in a + 1 .. Now + 1
      BY <1>1
    <2>3. \A k \in a + 1 .. Now : written[k] = other
      BY <1>1, <2>1
    <2> QED
      BY <1>1, <2>1, <2>2, <2>3 DEF Only
  <1> QED
    BY <1>2, <1>3

\* A write that adds leaves the places of the rows that were there.
LEMMA AddKeepsPlaces ==
  ASSUME PagesTypeOK, NEW i \in Ids, NEW key \in Keys, NEW tag \in Tags(walk.list),
         Add(i, key, tag), NEW a \in Nat, a <= Now
  PROVE  AsOf(a)' = AsOf(a) /\ \A j \in AsOf(a) : Place(a, j)' = Place(a, j)
  <1>1. /\ walk' = walk /\ Now \in Nat /\ Now' = Now + 1
    BY OneMoreWrite DEF Add
  <1>2. /\ DOMAIN entry = Ids /\ i \notin Live
        /\ entry' = [entry EXCEPT ![i] = [key |-> key, tag |-> tag, since |-> Now + 1]]
    BY DEF Add, PagesTypeOK, Live
  <1>3. entry'[i].since = Now + 1 /\ \A j \in Ids : j # i => entry'[j] = entry[j]
    BY <1>2
  <1>4. i \notin AsOf(a) /\ i \notin AsOf(a)'
    <2>1. ~(Now + 1 <= a)
      BY <1>1
    <2> QED
      BY <1>2, <1>3, <2>1 DEF AsOf, Listed
  <1>5. ASSUME NEW j \in Ids, j # i
        PROVE  j \in AsOf(a)' <=> j \in AsOf(a)
    BY <1>1, <1>3, <1>5 DEF AsOf, Listed, Live
  <1>6. AsOf(a) \subseteq Ids /\ AsOf(a)' \subseteq Ids
    BY DEF AsOf, Listed, Live
  <1>7. AsOf(a)' = AsOf(a)
    BY <1>4, <1>5, <1>6
  <1>8. ASSUME NEW j \in AsOf(a)
        PROVE  Place(a, j)' = Place(a, j)
    <2>1. AsOf(a) \subseteq Listed /\ AsOf(a)' \subseteq Listed'
      BY DEF AsOf
    <2>2. \A k \in AsOf(a) : Earlier(k, j)' <=> Earlier(k, j)
      BY <1>1, <1>3, <1>4, <1>6, <1>8 DEF Earlier, Before
    <2>3. (UpTo(j) \cap AsOf(a))' = UpTo(j) \cap AsOf(a)
      BY <1>7, <2>1, <2>2 DEF UpTo
    <2> QED
      BY <2>3 DEF Place
  <1> QED
    BY <1>7, <1>8

\* A write that drops a row pulls the others forward, or leaves them.
LEMMA DropPullsForward ==
  ASSUME PagesTypeOK, NEW i \in Ids, Drop(i), NEW j \in Listed'
  PROVE  /\ j \in Listed /\ PlaceNow(j)' <= PlaceNow(j)
         /\ PlaceNow(j) \in Nat /\ PlaceNow(j)' \in Nat
  <1>1. walk' = walk
    BY OneMoreWrite DEF Drop
  <1>2. DOMAIN entry = Ids /\ entry' = [entry EXCEPT ![i] = Nothing]
    BY DEF Drop, PagesTypeOK
  <1>3. Live' = Live \ {i} /\ \A k \in Live' : k \in Ids /\ entry'[k] = entry[k]
    BY <1>2 DEF Live
  <1>4. Listed' = Listed \ {i}
    BY <1>1, <1>3 DEF Listed
  <1>5. \A k \in Listed' : entry'[k] = entry[k]
    BY <1>3 DEF Listed
  <1>6. UpTo(j)' \in SUBSET UpTo(j)
    BY <1>1, <1>4, <1>5 DEF UpTo, Earlier, Before
  <1>7. IsFiniteSet(UpTo(j))
    BY ListedFinite DEF UpTo
  <1> QED
    BY <1>4, <1>6, <1>7, FS_Subset, FS_CardinalityType DEF PlaceNow

LEMMA PageOutlivesWrite ==
  ASSUME PagesTypeOK, NEW n \in Nat \ {0}, NEW p \in Page, PageInv(n, p), walk.limit \in Nat \ {0},
         \/ \E i \in Ids, key \in Keys, tag \in Tags(walk.list) :
              Add(i, key, tag) \/ Revise(i, key, tag)
         \/ \E i \in Ids : Drop(i)
  PROVE  PageInv(n, p)' /\ (Covers(p) => Covers(p)')
  <1>1. PICK kind \in {"add", "drop", "revise"} : Write(kind)
    BY DEF Add, Revise, Drop
  <1>2. Now \in Nat /\ Now' = Now + 1 /\ written'[Now + 1] = kind /\ walk' = walk
    BY <1>1, OneMoreWrite
  <1>3. p.at \in Nat /\ p.at <= Now
    BY DEF PageInv, Page
  <1>4. \A other : Only(other, p.at, Now)' => other = kind /\ Only(other, p.at, Now)
    BY <1>1, <1>3, OnlyTheLast
  <1>5. p.at <= Now' /\ p.at # Now'
    BY <1>2, <1>3
  <1>6. Clear(p)' <=> Clear(p)
    BY <1>2 DEF Clear
  <1>7. ASSUME Only("add", p.at, Now)'
        PROVE  AsOf(p.at)' = AsOf(p.at) /\ \A j \in AsOf(p.at) : Place(p.at, j)' = Place(p.at, j)
    <2>1. kind = "add"
      BY <1>4, <1>7
    <2>2. \E i \in Ids, key \in Keys, tag \in Tags(walk.list) : Add(i, key, tag)
      <3>1. ~Write("drop") /\ ~Write("revise")
        BY <1>2, <2>1 DEF Write, PagesTypeOK, Now
      <3> QED
        BY <3>1 DEF Revise, Drop
    <2> QED
      BY <1>3, <2>2, AddKeepsPlaces
  <1>8. HasItsRows(n, p)'
    BY <1>2, <1>4, <1>6, <1>7 DEF HasItsRows, PageInv
  <1>9. StaysWithin(n, p)'
    <2> SUFFICES ASSUME Only("drop", p.at, Now)', NEW a \in DOMAIN p.rows, p.rows[a] \in Listed'
                 PROVE  PlaceNow(p.rows[a])' <= n * walk.limit
      BY <1>2 DEF StaysWithin
    <2>1. kind = "drop" /\ Only("drop", p.at, Now)
      BY <1>4
    <2>2. PICK i \in Ids : Drop(i)
      <3>1. ~Write("add") /\ ~Write("revise")
        BY <1>2, <2>1 DEF Write, PagesTypeOK, Now
      <3> QED
        BY <3>1 DEF Revise, Add
    <2>3. /\ p.rows[a] \in Listed /\ PlaceNow(p.rows[a])' <= PlaceNow(p.rows[a])
          /\ PlaceNow(p.rows[a]) \in Nat /\ PlaceNow(p.rows[a])' \in Nat
      BY <2>2, DropPullsForward
    <2>4. PlaceNow(p.rows[a]) <= n * walk.limit
      BY <2>1, <2>3 DEF StaysWithin, PageInv
    <2> QED
      BY <2>3, <2>4, PageEnds
  <1>10. IsBeyond(n, p)'
    BY <1>5 DEF IsBeyond
  <1>11. Covers(p) => Covers(p)'
    BY <1>4, <1>7 DEF Covers
  <1> QED
    BY <1>5, <1>8, <1>9, <1>10, <1>11 DEF PageInv, OneByOne
-----------------------------------------------------------------------------
(***************************************************************************)
(* Every step keeps what is known of the pages.                            *)
(***************************************************************************)
LEMMA PagesInit ==
  ASSUME Init
  PROVE  PagesInv
  <1>1. walk \in Walk /\ walk.pages = <<>> /\ walk.step = "rows"
    <2>1. PICK list \in Lists : \E limit \in Sizes(list), filter \in Filters(list) :
                                  walk = Walks(list, limit, filter)
      BY DEF Init
    <2>2. PICK limit \in Sizes(list), filter \in Filters(list) :
            walk = Walks(list, limit, filter)
      BY <2>1
    <2>3. limit \in Nat \ {0}
      BY ListingAssumption DEF Sizes
    <2>4. filter \in SUBSET Words
      BY DEF Filters, LogFilter, Words
    <2>5. <<>> \in Seq(Page)
      OBVIOUS
    <2> QED
      BY <2>2, <2>3, <2>4, <2>5 DEF Walks, Walk
  <1>2. written = <<>> /\ kept = <<>> /\ DOMAIN kept = {} /\ Now = 0
    BY DEF Init, Now
  <1>3. entry \in [Ids -> Entry \cup {Nothing}] /\ \A i \in Live : entry[i].since = 0
    <2>1. PICK stored \in SUBSET Ids :
            \E rows \in [stored -> [key: Keys, tag: Tags(walk.list) \ {"out"}, since: {0}]] :
              entry = [i \in Ids |-> IF i \in stored THEN rows[i] ELSE Nothing]
      BY DEF Init
    <2>2. PICK rows \in [stored -> [key: Keys, tag: Tags(walk.list) \ {"out"}, since: {0}]] :
            entry = [i \in Ids |-> IF i \in stored THEN rows[i] ELSE Nothing]
      BY <2>1
    <2>3. \A i \in stored : rows[i] \in Entry /\ rows[i].since = 0
      BY <2>2 DEF Entry, Tags, Words
    <2> QED
      BY <2>2, <2>3 DEF Live
  <1>4. PagesTypeOK
    <2>1. kept \in [DOMAIN kept -> Page]
      BY <1>2
    <2> QED
      BY <1>1, <1>2, <1>3, <2>1 DEF PagesTypeOK
  <1>5. \A n \in Numbers : Read(n) = {}
    BY <1>1, <1>2 DEF Read
  <1>6. DOMAIN walk.pages = {}
    BY <1>1
  <1> QED
    BY <1>1, <1>2, <1>4, <1>5, <1>6 DEF PagesInv, ReadInv, CoverInv, Told

LEMMA ReadNumbers ==
  ASSUME PagesTypeOK, NEW n, NEW p \in Read(n)
  PROVE  n \in Numbers /\ n \in Nat \ {0} /\ p \in Page
  <1>1. walk \in Walk /\ walk.pages \in Seq(Page) /\ (walk.step = "count" => walk.part \in Page)
    BY DEF PagesTypeOK, Walk
  <1>2. Asked \in Nat \ {0} /\ DOMAIN walk.pages \subseteq Nat \ {0}
    BY <1>1, LenProperties DEF Asked
  <1>3. \A k \in DOMAIN walk.pages : walk.pages[k] \in Page
    BY <1>1, LenProperties
  <1>4. \A k \in DOMAIN kept : kept[k] \in Page /\ k \in Nat \ {0}
    BY DEF PagesTypeOK
  <1> QED
    BY <1>1, <1>2, <1>3, <1>4 DEF Read, Numbers

\* The pages there were, with the one that came.
LEMMA ReadInvOf ==
  ASSUME PagesTypeOK, ReadInv, walk.limit <= Cap, NEW m, NEW n, NEW p \in Read(m), NEW q \in Read(n)
  PROVE  PageInv(m, p) /\ Apart(m, p, n, q)
  BY ReadNumbers DEF ReadInv

\* The screen moves: what is known of the pages stays, with those just read.
SameAs(p, q) == p.rows = q.rows /\ p.at = q.at /\ p.tied = q.tied

LEMMA MoveKeeps ==
  ASSUME PagesTypeOK, ReadInv, entry' = entry, written' = written,
         walk'.filter = walk.filter, walk'.list = walk.list, walk'.limit = walk.limit,
         PagesTypeOK',
         NEW Just, walk.limit <= Cap => \A p \in Just : PageInv(Asked, p) /\ p.at = Now,
         \A n : \A p \in Read(n)' :
           (\E q \in Read(n) : SameAs(p, q)) \/ (n = Asked /\ p \in Just)
  PROVE  ReadInv'
  <1> SUFFICES ASSUME walk.limit <= Cap
               PROVE  /\ \A n \in Numbers' : \A p \in Read(n)' : PageInv(n, p)'
                      /\ \A m, n \in Numbers' : \A p \in Read(m)', q \in Read(n)' :
                           Apart(m, p, n, q)'
    BY DEF ReadInv
  <1>1. ASSUME NEW p, NEW q, SameAs(p, q), NEW n, PageInv(n, q)
        PROVE  PageInv(n, p)
    BY <1>1 DEF SameAs, PageInv, HasItsRows, StaysWithin, IsBeyond, OneByOne, Clear
  <1>2. \A n : \A p \in Read(n)' : PageInv(n, p)
    <2> TAKE n
    <2> TAKE p \in Read(n)'
    <2>1. CASE n = Asked /\ p \in Just
      BY <2>1
    <2>2. CASE \E q \in Read(n) : SameAs(p, q)
      <3>1. PICK q \in Read(n) : SameAs(p, q)
        BY <2>2
      <3>2. PageInv(n, q)
        BY <3>1, ReadInvOf
      <3> QED
        BY <1>1, <3>1, <3>2
    <2> QED
      BY <2>1, <2>2
  <1>3. Asked \in Nat \ {0} /\ walk.limit \in Nat \ {0} /\ Now \in Nat
    BY LenProperties DEF PagesTypeOK, Walk, Asked, Now
  <1>4. ASSUME NEW n, NEW p \in Read(n), NEW q \in Just
        PROVE  Apart(n, p, Asked, q) /\ Apart(Asked, q, n, p)
    <2>1. n \in Nat \ {0} /\ p.at \in Nat
      BY <1>4, ReadNumbers DEF Page
    <2>2. PageInv(n, p) /\ PageInv(Asked, q) /\ q.at = Now
      BY <1>4, ReadInvOf
    <2> QED
      BY <1>3, <2>1, <2>2, ApartFromOthers
  <1>5. ASSUME NEW m, NEW n, NEW p \in Read(m)', NEW q \in Read(n)'
        PROVE  Apart(m, p, n, q)
    <2>1. CASE (m = Asked /\ p \in Just) /\ (n = Asked /\ q \in Just)
      BY <1>3, <2>1 DEF Apart
    <2>2. CASE (m = Asked /\ p \in Just) /\ (\E t \in Read(n) : SameAs(q, t))
      <3>1. PICK t \in Read(n) : SameAs(q, t)
        BY <2>2
      <3>2. Apart(m, p, n, t)
        BY <1>4, <2>2, <3>1
      <3> QED
        BY <3>1, <3>2 DEF Apart, SameAs, Clear
    <2>3. CASE (\E t \in Read(m) : SameAs(p, t)) /\ (n = Asked /\ q \in Just)
      <3>1. PICK t \in Read(m) : SameAs(p, t)
        BY <2>3
      <3>2. Apart(m, t, n, q)
        BY <1>4, <2>3, <3>1
      <3> QED
        BY <3>1, <3>2 DEF Apart, SameAs
    <2>4. CASE (\E t \in Read(m) : SameAs(p, t)) /\ (\E t \in Read(n) : SameAs(q, t))
      <3>1. PICK t \in Read(m) : SameAs(p, t)
        BY <2>4
      <3>2. PICK u \in Read(n) : SameAs(q, u)
        BY <2>4
      <3>3. Apart(m, t, n, u)
        BY <3>1, <3>2, ReadInvOf
      <3> QED
        BY <3>1, <3>2, <3>3 DEF Apart, SameAs, Clear
    <2>5. (\E t \in Read(m) : SameAs(p, t)) \/ (m = Asked /\ p \in Just)
      BY <1>5
    <2>6. (\E t \in Read(n) : SameAs(q, t)) \/ (n = Asked /\ q \in Just)
      BY <1>5
    <2> QED
      BY <2>1, <2>2, <2>3, <2>4, <2>5, <2>6
  <1>6. ASSUME NEW n, NEW p, PageInv(n, p)
        PROVE  PageInv(n, p)'
    BY <1>6, PageStays
  <1>7. ASSUME NEW m, NEW n, NEW p, NEW q, Apart(m, p, n, q)
        PROVE  Apart(m, p, n, q)'
    BY <1>7, PageStays
  <1> QED
    BY <1>2, <1>5, <1>6, <1>7

LEMMA MoveKeepsKnown ==
  ASSUME PagesTypeOK, ReadInv, entry' = entry, written' = written,
         walk'.filter = walk.filter, walk'.list = walk.list, walk'.limit = walk.limit,
         PagesTypeOK',
         \A n : \A p \in Read(n)' : \E q \in Read(n) : SameAs(p, q)
  PROVE  ReadInv'
  <1>1. PICK Just : Just = {}
    OBVIOUS
  <1>2. walk.limit <= Cap => \A p \in Just : PageInv(Asked, p) /\ p.at = Now
    BY <1>1
  <1>3. \A n : \A p \in Read(n)' :
          (\E q \in Read(n) : SameAs(p, q)) \/ (n = Asked /\ p \in Just)
    OBVIOUS
  <1> QED
    BY <1>2, <1>3, MoveKeeps

\* A page shown is the last of the pages; the walk ends when they cover its total.
LEMMA ShowsLast ==
  ASSUME PagesTypeOK, CoverInv, NEW answer \in Page,
         walk.limit <= Cap => Covers(answer), Shows(answer),
         entry' = entry, written' = written
  PROVE  /\ walk' \in Walk /\ walk'.step # "count"
         /\ walk'.filter = walk.filter /\ walk'.list = walk.list /\ walk'.limit = walk.limit
         /\ \A k \in DOMAIN walk'.pages :
              \/ k \in DOMAIN walk.pages /\ walk'.pages[k] = walk.pages[k]
              \/ k = Asked /\ walk'.pages[k] = answer
         /\ walk.limit <= Cap => \A n \in DOMAIN walk'.pages : Covers(walk'.pages[n])
         /\ walk'.step = "done" =>
              /\ walk'.pages # <<>>
              /\ walk'.pages[Len(walk'.pages)].total <= Len(walk'.pages) * walk'.limit
  <1> DEFINE pages == Append(walk.pages, answer)
  <1>1. walk \in Walk /\ walk.pages \in Seq(Page) /\ walk.limit \in Nat \ {0}
    BY DEF PagesTypeOK, Walk
  <1>2. /\ pages \in Seq(Page) /\ Len(pages) = Len(walk.pages) + 1
        /\ Len(walk.pages) \in Nat
        /\ DOMAIN pages = 1 .. Len(walk.pages) + 1
        /\ pages[Len(walk.pages) + 1] = answer
        /\ \A k \in DOMAIN walk.pages : pages[k] = walk.pages[k]
        /\ DOMAIN walk.pages = 1 .. Len(walk.pages)
    BY <1>1
  <1>3. walk' = [walk EXCEPT !.pages = pages, !.part = Nothing,
                   !.step = IF Len(pages) * walk.limit < answer.total THEN "rows" ELSE "done"]
    BY DEF Shows
  <1> HIDE DEF pages
  <1>4. /\ walk'.pages = pages /\ walk'.step \in {"rows", "done"}
        /\ walk'.filter = walk.filter /\ walk'.list = walk.list /\ walk'.limit = walk.limit
        /\ walk'.step = "done" => ~(Len(pages) * walk.limit < answer.total)
    BY <1>1, <1>3 DEF Walk
  <1>5. walk' \in Walk
    BY <1>1, <1>2, <1>3 DEF Walk
  <1>6. \A k \in DOMAIN pages :
          \/ k \in DOMAIN walk.pages /\ pages[k] = walk.pages[k]
          \/ k = Asked /\ pages[k] = answer
    BY <1>2 DEF Asked
  <1>7. walk.limit <= Cap => \A n \in DOMAIN pages : Covers(pages[n])
    BY <1>6 DEF CoverInv, Told
  <1>8. walk'.step = "done" =>
           /\ walk'.pages # <<>>
           /\ walk'.pages[Len(walk'.pages)].total <= Len(walk'.pages) * walk'.limit
    <2>1. pages # <<>> /\ pages[Len(pages)] = answer
      BY <1>2
    <2>2. Len(pages) * walk.limit \in Nat /\ answer.total \in Nat
      BY SMTT(60), <1>1, <1>2 DEF Page
    <2> QED
      BY <1>4, <2>1, <2>2
  <1> QED
    BY <1>4, <1>5, <1>6, <1>7, <1>8

\* What covers its rows goes on to.
LEMMA CoverStays ==
  ASSUME CoverInv, entry' = entry, written' = written,
         walk'.filter = walk.filter, walk'.list = walk.list, walk'.limit = walk.limit,
         walk.limit <= Cap => \A p \in Told' : Covers(p),
         walk'.step = "done" =>
           /\ walk'.pages # <<>>
           /\ walk'.pages[Len(walk'.pages)].total <= Len(walk'.pages) * walk'.limit
  PROVE  CoverInv'
  <1>1. ASSUME NEW p, Covers(p)
        PROVE  Covers(p)'
    BY <1>1, PageStays
  <1> QED
    BY <1>1 DEF CoverInv

LEMMA TypeStays ==
  ASSUME PagesTypeOK, entry' = entry, written' = written, walk' \in Walk,
         walk'.step = "count" => walk'.part \in Page,
         DOMAIN kept' \subseteq Nat \ {0}, kept' \in [DOMAIN kept' -> Page]
  PROVE  PagesTypeOK'
  BY DEF PagesTypeOK, Live, Now

LEMMA FromCacheKeeps ==
  ASSUME PagesInv, FromCache
  PROVE  PagesInv'
  <1>1. PagesTypeOK /\ ReadInv /\ CoverInv
    BY DEF PagesInv
  <1>2. entry' = entry /\ written' = written /\ kept' = kept /\ Asked \in DOMAIN kept
    BY DEF FromCache, Cached
  <1>3. PICK answer : answer = kept[Asked]
    OBVIOUS
  <1>4. /\ Shows(answer) /\ answer \in Page /\ answer \in Read(Asked)
        /\ walk.limit <= Cap => Covers(answer)
    BY <1>1, <1>2, <1>3 DEF FromCache, PagesTypeOK, CoverInv, Told, Read
  <1>5. /\ walk' \in Walk /\ walk'.step # "count"
        /\ walk'.filter = walk.filter /\ walk'.list = walk.list /\ walk'.limit = walk.limit
        /\ \A k \in DOMAIN walk'.pages :
             \/ k \in DOMAIN walk.pages /\ walk'.pages[k] = walk.pages[k]
             \/ k = Asked /\ walk'.pages[k] = answer
        /\ walk.limit <= Cap => \A n \in DOMAIN walk'.pages : Covers(walk'.pages[n])
        /\ walk'.step = "done" =>
             /\ walk'.pages # <<>>
             /\ walk'.pages[Len(walk'.pages)].total <= Len(walk'.pages) * walk'.limit
    BY <1>1, <1>2, <1>4, ShowsLast
  <1>6. PagesTypeOK'
    BY <1>1, <1>2, <1>5, TypeStays DEF PagesTypeOK
  <1>7. \A n : \A p \in Read(n)' :
          \E q \in Read(n) : SameAs(p, q)
    <2>1. \A n : \A p \in Read(n)' : p \in Read(n)
      BY <1>2, <1>4, <1>5 DEF Read
    <2> QED
      BY <2>1 DEF SameAs
  <1>8. ReadInv'
    BY <1>1, <1>2, <1>5, <1>6, <1>7, MoveKeepsKnown
  <1>9. CoverInv'
    <2>1. walk.limit <= Cap => \A p \in Told' : Covers(p)
      BY <1>1, <1>2, <1>5 DEF Told, CoverInv
    <2> QED
      BY <1>1, <1>2, <1>5, <2>1, CoverStays
  <1> QED
    BY <1>6, <1>8, <1>9 DEF PagesInv

LEMMA ReadRowsKeeps ==
  ASSUME PagesInv, ReadRows
  PROVE  PagesInv'
  <1>1. PagesTypeOK /\ ReadInv /\ CoverInv
    BY DEF PagesInv
  <1>2. entry' = entry /\ written' = written /\ kept' = kept /\ walk.step = "rows"
    BY DEF ReadRows
  <1>3. PICK s \in Orders(QueryOf(walk.list, walk.limit, Asked)) :
          LET rows == PageOf(QueryOf(walk.list, walk.limit, Asked), s)
          IN  IF walk.list = "log" THEN Shows(Answer(rows, Cardinality(Listed)))
              ELSE walk' = [walk EXCEPT !.part = Answer(rows, 0), !.step = "count"]
    BY DEF ReadRows
  <1>4. PICK total \in Nat : total = IF walk.list = "log" THEN Cardinality(Listed) ELSE 0
    BY ListedFinite
  <1>5. PICK answer : answer = Answer(PageOf(QueryOf(walk.list, walk.limit, Asked), s), total)
    OBVIOUS
  <1>6. answer.at = Now /\ answer.total = total
    BY <1>5 DEF Answer
  <1>7. IF walk.list = "log" THEN Shows(answer)
        ELSE walk' = [walk EXCEPT !.part = answer, !.step = "count"]
    BY <1>3, <1>4, <1>5
  <1>8. walk \in Walk /\ Asked \in Nat \ {0} /\ Now \in Nat
    BY <1>1, LenProperties DEF PagesTypeOK, Walk, Asked, Now
  <1>9. answer \in Page
    <2>1. PageOf(QueryOf(walk.list, walk.limit, Asked), s) \in Seq(Ids)
      BY <1>1, <1>8, PageOfIds
    <2> QED
      BY <1>4, <1>5, <1>8, <2>1 DEF Answer, Page, Tied
  <1>10. walk.limit <= Cap => PageInv(Asked, answer)
    BY <1>1, <1>5, <1>8, PageJustRead
  <1>11. walk.list = "log" => Covers(answer)
    BY <1>1, <1>4, <1>6, AllAsOfNow DEF Covers
  <1>12. CASE walk.list = "log"
    <2>1. /\ walk' \in Walk /\ walk'.step # "count"
          /\ walk'.filter = walk.filter /\ walk'.list = walk.list /\ walk'.limit = walk.limit
          /\ \A k \in DOMAIN walk'.pages :
               \/ k \in DOMAIN walk.pages /\ walk'.pages[k] = walk.pages[k]
               \/ k = Asked /\ walk'.pages[k] = answer
          /\ walk.limit <= Cap => \A n \in DOMAIN walk'.pages : Covers(walk'.pages[n])
          /\ walk'.step = "done" =>
               /\ walk'.pages # <<>>
               /\ walk'.pages[Len(walk'.pages)].total <= Len(walk'.pages) * walk'.limit
      BY <1>1, <1>2, <1>7, <1>9, <1>11, <1>12, ShowsLast
    <2>2. PagesTypeOK'
      BY <1>1, <1>2, <2>1, TypeStays DEF PagesTypeOK
    <2>3. \A n : \A p \in Read(n)' :
            (\E q \in Read(n) : SameAs(p, q)) \/ (n = Asked /\ p \in {answer})
      <3>1. \A n : \A p \in Read(n)' : p \in Read(n) \/ (n = Asked /\ p \in {answer})
        BY <1>2, <2>1 DEF Read
      <3> QED
        BY <3>1 DEF SameAs
    <2>4. ReadInv'
      <3>1. walk.limit <= Cap => \A p \in {answer} : PageInv(Asked, p) /\ p.at = Now
        BY <1>6, <1>10
      <3> QED
        BY <1>1, <1>2, <2>1, <2>2, <2>3, <3>1, MoveKeeps
    <2>5. CoverInv'
      <3>1. walk.limit <= Cap => \A p \in Told' : Covers(p)
        BY <1>1, <1>2, <2>1 DEF Told, CoverInv
      <3> QED
        BY <1>1, <1>2, <2>1, <3>1, CoverStays
    <2> QED
      BY <2>2, <2>4, <2>5 DEF PagesInv
  <1>13. CASE walk.list # "log"
    <2>1. walk' = [walk EXCEPT !.part = answer, !.step = "count"]
      BY <1>7, <1>13
    <2>2. /\ walk' \in Walk /\ walk'.step = "count" /\ walk'.part = answer
          /\ walk'.pages = walk.pages
          /\ walk'.filter = walk.filter /\ walk'.list = walk.list /\ walk'.limit = walk.limit
      BY <1>8, <1>9, <2>1 DEF Walk
    <2>3. PagesTypeOK'
      BY <1>1, <1>2, <1>9, <2>2, TypeStays DEF PagesTypeOK
    <2>4. \A n : \A p \in Read(n)' :
            (\E q \in Read(n) : SameAs(p, q)) \/ (n = Asked /\ p \in {answer})
      <3>1. \A n : \A p \in Read(n)' : p \in Read(n) \/ (n = Asked /\ p \in {answer})
        BY <1>2, <2>2 DEF Read, Asked
      <3> QED
        BY <3>1 DEF SameAs
    <2>5. ReadInv'
      <3>1. walk.limit <= Cap => \A p \in {answer} : PageInv(Asked, p) /\ p.at = Now
        BY <1>6, <1>10
      <3> QED
        BY <1>1, <1>2, <2>2, <2>3, <2>4, <3>1, MoveKeeps
    <2>6. CoverInv'
      <3>1. walk.limit <= Cap => \A p \in Told' : Covers(p)
        BY <1>1, <1>2, <2>2 DEF Told, CoverInv
      <3>2. walk'.step # "done"
        BY <2>2
      <3> QED
        BY <1>1, <1>2, <2>2, <3>1, <3>2, CoverStays
    <2> QED
      BY <2>3, <2>5, <2>6 DEF PagesInv
  <1> QED
    BY <1>12, <1>13

LEMMA CountRowsKeeps ==
  ASSUME PagesInv, CountRows
  PROVE  PagesInv'
  <1>1. PagesTypeOK /\ ReadInv /\ CoverInv
    BY DEF PagesInv
  <1>2. entry' = entry /\ written' = written /\ walk.step = "count" /\ walk.part \in Page
    BY <1>1 DEF CountRows, PagesTypeOK
  <1>3. PICK answer : answer = [walk.part EXCEPT !.total = Cardinality(Listed)]
    OBVIOUS
  <1>4. /\ Shows(answer)
        /\ kept' = IF walk.list = "users"
                   THEN [n \in DOMAIN kept \cup {Asked} |->
                           IF n = Asked THEN answer ELSE kept[n]]
                   ELSE kept
    BY <1>3 DEF CountRows
  <1>5. Cardinality(Listed) \in Nat /\ IsFiniteSet(Listed)
    BY ListedFinite
  <1>6. answer \in Page /\ SameAs(answer, walk.part) /\ answer.total = Cardinality(Listed)
    BY <1>2, <1>3, <1>5 DEF Page, SameAs
  <1>7. Covers(answer)
    <2>1. AsOf(answer.at) \in SUBSET Listed
      BY DEF AsOf
    <2> QED
      BY <1>5, <1>6, <2>1, FS_Subset DEF Covers
  <1>8. /\ walk' \in Walk /\ walk'.step # "count"
        /\ walk'.filter = walk.filter /\ walk'.list = walk.list /\ walk'.limit = walk.limit
        /\ \A k \in DOMAIN walk'.pages :
             \/ k \in DOMAIN walk.pages /\ walk'.pages[k] = walk.pages[k]
             \/ k = Asked /\ walk'.pages[k] = answer
        /\ walk.limit <= Cap => \A n \in DOMAIN walk'.pages : Covers(walk'.pages[n])
        /\ walk'.step = "done" =>
             /\ walk'.pages # <<>>
             /\ walk'.pages[Len(walk'.pages)].total <= Len(walk'.pages) * walk'.limit
    BY <1>1, <1>2, <1>4, <1>6, <1>7, ShowsLast
  <1>9. Asked \in Nat \ {0}
    BY <1>1, LenProperties DEF PagesTypeOK, Walk, Asked
  <1>10. \A k \in DOMAIN kept' :
           \/ k \in DOMAIN kept /\ kept'[k] = kept[k]
           \/ k = Asked /\ kept'[k] = answer
    BY <1>4
  <1>11. DOMAIN kept' \subseteq Nat \ {0} /\ kept' \in [DOMAIN kept' -> Page]
    <2>1. DOMAIN kept \subseteq Nat \ {0} /\ kept \in [DOMAIN kept -> Page]
      BY <1>1 DEF PagesTypeOK
    <2>2. CASE walk.list = "users"
      BY <1>4, <1>6, <1>9, <2>1, <2>2
    <2>3. CASE walk.list # "users"
      BY <1>4, <2>1, <2>3
    <2> QED
      BY <2>2, <2>3
  <1>12. PagesTypeOK'
    BY <1>1, <1>2, <1>8, <1>11, TypeStays
  <1>13. \A n : \A p \in Read(n)' :
           \E q \in Read(n) : SameAs(p, q)
    <2>1. \A n : \A p \in Read(n)' : p \in Read(n) \/ (n = Asked /\ p = answer)
      BY <1>8, <1>10 DEF Read
    <2>2. walk.part \in Read(Asked)
      BY <1>2 DEF Read
    <2> QED
      BY <1>6, <2>1, <2>2 DEF SameAs
  <1>14. ReadInv'
    BY <1>1, <1>2, <1>8, <1>12, <1>13, MoveKeepsKnown
  <1>15. CoverInv'
    <2>1. walk.limit <= Cap => \A p \in Told' : Covers(p)
      BY <1>1, <1>7, <1>8, <1>10 DEF Told, CoverInv
    <2> QED
      BY <1>1, <1>2, <1>8, <2>1, CoverStays
  <1> QED
    BY <1>12, <1>14, <1>15 DEF PagesInv

LEMMA StartAgainKeeps ==
  ASSUME PagesInv, StartAgain
  PROVE  PagesInv'
  <1>1. PagesTypeOK /\ ReadInv /\ CoverInv
    BY DEF PagesInv
  <1>2. /\ entry' = entry /\ written' = written /\ kept' = kept
        /\ walk' = [Walks(walk.list, walk.limit, walk.filter) EXCEPT !.again = TRUE]
    BY DEF StartAgain
  <1>3. <<>> \in Seq(Page) /\ DOMAIN <<>> = {}
    OBVIOUS
  <1>4. /\ walk' \in Walk /\ walk'.step = "rows" /\ walk'.pages = <<>>
        /\ walk'.filter = walk.filter /\ walk'.list = walk.list /\ walk'.limit = walk.limit
    BY <1>1, <1>2, <1>3 DEF Walks, Walk, PagesTypeOK
  <1>5. DOMAIN walk'.pages = {}
    BY <1>3, <1>4
  <1>6. PagesTypeOK'
    BY <1>1, <1>2, <1>4, TypeStays DEF PagesTypeOK
  <1>7. \A n : \A p \in Read(n)' :
          \E q \in Read(n) : SameAs(p, q)
    <2>1. \A n : \A p \in Read(n)' : p \in Read(n)
      BY <1>2, <1>4, <1>5 DEF Read
    <2> QED
      BY <2>1 DEF SameAs
  <1>8. ReadInv'
    BY <1>1, <1>2, <1>4, <1>6, <1>7, MoveKeepsKnown
  <1>9. CoverInv'
    <2>1. walk.limit <= Cap => \A p \in Told' : Covers(p)
      BY <1>1, <1>2, <1>5 DEF Told, CoverInv
    <2>2. walk'.step # "done"
      BY <1>4
    <2> QED
      BY <1>1, <1>2, <1>4, <2>1, <2>2, CoverStays
  <1> QED
    BY <1>6, <1>8, <1>9 DEF PagesInv

LEMMA WritesKeep ==
  ASSUME PagesInv,
         \/ \E i \in Ids, key \in Keys, tag \in Tags(walk.list) :
              Add(i, key, tag) \/ Revise(i, key, tag)
         \/ \E i \in Ids : Drop(i)
  PROVE  PagesInv'
  <1>1. PagesTypeOK /\ ReadInv /\ CoverInv
    BY DEF PagesInv
  <1>2. PICK kind \in {"add", "drop", "revise"} : Write(kind)
    BY DEF Add, Revise, Drop
  <1>3. /\ Now \in Nat /\ Now' = Now + 1 /\ walk' = walk /\ kept' = kept
        /\ written' \in Seq({"add", "drop", "revise"})
    BY <1>1, <1>2, OneMoreWrite
  <1>4. walk.limit \in Nat \ {0} /\ walk.list \in Lists
    BY <1>1 DEF PagesTypeOK, Walk
  <1>5. PagesTypeOK'
    <2>1. entry \in [Ids -> Entry \cup {Nothing}] /\ \A i \in Live : entry[i].since <= Now
      BY <1>1 DEF PagesTypeOK
    <2>2. \A key \in Keys, tag \in Tags(walk.list) :
            [key |-> key, tag |-> tag, since |-> Now + 1] \in Entry
      BY <1>3 DEF Entry, Tags, Words
    <2>3. PICK i \in Ids, new \in Entry \cup {Nothing} :
            entry' = [entry EXCEPT ![i] = new] /\ (new # Nothing => new.since = Now + 1)
      BY <2>2 DEF Add, Revise, Drop
    <2>4. entry' \in [Ids -> Entry \cup {Nothing}]
      BY <2>1, <2>3
    <2>5. \A j \in Live' : entry'[j].since <= Now'
      <3> TAKE j \in Live'
      <3>1. j \in Ids /\ entry'[j] # Nothing
        BY DEF Live
      <3>2. CASE j = i
        BY <1>3, <2>1, <2>3, <3>1, <3>2
      <3>3. CASE j # i
        <4>1. entry'[j] = entry[j] /\ j \in Live /\ entry[j] \in Entry
          BY <2>1, <2>3, <3>1, <3>3 DEF Live
        <4> QED
          BY <1>3, <2>1, <4>1 DEF Entry
      <3> QED
        BY <3>2, <3>3
    <2> QED
      BY <1>1, <1>3, <2>4, <2>5 DEF PagesTypeOK
  <1>6. Numbers' = Numbers /\ \A n : Read(n)' = Read(n)
    BY <1>3 DEF Numbers, Read, Asked
  <1>7. ReadInv'
    <2> SUFFICES ASSUME walk.limit <= Cap
                 PROVE  /\ \A n \in Numbers : \A p \in Read(n) : PageInv(n, p)'
                        /\ \A m, n \in Numbers : \A p \in Read(m), q \in Read(n) :
                             Apart(m, p, n, q)'
      BY <1>3, <1>6 DEF ReadInv
    <2>1. ASSUME NEW n, NEW p \in Read(n)
          PROVE  n \in Nat \ {0} /\ p \in Page /\ PageInv(n, p) /\ p.at \in Nat /\ p.at <= Now
      <3>1. n \in Nat \ {0} /\ p \in Page /\ PageInv(n, p)
        BY <1>1, <2>1, ReadNumbers, ReadInvOf
      <3> QED
        BY <3>1 DEF PageInv, Page
    <2>2. ASSUME NEW n, NEW p \in Read(n)
          PROVE  PageInv(n, p)'
      <3>1. n \in Nat \ {0} /\ p \in Page /\ PageInv(n, p)
        BY <2>1, <2>2
      <3> QED
        BY <1>1, <1>4, <3>1, PageOutlivesWrite
    <2>3. ASSUME NEW m, NEW n, NEW p \in Read(m), NEW q \in Read(n)
          PROVE  Apart(m, p, n, q)'
      <3>1. Apart(m, p, n, q)
        BY <1>1, <2>3, ReadInvOf
      <3>2. p.at \in Nat /\ p.at <= Now /\ q.at \in Nat /\ q.at <= Now
        BY <2>1, <2>3
      <3>3. Only("drop", p.at, q.at)' <=> Only("drop", p.at, q.at)
        BY <1>1, <1>2, <3>2, OnlyTheLast
      <3>4. Clear(q)' <=> Clear(q)
        BY <1>3 DEF Clear
      <3> QED
        BY <3>1, <3>3, <3>4 DEF Apart
    <2> QED
      BY <2>2, <2>3
  <1>8. CoverInv'
    <2>1. ASSUME walk.limit <= Cap, NEW p \in Told
          PROVE  Covers(p)'
      <3>1. PICK n : p \in Read(n)
        BY <2>1 DEF Told, Read
      <3>2. n \in Nat \ {0} /\ p \in Page /\ PageInv(n, p)
        BY <1>1, <2>1, <3>1, ReadNumbers, ReadInvOf
      <3>3. Covers(p)
        BY <1>1, <2>1 DEF CoverInv
      <3> QED
        BY <1>1, <1>4, <3>2, <3>3, PageOutlivesWrite
    <2>2. Told' = Told
      BY <1>3 DEF Told
    <2> QED
      BY <1>1, <1>3, <2>1, <2>2 DEF CoverInv
  <1> QED
    BY <1>5, <1>7, <1>8 DEF PagesInv

\* The invariant of a walk: every page read, shown or kept in the cache, has its rows.
THEOREM PagesInvariant == Spec => []PagesInv
  <1>1. Init => PagesInv
    BY PagesInit
  <1>2. PagesInv /\ [Next]_listingVars => PagesInv'
    <2> SUFFICES ASSUME PagesInv, [Next]_listingVars
                 PROVE  PagesInv'
      OBVIOUS
    <2>1. CASE FromCache
      BY <2>1, FromCacheKeeps
    <2>2. CASE ReadRows
      BY <2>2, ReadRowsKeeps
    <2>3. CASE CountRows
      BY <2>3, CountRowsKeeps
    <2>4. CASE StartAgain
      BY <2>4, StartAgainKeeps
    <2>5. CASE \/ \E i \in Ids, key \in Keys, tag \in Tags(walk.list) :
                    Add(i, key, tag) \/ Revise(i, key, tag)
               \/ \E i \in Ids : Drop(i)
      BY <2>5, WritesKeep
    <2>6. CASE UNCHANGED listingVars
      <3>1. PagesTypeOK /\ ReadInv /\ CoverInv
        BY DEF PagesInv
      <3>2. entry' = entry /\ written' = written /\ walk' = walk /\ kept' = kept
        BY <2>6 DEF listingVars
      <3>3. PagesTypeOK'
        BY <3>1, <3>2, TypeStays DEF PagesTypeOK
      <3>4. ReadInv'
        <4>1. \A n : \A p \in Read(n)' : \E q \in Read(n) : SameAs(p, q)
          BY <3>2 DEF Read, Asked, SameAs
        <4> QED
          BY <3>1, <3>2, <3>3, <4>1, MoveKeepsKnown
      <3>5. CoverInv'
        <4>1. walk.limit <= Cap => \A p \in Told' : Covers(p)
          BY <3>1, <3>2 DEF CoverInv, Told
        <4> QED
          BY <3>1, <3>2, <4>1, CoverStays DEF CoverInv
      <3> QED
        BY <3>3, <3>4, <3>5 DEF PagesInv
    <2> QED
      BY <2>1, <2>2, <2>3, <2>4, <2>5, <2>6 DEF Next
  <1> QED
    BY <1>1, <1>2, PTL DEF Spec
-----------------------------------------------------------------------------
(***************************************************************************)
(* What a walk that ended has shown.                                       *)
(***************************************************************************)
\* A nonempty set of numbers has a least.
LEMMA LeastOf ==
  ASSUME NEW S, S \subseteq Nat, S # {}
  PROVE  Min(S) \in S /\ \A k \in S : Min(S) <= k
  <1>1. PICK x \in S : \A y \in S : ~(<<y, x>> \in OpToRel(<, Nat))
    BY NatLessThanWellFounded, WFMin
  <1>2. \A y \in S : x <= y
    <2> TAKE y \in S
    <2>1. x \in Nat /\ y \in Nat /\ ~(y < x)
      BY <1>1 DEF OpToRel
    <2> QED
      BY <2>1
  <1> QED
    BY <1>2 DEF Min

\* Every page was read from From on.
LEMMA PagesSince ==
  ASSUME PagesTypeOK, Pages # <<>>
  PROVE  /\ Pages \in Seq(Page) /\ Len(Pages) \in Nat \ {0}
         /\ DOMAIN Pages = 1 .. Len(Pages)
         /\ From \in Nat /\ \A n \in DOMAIN Pages : From <= Pages[n].at /\ Pages[n].at \in Nat
  <1>1. /\ Pages \in Seq(Page) /\ Len(Pages) \in Nat \ {0}
        /\ DOMAIN Pages = 1 .. Len(Pages)
    <2>1. Pages \in Seq(Page)
      BY DEF PagesTypeOK, Walk, Pages
    <2> QED
      BY <2>1, LenProperties
  <1>2. \A n \in DOMAIN Pages : Pages[n].at \in Nat
    <2>1. \A n \in DOMAIN Pages : Pages[n] \in Page
      BY <1>1, LenProperties
    <2> QED
      BY <2>1 DEF Page
  <1>3. {Pages[n].at : n \in DOMAIN Pages} \subseteq Nat
    BY <1>2
  <1>4. {Pages[n].at : n \in DOMAIN Pages} # {}
    <2>1. 1 \in DOMAIN Pages
      BY <1>1
    <2> QED
      BY <2>1
  <1> QED
    BY ZenonT(60), <1>1, <1>2, <1>3, <1>4, LeastOf DEF From

\* If only writes of one kind came since From, so did they since any page.
LEMMA OnlyDuring ==
  ASSUME PagesTypeOK, Pages # <<>>, NEW kind, During \subseteq {kind},
         NEW n \in DOMAIN Pages, NEW b \in Nat, b <= Now
  PROVE  Only(kind, Pages[n].at, b)
  <1>1. From \in Nat /\ From <= Pages[n].at /\ Pages[n].at \in Nat /\ Now \in Nat
    BY PagesSince, LenProperties DEF PagesTypeOK, Now
  <1>2. Pages[n].at + 1 .. b \subseteq From + 1 .. Now
    BY <1>1
  <1> QED
    BY <1>2 DEF Only, During

LEMMA PagesAreRead ==
  ASSUME NEW n \in DOMAIN Pages
  PROVE  n \in Numbers /\ Pages[n] \in Read(n) /\ Pages[n] \in Told
  BY DEF Pages, Numbers, Read, Told

\* As many rows came up to a row at a page as at the next, or fewer.
LEMMA PlacesAscend ==
  ASSUME PagesTypeOK, NEW a \in Nat, NEW b \in Nat, a <= b, NEW i
  PROVE  Place(a, i) <= Place(b, i)
  <1>1. AsOf(a) \subseteq AsOf(b)
    BY RowTypes, ListedFinite DEF AsOf
  <1>2. UpTo(i) \cap AsOf(a) \in SUBSET (UpTo(i) \cap AsOf(b))
    BY <1>1
  <1>3. IsFiniteSet(UpTo(i) \cap AsOf(b))
    BY ListedFinite DEF UpTo
  <1> QED
    BY <1>2, <1>3, FS_Subset DEF Place

\* A row that was there all the time and that no page showed would lie beyond the last.
LEMMA SteadyShown ==
  ASSUME PagesInv, walk.step = "done", walk.limit <= Cap, InTurn, Orderly,
         During \subseteq {"add"}, NEW i \in Steady
  PROVE  i \in Shown
  <1>1. PagesTypeOK /\ ReadInv /\ CoverInv /\ Pages # <<>>
    BY DEF PagesInv, CoverInv, Pages
  <1>2. PICK last \in Nat \ {0} : last = Len(Pages)
    BY <1>1, PagesSince
  <1>3. /\ Pages \in Seq(Page) /\ DOMAIN Pages = 1 .. last
        /\ From \in Nat /\ \A n \in DOMAIN Pages : From <= Pages[n].at /\ Pages[n].at \in Nat
    BY <1>1, <1>2, PagesSince
  <1>4. walk.limit \in Nat \ {0} /\ Now \in Nat
    BY <1>1, LenProperties DEF PagesTypeOK, Walk, Now
  <1>5. \A n \in DOMAIN Pages : i \in AsOf(Pages[n].at)
    <2>1. i \in Listed /\ entry[i].since \in Nat /\ entry[i].since <= From
      BY <1>1, RowTypes, ListedFinite DEF Steady
    <2> QED
      BY <1>3, <2>1 DEF AsOf
  <1>6. \A n \in DOMAIN Pages : Only("add", Pages[n].at, Now) /\ Clear(Pages[n])
    <2>1. \A n \in DOMAIN Pages : Only("add", Pages[n].at, Now)
      BY SMTT(60), <1>1, <1>4, OnlyDuring
    <2> QED
      BY <2>1 DEF Orderly, Clear
  <1>7. \A n \in DOMAIN Pages : HasItsRows(n, Pages[n])
    BY <1>1, PagesAreRead, ReadInvOf DEF PageInv
  <1> DEFINE Reached == {n \in 1 .. last : Place(Pages[n].at, i) <= n * walk.limit}
  <1>8. last \in Reached
    <2>1. Cardinality(AsOf(Pages[last].at)) <= Pages[last].total
      <3>1. last \in DOMAIN Pages
        BY <1>3
      <3>2. Covers(Pages[last])
        BY <1>1, <3>1, PagesAreRead DEF CoverInv
      <3> QED
        BY <1>6, <3>1, <3>2 DEF Covers
    <2>2. Pages[last].total <= last * walk.limit
      BY <1>1, <1>2 DEF CoverInv, Pages
    <2>3. /\ IsFiniteSet(AsOf(Pages[last].at)) /\ Cardinality(AsOf(Pages[last].at)) \in Nat
          /\ Place(Pages[last].at, i) <= Cardinality(AsOf(Pages[last].at))
      <3>1. IsFiniteSet(AsOf(Pages[last].at)) /\ Cardinality(AsOf(Pages[last].at)) \in Nat
        BY ListedFinite DEF AsOf
      <3>2. UpTo(i) \cap AsOf(Pages[last].at) \in SUBSET AsOf(Pages[last].at)
        OBVIOUS
      <3> QED
        BY <3>1, <3>2, FS_Subset DEF Place
    <2>4. Pages[last].total \in Nat /\ last * walk.limit \in Nat
      <3>1. Pages[last] \in Page
        BY <1>3
      <3> QED
        BY <1>4, <3>1, PageEnds DEF Page
    <2>5. Place(Pages[last].at, i) \in Nat
      BY PlacesAreNumbers
    <2> QED
      BY <2>1, <2>2, <2>3, <2>4, <2>5
  <1>9. PICK n \in Reached : \A k \in Reached : n <= k
    <2>1. Reached \subseteq Nat /\ Reached # {}
      BY <1>8
    <2> HIDE DEF Reached
    <2> QED
      BY <2>1, LeastOf
  <1>10. n \in 1 .. last /\ n \in DOMAIN Pages /\ Place(Pages[n].at, i) <= n * walk.limit
    BY <1>3, <1>9
  <1>11. (n - 1) * walk.limit < Place(Pages[n].at, i)
    <2>1. CASE n = 1
      <3>1. i \in UpTo(i) \cap AsOf(Pages[n].at)
        BY <1>5, <1>10 DEF UpTo, AsOf
      <3>2. IsFiniteSet(UpTo(i) \cap AsOf(Pages[n].at))
        BY ListedFinite DEF UpTo
      <3>3. Place(Pages[n].at, i) # 0
        BY <3>1, <3>2, FS_EmptySet DEF Place
      <3>4. Place(Pages[n].at, i) \in Nat /\ (n - 1) * walk.limit = 0
        BY <1>4, <2>1, PlacesAreNumbers
      <3> QED
        BY <3>3, <3>4
    <2>2. CASE n # 1
      <3>1. n - 1 \in 1 .. last /\ n - 1 \in DOMAIN Pages /\ n - 1 < n
        BY <1>3, <1>10, <2>2
      <3>2. ~(Place(Pages[n - 1].at, i) <= (n - 1) * walk.limit)
        BY <1>9, <1>10, <3>1
      <3>3. Pages[n - 1].at <= Pages[n].at /\ Pages[n].at \in Nat /\ Pages[n - 1].at \in Nat
        BY <1>3, <1>10, <3>1 DEF InTurn
      <3>4. Place(Pages[n - 1].at, i) <= Place(Pages[n].at, i)
        BY <1>1, <3>3, PlacesAscend
      <3>5. /\ Place(Pages[n - 1].at, i) \in Nat /\ Place(Pages[n].at, i) \in Nat
            /\ (n - 1) * walk.limit \in Nat
        BY <1>4, <1>10, PlacesAreNumbers, PageEnds
      <3> QED
        BY <3>2, <3>4, <3>5
    <2> QED
      BY <2>1, <2>2
  <1>12. \E a \in DOMAIN Pages[n].rows : Pages[n].rows[a] = i
    BY <1>5, <1>6, <1>7, <1>10, <1>11 DEF HasItsRows
  <1>13. i \in ToSet(Pages[n].rows)
    BY <1>12 DEF ToSet
  <1> QED
    BY <1>10, <1>13 DEF Shown

LEMMA ShownOnce ==
  ASSUME PagesInv, walk.step = "done", walk.limit <= Cap, InTurn, Orderly,
         During \subseteq {"drop"}
  PROVE  Once
  <1>1. PagesTypeOK /\ ReadInv /\ Pages # <<>>
    BY DEF PagesInv, CoverInv, Pages
  <1>2. /\ DOMAIN Pages \subseteq Nat
        /\ \A n \in DOMAIN Pages : Pages[n].at \in Nat
    BY <1>1, PagesSince
  <1>3. \A n \in DOMAIN Pages : PageInv(n, Pages[n]) /\ Clear(Pages[n])
    BY <1>1, PagesAreRead, ReadInvOf DEF Orderly, Clear
  <1>4. ASSUME NEW m \in DOMAIN Pages, NEW n \in DOMAIN Pages, m < n
        PROVE  \A a \in DOMAIN Pages[m].rows, b \in DOMAIN Pages[n].rows :
                 Pages[m].rows[a] # Pages[n].rows[b]
    <2>1. Apart(m, Pages[m], n, Pages[n])
      BY <1>1, PagesAreRead, ReadInvOf
    <2>2. Pages[m].at <= Pages[n].at
      BY <1>4 DEF InTurn
    <2>3. Only("drop", Pages[m].at, Pages[n].at)
      BY <1>1, <1>2, <1>3, OnlyDuring DEF PageInv
    <2> QED
      BY <1>3, <1>4, <2>1, <2>2, <2>3 DEF Apart
  <1> SUFFICES ASSUME NEW m \in DOMAIN Pages, NEW n \in DOMAIN Pages,
                      NEW a \in DOMAIN Pages[m].rows, NEW b \in DOMAIN Pages[n].rows,
                      Pages[m].rows[a] = Pages[n].rows[b]
               PROVE  m = n /\ a = b
    BY DEF Once
  <1>5. ~(m < n) /\ ~(n < m)
    BY <1>4
  <1>6. m = n
    BY <1>2, <1>5
  <1> QED
    BY <1>3, <1>6 DEF PageInv, OneByOne

\* A walk through all of the pages shows every row that stays while rows only come,
\* and no row twice while they only go, for any number of rows and size of a page.
THEOREM PagesShowAll == Spec => []PagesWhole
  <1>1. PagesInv => PagesWhole
    BY SteadyShown, ShownOnce DEF PagesWhole
  <1> QED
    BY <1>1, PagesInvariant, PTL
=============================================================================

--------------------------- MODULE RateRows_proofs ---------------------------
(***************************************************************************)
(* Proofs about RateRows, for any set of its lists, any number of sections *)
(* and any number of rows.  The properties speak of the sets, from which   *)
(* it is no longer told how they were made; the inductive invariant says   *)
(* it: each was taken, by the function of its source, from its own row, in *)
(* a section that is read, with that section's month (Origins), and of the *)
(* rows that the reader has passed none is missing (Completeness).  What   *)
(* the functions of the 28 lists do with a row is not about steps and      *)
(* stands in lemmas of its own.                                            *)
(***************************************************************************)
EXTENDS RateRows, SequenceLemmas

\* The last column with a label has that label; there is none when it is 0.
LEMMA LastColumnProperties ==
  ASSUME NEW cols, NEW n \in Nat, DOMAIN cols = 1 .. n, NEW label
  PROVE  /\ LastColumn(cols, label) \in 0 .. n
         /\ LastColumn(cols, label) # 0 => cols[LastColumn(cols, label)] = label
         /\ LastColumn(cols, label) = 0 => \A i \in 1 .. n : cols[i] # label
<1> DEFINE found == {i \in DOMAIN cols : cols[i] = label}
<1>1. CASE found = {}
  BY <1>1 DEF LastColumn
<1>2. CASE found # {}
  <2> DEFINE T == {m \in Nat : n - m \in found}
  <2>1. T # {}
    <3>1. PICK i \in found : TRUE
      BY <1>2
    <3>2. n - i \in T
      BY <3>1
    <3> QED
      BY <3>2
  <2>2. PICK m \in T : \A m2 \in T : m <= m2
    BY <2>1, LeastNatural
  <2>3. n - m \in found /\ \A j \in found : j <= n - m
    <3>1. ASSUME NEW j \in found PROVE j <= n - m
      <4>1. n - j \in T
        OBVIOUS
      <4> QED
        BY <4>1, <2>2
    <3> QED
      BY <2>2, <3>1
  <2>4. \E i \in found : \A j \in found : j <= i
    BY <2>3
  <2>5. LastColumn(cols, label) = CHOOSE i \in found : \A j \in found : j <= i
    BY <1>2 DEF LastColumn
  <2>6. LastColumn(cols, label) \in found
    <3> HIDE DEF found
    <3> QED
      BY <2>4, <2>5
  <2> QED
    BY <2>6
<1> QED
  BY <1>1, <1>2

-----------------------------------------------------------------------------
(* The inductive invariant *)

AnySection == [kind : Kinds(source), heading : Headings(source), cols : Layouts(source),
               rows : Seq(UNION {Rows(source, n) : n \in Nat})]

\* A document has rows of its layout, and one section where only one is read.
Documents ==
  /\ source \in AllSources
  /\ doc \in Seq(AnySection)
  /\ Len(doc) <= SectionBound(source)
  /\ \A i \in DOMAIN doc : \A j \in DOMAIN doc[i].rows : doc[i].rows[j] \in Rows(source, Len(doc[i].cols))

\* The month that belongs to the rates of a section.
MonthOf(i, m) ==
  /\ source \in Dated => m = i
  /\ source = "Swedbank_list" => m = IF doc[i].heading = "good" THEN i ELSE 0

\* Where only the first section of its kind is read, it is.
IsFirst(i) == source \in FirstOnly => \A h \in 1 .. i - 1 : ~Reads(doc[h])

\* Inside a section: it is one to be read, and the month was taken from it.
Place ==
  /\ outcome = "unread" => at = 1 /\ row = 0 /\ sets = {}
  /\ outcome = "reading" => ~Mistyped
  /\ at = 1 /\ row = 0 => month = 0
  /\ row > 0 => at \in DOMAIN doc /\ Reads(doc[at]) /\ MonthOf(at, month)
  /\ at \in DOMAIN doc => IsFirst(at)

\* A set was taken from its row, in a section that is read, with that section's month.
TakenFrom(x) ==
  /\ x.section \in DOMAIN doc /\ x.row \in DOMAIN doc[x.section].rows
  /\ x.from \in FromRow(ColsOf(x), RowOf(x), x.row)
  /\ Reads(doc[x.section]) /\ IsFirst(x.section) /\ MonthOf(x.section, x.month)

Origins == sets # {} => ~Mistyped /\ \A x \in sets : TakenFrom(x)

\* The rows that were come to.
Passed(i, j) == i < at \/ (i = at /\ j < row)

\* Of the rows that were come to none is missing, unless the extraction failed before the end.
Completeness ==
  /\ outcome \in {"reading", "done"} \/ (outcome = "failed" /\ at > Len(doc)) =>
       \A i \in DOMAIN doc : Wanted(i) =>
         \A j \in DOMAIN doc[i].rows :
           Passed(i, j) /\ Whole(i, j) => \E x \in sets : x.section = i /\ x.row = j
  /\ outcome = "done" => at > Len(doc)
  /\ outcome = "failed" /\ at <= Len(doc) =>
       Mistyped \/ \A i \in DOMAIN doc : Wanted(i) => doc[i].rows = <<>>

\* What a panic is due to.
Panics ==
  outcome = "panic" =>
    \E i \in DOMAIN doc :
      \/ doc[i].heading = "past"
      \/ \E r \in Range(doc[i].rows) : "past" \in Range(r) \/ (source = "Danske_list" /\ Len(r) < 4)

Inv == TypeOK /\ Documents /\ Place /\ Origins /\ Completeness /\ Panics

-----------------------------------------------------------------------------
(* Rows, source by source *)

\* The function of each source.
LEMMA FromRowOf ==
  ASSUME NEW cols, NEW r, NEW i
  PROVE  /\ source = "Nordea_list" => FromRow(cols, r, i) = NordeaList(r)
         /\ source = "ICA_list" => FromRow(cols, r, i) = ICAList(r)
         /\ source = "ICA" => FromRow(cols, r, i) = ICAAverage(r)
         /\ source = "Alandsbanken_list" => FromRow(cols, r, i) = AlandsbankenList(r)
         /\ source = "Alandsbanken" => FromRow(cols, r, i) = AlandsbankenAverage(r)
         /\ source = "Danske_list" => FromRow(cols, r, i) = DanskeList(r)
         /\ source = "Swedbank_list" => FromRow(cols, r, i) = SwedbankList(r)
         /\ source = "LF_list" => FromRow(cols, r, i) = LFList(cols, r)
         /\ source = "Landshypotek_discount" => FromRow(cols, r, i) = LandshypotekDiscount(r)
         /\ source = "Landshypotek_list" => FromRow(cols, r, i) = LandshypotekList(r)
         /\ source = "Landshypotek_latest" => FromRow(cols, r, i) = LandshypotekLatest(r)
         /\ source = "Nordnet_list" => FromRow(cols, r, i) = NordnetList(r)
         /\ source = "Bluestep_list" => FromRow(cols, r, i) = BluestepList(r)
         /\ source = "JAK" => FromRow(cols, r, i) = JAKRates(r, i)
         /\ source = "Svea" => FromRow(cols, r, i) = SveaAverage(r)
         /\ source = "Stabelo_tier" => FromRow(cols, r, i) = StabeloTier(r)
         /\ source = "Skandia_list" => FromRow(cols, r, i) = SkandiaTable("list", cols, r)
         /\ source = "Skandia" => FromRow(cols, r, i) = SkandiaTable("average", cols, r)
         /\ source \in {"Handelsbanken_list", "Avanza_list"} => FromRow(cols, r, i) = NumberField("list", r)
         /\ source \in NumberAverages => FromRow(cols, r, i) = NumberField("average", r)
         /\ source = "SEB_list" => FromRow(cols, r, i) = SEBList(r)
         /\ source = "SBAB_list" => FromRow(cols, r, i) = SBABList(r)
         /\ source = "SBAB" => FromRow(cols, r, i) = SBABAverage(r)
         /\ source = "Ikano_list" => FromRow(cols, r, i) = IkanoList(r)
         /\ source = "Hypoteket_list" => FromRow(cols, r, i) = HypoteketList(r)
         /\ source = "Hypoteket" => FromRow(cols, r, i) = HypoteketAverage(r)
BY DEF FromRow, NumberAverages

\* A set's own columns and cells.
SaysTheRow(k, cols, r, i) ==
  /\ k.term # 0 => cols[k.term] = "term" /\ Good(r, k.term)
  /\ k.date # 0 => cols[k.date] = "date" /\ Good(r, k.date)
  /\ cols[k.rate] = k.is \/ (source = "Nordnet_list" /\ Len(r) < Len(cols))
  /\ Good(r, k.rate) \/ (source \in NumberLists \cup NumberAverages /\ r[k.rate] = "absent")
  /\ source = "JAK" /\ k.is = "list" => i = 1

\* What a cell may be.
Cells == {"good", "bad", "absent", "past", "banklan"}

\* A layout is a sequence of columns.
LEMMA LayoutShape ==
  ASSUME source \in AllSources, NEW cols \in Layouts(source)
  PROVE  /\ Len(cols) \in Nat /\ DOMAIN cols = 1 .. Len(cols)
         /\ source \in TermByPlace => Len(cols) = 2
BY DEF AllSources, JSONSources, SkandiaPages, TableSources, NumberLists, NumberAverages,
       Layouts, TermByPlace

\* A row has no more cells than columns, and as many where fields have names.
LEMMA RowShape ==
  ASSUME source \in AllSources, NEW cols \in Layouts(source), NEW r \in Rows(source, Len(cols))
  PROVE  /\ r \in Seq(Cells) /\ Len(r) <= Len(cols)
         /\ source \in TermByPlace => Len(r) = 2 /\ r[1] = "good"
         /\ source \in JSONSources \cup SkandiaPages => Len(r) = Len(cols)
         /\ source \in TypedNumbers => r[2] \in {"good", "bad", "absent"}
<1> DEFINE n == Len(cols)
<1>0. n \in Nat /\ (source \in TermByPlace => n = 2)
  BY LayoutShape
<1>r. r \in Rows(source, n)
  OBVIOUS
<1> HIDE DEF n
<1>1. ASSUME NEW m \in 0 .. n, NEW odd \in SUBSET Cells, r \in OneOdd(m, odd)
      PROVE  r \in Seq(Cells) /\ Len(r) = m /\ \A i \in 1 .. m : r[i] \in {"good"} \cup odd
  <2>1. r \in [1 .. m -> {"good"} \cup odd]
    BY <1>1 DEF OneOdd
  <2>2. {"good"} \cup odd \subseteq Cells /\ m \in Nat
    BY <1>0 DEF Cells
  <2>3. r \in [1 .. m -> Cells]
    BY <2>1, <2>2
  <2> QED
    BY <2>1, <2>2, <2>3, SeqDef
<1>2. CASE source \in TermByPlace
  <2>1. PICK cell \in {"good", "bad", "absent"} \cup (IF source = "Hypoteket" THEN {"past"} ELSE {}) :
          r = <<"good", cell>>
    <3>1. /\ source # "Hypoteket_list"
          /\ source \notin (JSONSources \cup SkandiaPages) \ {"Hypoteket_list", "Hypoteket", "SBAB"}
      BY <1>2 DEF TermByPlace, JSONSources, NumberLists, NumberAverages, SkandiaPages
    <3>2. Rows(source, n) = {<<"good", cell>> : cell \in {"good", "bad", "absent"}
                               \cup (IF source = "Hypoteket" THEN {"past"} ELSE {})}
      BY <1>2, <3>1 DEF Rows
    <3> QED
      BY <1>r, <3>2
  <2> QED
    BY <1>0, <1>2, <2>1 DEF TermByPlace, Cells, TypedNumbers, NumberLists, NumberAverages, n
<1>3. CASE source = "Hypoteket_list"
  <2>1. r \in OneOdd(n, {"bad", "absent", "past"})
    BY <1>3 DEF Rows, TermByPlace, n
  <2> QED
    BY <1>0, <1>1, <1>3, <2>1 DEF TermByPlace, Cells, TypedNumbers, NumberLists, NumberAverages, n
<1>4. CASE source \in (JSONSources \cup SkandiaPages) \ {"Hypoteket_list", "Hypoteket", "SBAB"}
  <2>1. r \in OneOdd(n, {"bad", "absent"})
    <3>1. source \notin TermByPlace
      BY <1>4 DEF TermByPlace, JSONSources, SkandiaPages, NumberLists, NumberAverages
    <3> QED
      BY <1>4, <3>1 DEF Rows, n
  <2>2. n \in 0 .. n /\ {"bad", "absent"} \in SUBSET Cells
    BY <1>0 DEF Cells
  <2>3. r \in Seq(Cells) /\ Len(r) = n /\ \A i \in 1 .. n : r[i] \in {"good", "bad", "absent"}
    BY <1>1, <2>1, <2>2
  <2>4. source \in TypedNumbers => n = 2 \/ n = 3
    BY <1>4 DEF TypedNumbers, NumberLists, NumberAverages, Layouts, n
  <2>5. source \notin TermByPlace
    BY <1>4 DEF TermByPlace, JSONSources, SkandiaPages, NumberLists, NumberAverages
  <2> QED
    BY <1>0, <2>3, <2>4, <2>5 DEF n
<1>5. CASE source \in TableSources \ {"ICA"}
  <2>1. \/ \E m \in 1 .. n : r \in OneOdd(m, {"bad"})
        \/ r = <<"banklan", "good">> /\ source = "Swedbank_list"
    <3>1. /\ source \notin TermByPlace /\ source # "Hypoteket_list"
          /\ source \notin (JSONSources \cup SkandiaPages) \ {"Hypoteket_list", "Hypoteket", "SBAB"}
      BY <1>5 DEF TableSources, TermByPlace, JSONSources, NumberLists, NumberAverages, SkandiaPages
    <3>2. Rows(source, n) = (UNION {OneOdd(m, {"bad"}) : m \in 1 .. n})
                              \cup (IF source = "Swedbank_list" THEN {<<"banklan", "good">>} ELSE {})
      BY <3>1 DEF Rows
    <3>3. \/ r \in (UNION {OneOdd(m, {"bad"}) : m \in 1 .. n})
          \/ (source = "Swedbank_list" /\ r = <<"banklan", "good">>)
      <4>1. CASE source = "Swedbank_list"
        BY <1>r, <3>2, <4>1
      <4>2. CASE source # "Swedbank_list"
        BY <1>r, <3>2, <4>2
      <4> QED
        BY <4>1, <4>2
    <3> QED
      BY <3>3
  <2>2. r \in Seq(Cells) /\ Len(r) <= n
    <3>1. CASE \E m \in 1 .. n : r \in OneOdd(m, {"bad"})
      BY <1>0, <1>1, <3>1 DEF Cells
    <3>2. CASE r = <<"banklan", "good">> /\ source = "Swedbank_list"
      BY <3>2 DEF Cells, n, Layouts
    <3> QED
      BY <2>1, <3>1, <3>2
  <2> QED
    BY <1>5, <2>2 DEF TableSources, TermByPlace, JSONSources, NumberLists, NumberAverages, SkandiaPages,
                       TypedNumbers, n
<1> QED
  BY <1>2, <1>3, <1>4, <1>5 DEF AllSources, JSONSources, TermByPlace

\* The cells of a set were there and understood, but for a number missing from
\* some JSON documents, and its columns are those of the term, the rate and the date.
LEMMA SetsSayTheRow ==
  ASSUME source \in AllSources, NEW cols \in Layouts(source), NEW r \in Rows(source, Len(cols)),
         source \in TypedNumbers => r[2] # "bad",
         source = "LF_list" => LFRateColumn(cols) # 0, NEW i,
         NEW k \in FromRow(cols, r, i)
  PROVE  SaysTheRow(k, cols, r, i)
<1>0. /\ r \in Seq(Cells) /\ Len(r) <= Len(cols)
      /\ source \in TermByPlace => Len(r) = 2 /\ r[1] = "good"
      /\ source \in JSONSources \cup SkandiaPages => Len(r) = Len(cols)
      /\ source \in TypedNumbers => r[2] \in {"good", "absent"}
      /\ Len(cols) \in Nat /\ DOMAIN cols = 1 .. Len(cols)
  BY LayoutShape, RowShape
<1>1. CASE source = "Nordea_list"
  BY <1>1, FromRowOf DEF Layouts, NordeaList, KeptIf, Kept, SaysTheRow, AllGood
<1>2. CASE source = "ICA_list"
  BY <1>2, FromRowOf DEF Layouts, ICAList, KeptIf, Kept, SaysTheRow, AllGood
<1>3. CASE source = "ICA"
  BY <1>3, <1>0, FromRowOf DEF Layouts, ICAAverage, KeptIf, Kept, SaysTheRow, AllGood, Good, TermByPlace
<1>4. CASE source = "Alandsbanken_list"
  BY <1>4, FromRowOf DEF Layouts, AlandsbankenList, KeptIf, Kept, SaysTheRow, AllGood, DateOf
<1>5. CASE source = "Alandsbanken"
  BY <1>5, FromRowOf DEF Layouts, AlandsbankenAverage, KeptIf, Kept, SaysTheRow, AllGood
<1>6. CASE source = "Danske_list"
  BY <1>6, FromRowOf DEF Layouts, DanskeList, KeptIf, Kept, SaysTheRow, AllGood
<1>7. CASE source = "Swedbank_list"
  BY <1>7, FromRowOf DEF Layouts, SwedbankList, KeptIf, Kept, SaysTheRow, AllGood
<1>8. CASE source = "LF_list"
  <2> DEFINE rate == LastColumn(cols, "list")
             date == LastColumn(cols, "date")
  <2>1. /\ rate # 0 /\ cols[rate] = "list"
        /\ date # 0 => cols[date] = "date"
    BY <1>0, <1>8, LastColumnProperties DEF LFRateColumn
  <2>2. ~Good(r, 0)
    BY <1>0 DEF Good
  <2>3. cols[1] = "term"
    BY <1>8 DEF Layouts
  <2>4. k = [is |-> "list", term |-> 1, rate |-> rate, date |-> DateOf(r, date)] /\ AllGood(r, {1, rate})
    BY <1>8, FromRowOf DEF LFList, LFRateColumn, KeptIf, Kept
  <2> HIDE DEF rate, date
  <2> QED
    BY <1>8, <2>1, <2>2, <2>3, <2>4 DEF SaysTheRow, AllGood, DateOf
<1>9. CASE source = "Landshypotek_discount"
  BY <1>9, FromRowOf DEF Layouts, LandshypotekDiscount, KeptIf, Kept, SaysTheRow, AllGood
<1>10. CASE source = "Landshypotek_list"
  BY <1>10, FromRowOf DEF Layouts, LandshypotekList, KeptIf, Kept, SaysTheRow, AllGood, DateOf
<1>11. CASE source = "Landshypotek_latest"
  BY <1>11, FromRowOf DEF Layouts, LandshypotekLatest, KeptIf, Kept, SaysTheRow, AllGood
<1>12. CASE source = "Nordnet_list"
  <2>1. k = [is |-> "list", term |-> 1, rate |-> Len(r), date |-> 0] /\ AllGood(r, {1, Len(r)})
    BY <1>12, FromRowOf DEF NordnetList, KeptIf, Kept
  <2>2. cols[1] = "term" /\ cols[Len(cols)] = "list"
    <3>1. cols = <<"term", "tier", "tier", "list">> \/ cols = <<"term", "tier", "tier", "tier", "list">>
      BY <1>12 DEF Layouts
    <3>2. CASE cols = <<"term", "tier", "tier", "list">>
      BY <3>2
    <3>3. CASE cols = <<"term", "tier", "tier", "tier", "list">>
      BY <3>3
    <3> QED
      BY <3>1, <3>2, <3>3
  <2>3. Len(r) = Len(cols) \/ Len(r) < Len(cols)
    BY <1>0
  <2> QED
    BY <1>12, <2>1, <2>2, <2>3 DEF SaysTheRow, AllGood
<1>13. CASE source = "Bluestep_list"
  BY <1>13, FromRowOf DEF Layouts, BluestepList, KeptIf, Kept, SaysTheRow, AllGood
<1>14. CASE source = "JAK"
  BY <1>14, FromRowOf DEF Layouts, JAKRates, KeptIf, Kept, SaysTheRow, AllGood
<1>15. CASE source = "Svea"
  BY <1>15, FromRowOf DEF Layouts, SveaAverage, KeptIf, Kept, SaysTheRow, AllGood
<1>16. CASE source = "Stabelo_tier"
  BY <1>16, FromRowOf DEF Layouts, StabeloTier, IsRateButton, SpanWithRate, KeptIf, Kept, SaysTheRow, AllGood
<1>17. CASE source = "Skandia_list"
  <2> DEFINE term == LastColumn(cols, "term")
             rate == LastColumn(cols, "list")
             date == LastColumn(cols, "date")
  <2>1. /\ term # 0 => cols[term] = "term"
        /\ rate # 0 => cols[rate] = "list"
        /\ date # 0 => cols[date] = "date"
    BY <1>0, LastColumnProperties
  <2>2. ~Good(r, 0)
    BY <1>0 DEF Good
  <2>3. /\ k.is = "list" /\ k.term = term /\ k.rate = rate
        /\ k.date = 0 \/ k.date = DateOf(r, date)
        /\ AllGood(r, {term, rate})
    BY <1>17, FromRowOf DEF SkandiaTable, KeptIf, Kept
  <2> HIDE DEF term, rate, date
  <2> QED
    BY <1>17, <2>1, <2>2, <2>3 DEF SaysTheRow, AllGood, DateOf
<1>18. CASE source = "Skandia"
  <2> DEFINE term == LastColumn(cols, "term")
             rate == LastColumn(cols, "average")
             date == LastColumn(cols, "date")
  <2>1. /\ term # 0 => cols[term] = "term"
        /\ rate # 0 => cols[rate] = "average"
        /\ date # 0 => cols[date] = "date"
    BY <1>0, LastColumnProperties
  <2>2. ~Good(r, 0)
    BY <1>0 DEF Good
  <2>3. /\ k.is = "average" /\ k.term = term /\ k.rate = rate
        /\ k.date = 0 \/ k.date = DateOf(r, date)
        /\ AllGood(r, {term, rate})
    BY <1>18, FromRowOf DEF SkandiaTable, KeptIf, Kept
  <2> HIDE DEF term, rate, date
  <2> QED
    BY <1>18, <2>1, <2>2, <2>3 DEF SaysTheRow, AllGood, DateOf
<1>19. CASE source = "Handelsbanken_list"
  <2>1. k = [is |-> "list", term |-> 1, rate |-> 2, date |-> 0] /\ Good(r, 1)
    BY <1>19, FromRowOf DEF NumberField, KeptIf, Kept, NumberAverages
  <2>2. cols = <<"term", "list">>
    BY <1>19 DEF Layouts
  <2>3. Len(r) = 2 /\ (Good(r, 2) \/ r[2] = "absent")
    BY <1>0, <1>19, <2>2 DEF JSONSources, TypedNumbers, NumberLists, NumberAverages, Good
  <2> QED
    BY <1>19, <2>1, <2>2, <2>3 DEF SaysTheRow, NumberLists, NumberAverages
<1>20. CASE source = "Avanza_list"
  <2>1. k = [is |-> "list", term |-> 1, rate |-> 2, date |-> 0] /\ Good(r, 1)
    BY <1>20, FromRowOf DEF NumberField, KeptIf, Kept, NumberAverages
  <2>2. cols = <<"term", "list">>
    BY <1>20 DEF Layouts
  <2>3. Len(r) = 2 /\ (Good(r, 2) \/ r[2] = "absent")
    BY <1>0, <1>20, <2>2 DEF JSONSources, TypedNumbers, NumberLists, NumberAverages, Good
  <2> QED
    BY <1>20, <2>1, <2>2, <2>3 DEF SaysTheRow, NumberLists, NumberAverages
<1>21. CASE source = "Handelsbanken"
  <2>1. k = [is |-> "average", term |-> 1, rate |-> 2, date |-> 0] /\ Good(r, 1)
    BY <1>21, FromRowOf DEF NumberField, KeptIf, Kept, NumberAverages
  <2>2. cols = <<"term", "average">>
    BY <1>21 DEF Layouts
  <2>3. Len(r) = 2 /\ (Good(r, 2) \/ r[2] = "absent")
    BY <1>0, <1>21, <2>2 DEF JSONSources, TypedNumbers, NumberLists, NumberAverages, Good
  <2> QED
    BY <1>21, <2>1, <2>2, <2>3 DEF SaysTheRow, NumberLists, NumberAverages
<1>22. CASE source = "SEB"
  <2>1. k = [is |-> "average", term |-> 1, rate |-> 2, date |-> 0] /\ Good(r, 1)
    BY <1>22, FromRowOf DEF NumberField, KeptIf, Kept, NumberAverages
  <2>2. cols = <<"term", "average">>
    BY <1>22 DEF Layouts
  <2>3. Len(r) = 2 /\ (Good(r, 2) \/ r[2] = "absent")
    BY <1>0, <1>22, <2>2 DEF JSONSources, TypedNumbers, NumberLists, NumberAverages, Good
  <2> QED
    BY <1>22, <2>1, <2>2, <2>3 DEF SaysTheRow, NumberLists, NumberAverages
<1>23. CASE source = "SEB_list"
  BY <1>23, <1>0, FromRowOf DEF Layouts, SEBList, KeptIf, Kept, SaysTheRow, AllGood, Good,
                            JSONSources, TypedNumbers, NumberLists, NumberAverages
<1>24. CASE source = "SBAB_list"
  BY <1>24, FromRowOf DEF Layouts, SBABList, KeptIf, Kept, SaysTheRow, AllGood, DateOf
<1>25. CASE source = "SBAB"
  BY <1>25, <1>0, FromRowOf DEF Layouts, SBABAverage, KeptIf, Kept, SaysTheRow, AllGood, Good, TermByPlace
<1>26. CASE source = "Ikano_list"
  BY <1>26, FromRowOf DEF Layouts, IkanoList, KeptIf, Kept, SaysTheRow, AllGood
<1>27. CASE source = "Hypoteket_list"
  BY <1>27, FromRowOf DEF Layouts, HypoteketList, KeptIf, Kept, SaysTheRow, AllGood, DateOf
<1>28. CASE source = "Hypoteket"
  BY <1>28, <1>0, FromRowOf DEF Layouts, HypoteketAverage, KeptIf, Kept, SaysTheRow, AllGood, Good,
                            TermByPlace
<1> QED
  BY <1>1, <1>2, <1>3, <1>4, <1>5, <1>6, <1>7, <1>8, <1>9, <1>10, <1>11, <1>12, <1>13, <1>14,
     <1>15, <1>16, <1>17, <1>18, <1>19, <1>20, <1>21, <1>22, <1>23, <1>24, <1>25, <1>26, <1>27, <1>28
     DEF AllSources, JSONSources, SkandiaPages, TableSources, NumberLists, NumberAverages

\* What is kept is a set of one.
LEMMA KeptOne == ASSUME NEW is, NEW t, NEW q, NEW d PROVE Kept(is, t, q, d) # {}
BY DEF Kept

\* A row with all of its columns, each understood, gives a set.
LEMMA WholeRowGivesSet ==
  ASSUME source \in AllSources, NEW cols \in Layouts(source), NEW r \in Seq(Cells),
         Len(r) = Len(cols), AllGood(r, DOMAIN cols), NEW i,
         source = "LF_list" => LFRateColumn(cols) # 0,
         source = "Skandia_list" => LastColumn(cols, "term") # 0 /\ LastColumn(cols, "list") # 0,
         source = "Skandia" => LastColumn(cols, "term") # 0 /\ LastColumn(cols, "average") # 0
  PROVE  FromRow(cols, r, i) # {}
<1>0. /\ Len(cols) \in Nat /\ DOMAIN cols = 1 .. Len(cols) /\ DOMAIN r = 1 .. Len(cols)
      /\ \A j \in 1 .. Len(cols) : Good(r, j) /\ r[j] = "good"
  BY LayoutShape DEF AllGood, Good
<1>1. CASE source = "Nordea_list"
  <2>1. Len(cols) = 4
    BY <1>1 DEF Layouts
  <2>2. Len(r) = 4 /\ Good(r, 1) /\ Good(r, 2) /\ Good(r, 3) /\ Good(r, 4)
    BY <1>0, <2>1
  <2> QED
    BY <1>1, <2>2, FromRowOf, KeptOne DEF NordeaList, KeptIf, AllGood
<1>2. CASE source = "ICA_list"
  <2>1. Len(cols) = 3
    BY <1>2 DEF Layouts
  <2>2. Len(r) = 3 /\ Good(r, 1) /\ Good(r, 2) /\ Good(r, 3)
    BY <1>0, <2>1
  <2> QED
    BY <1>2, <2>2, FromRowOf, KeptOne DEF ICAList, KeptIf, AllGood
<1>3. CASE source = "ICA"
  <2>1. Len(cols) = 2
    BY <1>3 DEF Layouts
  <2> QED
    BY <1>0, <1>3, <2>1, FromRowOf, KeptOne DEF ICAAverage, KeptIf, AllGood
<1>4. CASE source = "Alandsbanken_list"
  <2>1. Len(cols) = 4
    BY <1>4 DEF Layouts
  <2>2. Len(r) = 4 /\ Good(r, 1) /\ Good(r, 2) /\ Good(r, 3) /\ Good(r, 4)
    BY <1>0, <2>1
  <2> QED
    BY <1>4, <2>2, FromRowOf, KeptOne DEF AlandsbankenList, KeptIf, AllGood
<1>5. CASE source = "Alandsbanken"
  <2>1. Len(cols) = 3
    BY <1>5 DEF Layouts
  <2>2. Len(r) = 3 /\ Good(r, 1) /\ Good(r, 2) /\ Good(r, 3)
    BY <1>0, <2>1
  <2> QED
    BY <1>5, <2>2, FromRowOf, KeptOne DEF AlandsbankenAverage, KeptIf, AllGood
<1>6. CASE source = "Danske_list"
  <2>1. Len(cols) = 4
    BY <1>6 DEF Layouts
  <2>2. Len(r) = 4 /\ Good(r, 1) /\ Good(r, 2) /\ Good(r, 3) /\ Good(r, 4)
    BY <1>0, <2>1
  <2> QED
    BY <1>6, <2>2, FromRowOf, KeptOne DEF DanskeList, KeptIf, AllGood
<1>7. CASE source = "Swedbank_list"
  <2>1. Len(cols) = 2
    BY <1>7 DEF Layouts
  <2> QED
    BY <1>0, <1>7, <2>1, FromRowOf, KeptOne DEF SwedbankList, KeptIf, AllGood
<1>8. CASE source = "LF_list"
  <2>1. LFRateColumn(cols) \in 1 .. Len(cols) /\ 1 \in 1 .. Len(cols)
    BY <1>0, <1>8, LastColumnProperties DEF LFRateColumn
  <2> QED
    BY <1>0, <1>8, <2>1, FromRowOf, KeptOne DEF LFList, KeptIf, AllGood
<1>9. CASE source = "Landshypotek_discount"
  <2>1. Len(cols) = 3
    BY <1>9 DEF Layouts
  <2>2. Len(r) = 3 /\ Good(r, 1) /\ Good(r, 2) /\ Good(r, 3)
    BY <1>0, <2>1
  <2>3. FromRow(cols, r, i) = LandshypotekDiscount(r)
    BY <1>9, FromRowOf
  <2>4. LandshypotekDiscount(r) # {}
    BY <2>2, KeptOne DEF LandshypotekDiscount, KeptIf, AllGood
  <2> QED
    BY <2>3, <2>4
<1>10. CASE source = "Landshypotek_list"
  <2>1. Len(cols) = 4
    BY <1>10 DEF Layouts
  <2>2. Len(r) = 4 /\ Good(r, 1) /\ Good(r, 2) /\ Good(r, 3) /\ Good(r, 4)
    BY <1>0, <2>1
  <2> QED
    BY <1>10, <2>2, FromRowOf, KeptOne DEF LandshypotekList, KeptIf, AllGood
<1>11. CASE source = "Landshypotek_latest"
  <2>1. Len(cols) = 3
    BY <1>11 DEF Layouts
  <2>2. Len(r) = 3 /\ Good(r, 1) /\ Good(r, 2) /\ Good(r, 3)
    BY <1>0, <2>1
  <2>3. FromRow(cols, r, i) = LandshypotekLatest(r)
    BY <1>11, FromRowOf
  <2>4. LandshypotekLatest(r) # {}
    BY <2>2, KeptOne DEF LandshypotekLatest, KeptIf, AllGood
  <2> QED
    BY <2>3, <2>4
<1>12. CASE source = "Nordnet_list"
  <2>1. Len(cols) \in 4 .. 5
    BY <1>12 DEF Layouts
  <2> QED
    BY <1>0, <1>12, <2>1, FromRowOf, KeptOne DEF NordnetList, KeptIf, AllGood
<1>13. CASE source = "Bluestep_list"
  <2>1. Len(cols) = 2
    BY <1>13 DEF Layouts
  <2> QED
    BY <1>0, <1>13, <2>1, FromRowOf, KeptOne DEF BluestepList, KeptIf, AllGood
<1>14. CASE source = "JAK"
  <2>1. Len(cols) = 4
    BY <1>14 DEF Layouts
  <2>2. Len(r) = 4 /\ Good(r, 1) /\ Good(r, 2) /\ Good(r, 3) /\ Good(r, 4)
    BY <1>0, <2>1
  <2> QED
    BY <1>14, <2>2, FromRowOf, KeptOne DEF JAKRates, KeptIf, AllGood
<1>15. CASE source = "Svea"
  <2>1. Len(cols) = 2
    BY <1>15 DEF Layouts
  <2> QED
    BY <1>0, <1>15, <2>1, FromRowOf, KeptOne DEF SveaAverage, KeptIf, AllGood
<1>16. CASE source = "Stabelo_tier"
  <2>1. Len(cols) = 2
    BY <1>16 DEF Layouts
  <2> QED
    BY <1>0, <1>16, <2>1, FromRowOf, KeptOne DEF StabeloTier, IsRateButton, SpanWithRate, KeptIf, AllGood
<1>17. CASE source = "Skandia_list"
  <2>1. LastColumn(cols, "term") \in 1 .. Len(cols) /\ LastColumn(cols, "list") \in 1 .. Len(cols)
    BY <1>0, <1>17, LastColumnProperties
  <2> QED
    BY <1>0, <1>17, <2>1, FromRowOf, KeptOne DEF SkandiaTable, KeptIf, AllGood
<1>18. CASE source = "Skandia"
  <2>1. LastColumn(cols, "term") \in 1 .. Len(cols) /\ LastColumn(cols, "average") \in 1 .. Len(cols)
    BY <1>0, <1>18, LastColumnProperties
  <2> QED
    BY <1>0, <1>18, <2>1, FromRowOf, KeptOne DEF SkandiaTable, KeptIf, AllGood
<1>19. CASE source = "Handelsbanken_list"
  <2>1. Len(cols) = 2
    BY <1>19 DEF Layouts
  <2> QED
    BY <1>0, <1>19, <2>1, FromRowOf, KeptOne DEF NumberField, KeptIf, AllGood
<1>20. CASE source = "Avanza_list"
  <2>1. Len(cols) = 2
    BY <1>20 DEF Layouts
  <2> QED
    BY <1>0, <1>20, <2>1, FromRowOf, KeptOne DEF NumberField, KeptIf, AllGood
<1>21. CASE source = "Handelsbanken"
  <2>1. Len(cols) = 2
    BY <1>21 DEF Layouts
  <2> QED
    BY <1>0, <1>21, <2>1, FromRowOf, KeptOne DEF NumberAverages, NumberField, KeptIf, AllGood
<1>22. CASE source = "SEB"
  <2>1. Len(cols) = 2
    BY <1>22 DEF Layouts
  <2> QED
    BY <1>0, <1>22, <2>1, FromRowOf, KeptOne DEF NumberAverages, NumberField, KeptIf, AllGood
<1>23. CASE source = "SEB_list"
  <2>1. Len(cols) = 3
    BY <1>23 DEF Layouts
  <2>2. Len(r) = 3 /\ Good(r, 1) /\ Good(r, 2) /\ Good(r, 3)
    BY <1>0, <2>1
  <2> QED
    BY <1>23, <2>2, FromRowOf, KeptOne DEF SEBList, KeptIf, AllGood
<1>24. CASE source = "SBAB_list"
  <2>1. Len(cols) = 3
    BY <1>24 DEF Layouts
  <2>2. Len(r) = 3 /\ Good(r, 1) /\ Good(r, 2) /\ Good(r, 3)
    BY <1>0, <2>1
  <2> QED
    BY <1>24, <2>2, FromRowOf, KeptOne DEF SBABList, KeptIf, AllGood
<1>25. CASE source = "SBAB"
  <2>1. Len(cols) = 2
    BY <1>25 DEF Layouts
  <2> QED
    BY <1>0, <1>25, <2>1, FromRowOf, KeptOne DEF SBABAverage, KeptIf, AllGood
<1>26. CASE source = "Ikano_list"
  <2>1. Len(cols) = 2
    BY <1>26 DEF Layouts
  <2> QED
    BY <1>0, <1>26, <2>1, FromRowOf, KeptOne DEF IkanoList, KeptIf, AllGood
<1>27. CASE source = "Hypoteket_list"
  <2>1. Len(cols) = 3
    BY <1>27 DEF Layouts
  <2>2. Len(r) = 3 /\ Good(r, 1) /\ Good(r, 2) /\ Good(r, 3)
    BY <1>0, <2>1
  <2> QED
    BY <1>27, <2>2, FromRowOf, KeptOne DEF HypoteketList, KeptIf, AllGood
<1>28. CASE source = "Hypoteket"
  <2>1. Len(cols) = 2
    BY <1>28 DEF Layouts
  <2> QED
    BY <1>0, <1>28, <2>1, FromRowOf, KeptOne DEF HypoteketAverage, KeptIf, AllGood
<1> QED
  BY <1>1, <1>2, <1>3, <1>4, <1>5, <1>6, <1>7, <1>8, <1>9, <1>10, <1>11, <1>12, <1>13, <1>14,
     <1>15, <1>16, <1>17, <1>18, <1>19, <1>20, <1>21, <1>22, <1>23, <1>24, <1>25, <1>26, <1>27, <1>28
     DEF AllSources, JSONSources, SkandiaPages, TableSources, NumberLists, NumberAverages

\* An index past the end is a row with a reference past the payload, or of Danske's a short one.
LEMMA PanicHasReason ==
  ASSUME source \in AllSources, NEW cols \in Layouts(source), NEW r \in Rows(source, Len(cols)),
         RowPanics(r)
  PROVE  "past" \in Range(r) \/ (source = "Danske_list" /\ Len(r) < 4)
<1>0. r \in Seq(Cells) /\ (source \in JSONSources \cup SkandiaPages => Len(r) = Len(cols))
  BY RowShape
<1>1. CASE source = "Danske_list"
  BY <1>0, <1>1 DEF RowPanics
<1>2. CASE source = "Hypoteket_list"
  <2>1. Len(cols) = 3
    BY <1>2 DEF Layouts
  <2>2. DOMAIN r = 1 .. 3
    BY <1>0, <1>2, <2>1 DEF JSONSources
  <2>3. r[1] = "past" \/ r[2] = "past" \/ r[3] = "past"
    BY <1>2 DEF RowPanics
  <2> QED
    BY <2>2, <2>3 DEF Range
<1>3. CASE source = "Hypoteket"
  <2>1. Len(cols) = 2
    BY <1>3 DEF Layouts
  <2>2. DOMAIN r = 1 .. 2
    BY <1>0, <1>3, <2>1 DEF JSONSources
  <2>3. r[2] = "past"
    BY <1>3 DEF RowPanics
  <2> QED
    BY <2>2, <2>3 DEF Range
<1> QED
  BY <1>1, <1>2, <1>3 DEF RowPanics

-----------------------------------------------------------------------------
(* Sections *)

\* A section the bank puts on its page has rows of its layout.
LEMMA SectionFits ==
  ASSUME source \in AllSources, NEW n, NEW sec \in Sections(source, n)
  PROVE  /\ sec \in AnySection
         /\ \A j \in DOMAIN sec.rows : sec.rows[j] \in Rows(source, Len(sec.cols))
<1>1. PICK cols \in Layouts(source) :
        /\ sec.cols = cols /\ sec.kind \in Kinds(source) /\ sec.heading \in Headings(source)
        /\ sec.rows \in UNION {[1 .. m -> Rows(source, Len(cols))] : m \in 0 .. n}
        /\ sec = [kind |-> sec.kind, heading |-> sec.heading, cols |-> sec.cols, rows |-> sec.rows]
  BY DEF Sections
<1>2. PICK m \in 0 .. n : sec.rows \in [1 .. m -> Rows(source, Len(cols))]
  BY <1>1
<1>3. Len(cols) \in Nat /\ m \in Nat
  BY LayoutShape
<1>4. sec.rows \in Seq(UNION {Rows(source, k) : k \in Nat})
  <2>1. sec.rows \in Seq(Rows(source, Len(cols)))
    BY <1>2, <1>3, SeqDef
  <2>2. Rows(source, Len(cols)) \subseteq UNION {Rows(source, k) : k \in Nat}
    BY <1>3
  <2> QED
    BY <2>1, <2>2
<1>5. sec \in AnySection
  BY <1>1, <1>4 DEF AnySection
<1> QED
  BY <1>1, <1>2, <1>5

\* What a section that is read has.
LEMMA ReadsMeans ==
  ASSUME source \in AllSources, NEW sec \in AnySection, Reads(sec)
  PROVE  /\ source = "LF_list" => LFRateColumn(sec.cols) # 0
         /\ source = "Skandia_list" => LastColumn(sec.cols, "term") # 0 /\ LastColumn(sec.cols, "list") # 0
         /\ source = "Skandia" => LastColumn(sec.cols, "term") # 0 /\ LastColumn(sec.cols, "average") # 0
         /\ \/ sec.heading = "good"
            \/ sec.heading = "bare" /\ source = "Skandia" /\ sec.kind \in {"item", "question"}
            \/ source = "Swedbank_list"
            \/ source = "Avanza_list" /\ sec.heading = "absent"
<1>1. CASE source \in SkandiaPages
  <2>1. sec.kind \in {"block", "item", "question", "other"}
    BY <1>1 DEF AnySection, Kinds
  <2>2. CASE source = "Skandia_list"
    BY <2>2 DEF Reads, SkandiaFinds
  <2>3. CASE source = "Skandia"
    BY <2>1, <2>3 DEF Reads, SkandiaFinds
  <2> QED
    BY <1>1, <2>2, <2>3 DEF SkandiaPages
<1>2. CASE source \notin SkandiaPages
  BY <1>2 DEF Reads, SkandiaPages
<1> QED
  BY <1>1, <1>2

\* A section with the rates the crawler is for is read, unless it has no rows; and no section
\* before it is, where one is all that is read.
LEMMA WantedIsRead ==
  ASSUME Documents, NEW i \in DOMAIN doc, Wanted(i), doc[i].rows # <<>>
  PROVE  Reads(doc[i]) /\ IsFirst(i)
<1>0. /\ doc[i].cols \in Layouts(source) /\ doc[i].kind \in Kinds(source)
      /\ doc[i].heading \in Headings(source)
  <2>1. doc[i] \in AnySection
    BY DEF Documents
  <2> QED
    BY <2>1 DEF AnySection
<1>1. Len(doc[i].cols) \in Nat /\ DOMAIN doc[i].cols = 1 .. Len(doc[i].cols)
  BY <1>0, LayoutShape DEF Documents
<1>2. ASSUME NEW label \in Range(doc[i].cols)
      PROVE  LastColumn(doc[i].cols, label) # 0
  BY <1>1, LastColumnProperties DEF Range
<1>3. CASE source \in SkandiaPages
  <2> DEFINE is == IF source = "Skandia" THEN "average" ELSE "list"
  <2>1. {"term", is} \subseteq Range(doc[i].cols)
    BY <1>3 DEF Wanted
  <2>2. Len(doc[i].cols) >= 2
    BY <1>1, <2>1 DEF Range
  <2>3. SkandiaFinds(doc[i], is)
    BY <1>2, <2>1, <2>2 DEF SkandiaFinds
  <2>4. source \notin FirstOnly
    BY <1>3 DEF SkandiaPages, FirstOnly
  <2>5. CASE source = "Skandia_list"
    BY <1>3, <2>3, <2>4, <2>5 DEF Wanted, Reads, IsFirst
  <2>6. CASE source = "Skandia"
    BY <1>3, <2>3, <2>4, <2>6 DEF Wanted, Reads, IsFirst
  <2> QED
    BY <1>3, <2>5, <2>6 DEF SkandiaPages
<1>4. CASE source = "LF_list"
  BY <1>2, <1>4 DEF Wanted, Reads, LFRateColumn, IsFirst, FirstOnly
<1>5. CASE source = "Avanza_list"
  BY <1>5 DEF Wanted, Reads, IsFirst
<1>6. CASE source = "Nordnet_list"
  BY <1>6 DEF Wanted, Reads, IsFirst
<1>7. CASE source \notin SkandiaPages \cup {"LF_list", "Avanza_list", "Nordnet_list"}
  BY <1>7 DEF Wanted, Reads, IsFirst, FirstOnly, SkandiaPages
<1> QED
  BY <1>3, <1>4, <1>5, <1>6, <1>7

-----------------------------------------------------------------------------
(* The invariant is inductive *)

\* Once it is fetched the document stays, and all that is said of it.
LEMMA SameDocument ==
  ASSUME UNCHANGED <<source, doc>>
  PROVE  /\ Documents' <=> Documents
         /\ Mistyped' <=> Mistyped
         /\ \A sec : Reads(sec)' <=> Reads(sec)
         /\ \A i : IsFirst(i)' <=> IsFirst(i)
         /\ \A i, m : MonthOf(i, m)' <=> MonthOf(i, m)
         /\ \A i : Wanted(i)' <=> Wanted(i)
         /\ \A i, j : Whole(i, j)' <=> Whole(i, j)
         /\ \A x : TakenFrom(x)' <=> TakenFrom(x)
<1>1. Documents' <=> Documents
  BY DEF Documents, AnySection
<1>2. Mistyped' <=> Mistyped
  BY DEF Mistyped
<1>3. \A sec : Reads(sec)' <=> Reads(sec)
  BY DEF Reads, SkandiaFinds
<1>4. \A i : IsFirst(i)' <=> IsFirst(i)
  BY <1>3 DEF IsFirst
<1>5. \A i, m : MonthOf(i, m)' <=> MonthOf(i, m)
  BY DEF MonthOf
<1>6. \A i : Wanted(i)' <=> Wanted(i)
  BY DEF Wanted
<1>7. \A i, j : Whole(i, j)' <=> Whole(i, j)
  BY DEF Whole
<1>8. \A c, r, i : FromRow(c, r, i)' = FromRow(c, r, i)
  BY DEF FromRow
<1>9. \A x : TakenFrom(x)' <=> TakenFrom(x)
  BY <1>3, <1>4, <1>5, <1>8 DEF TakenFrom, ColsOf, RowOf
<1> QED
  BY <1>1, <1>2, <1>3, <1>4, <1>5, <1>6, <1>7, <1>9

\* The shape of a document.
LEMMA DocumentShape ==
  ASSUME Documents
  PROVE  /\ Len(doc) \in Nat /\ DOMAIN doc = 1 .. Len(doc)
         /\ \A i \in DOMAIN doc : /\ doc[i] \in AnySection /\ doc[i].cols \in Layouts(source)
                                  /\ Len(doc[i].rows) \in Nat /\ DOMAIN doc[i].rows = 1 .. Len(doc[i].rows)
<1>1. Len(doc) \in Nat /\ DOMAIN doc = 1 .. Len(doc)
  BY DEF Documents
<1>2. ASSUME NEW i \in DOMAIN doc
      PROVE  /\ doc[i] \in AnySection /\ doc[i].cols \in Layouts(source)
             /\ Len(doc[i].rows) \in Nat /\ DOMAIN doc[i].rows = 1 .. Len(doc[i].rows)
  <2>1. doc[i] \in AnySection
    BY DEF Documents
  <2>2. doc[i].rows \in Seq(UNION {Rows(source, n) : n \in Nat}) /\ doc[i].cols \in Layouts(source)
    BY <2>1 DEF AnySection
  <2> QED
    BY <2>1, <2>2
<1> QED
  BY <1>1, <1>2

\* Nothing is read yet.
LEMMA InitInv == Init => Inv
<1> SUFFICES ASSUME Init PROVE Inv
  OBVIOUS
<1>1. TypeOK
  BY DEF Init, TypeOK
<1>2. Documents
  <2>1. source \in AllSources /\ doc = <<>>
    BY SourcesKnown DEF Init
  <2>2. SectionBound(source) \in Nat
    BY BoundsNat DEF SectionBound
  <2> QED
    BY <2>1, <2>2 DEF Documents
<1>3. Place
  BY DEF Init, Place, IsFirst
<1>4. Origins /\ Completeness /\ Panics
  BY DEF Init, Origins, Completeness, Panics
<1> QED
  BY <1>1, <1>2, <1>3, <1>4 DEF Inv

\* Another section on the page: it fits its source.
LEMMA AddSectionInv == Inv /\ AddSection => Inv'
<1> SUFFICES ASSUME Inv, AddSection PROVE Inv'
  OBVIOUS
<1>0. /\ outcome = "unread" /\ at = 1 /\ row = 0 /\ month = 0 /\ sets = {}
      /\ UNCHANGED <<source, at, row, month, sets, outcome>>
  BY DEF Inv, Place, AddSection
<1>1. PICK sec \in Sections(source, MaxRows - RowsIn(doc)) : doc' = Append(doc, sec)
  BY DEF AddSection
<1>2. /\ source \in AllSources /\ doc \in Seq(AnySection) /\ Len(doc) < SectionBound(source)
      /\ Len(doc) \in Nat
  BY DocumentShape DEF Inv, Documents, AddSection
<1>3. sec \in AnySection /\ \A j \in DOMAIN sec.rows : sec.rows[j] \in Rows(source, Len(sec.cols))
  BY <1>2, SectionFits
<1>4. Documents'
  <2>1. doc' \in Seq(AnySection)
    BY <1>1, <1>2, <1>3
  <2>2. AnySection' = AnySection
    BY <1>0 DEF AnySection
  <2>3. Len(doc') <= SectionBound(source)
    <3>1. SectionBound(source) \in Nat
      BY BoundsNat DEF SectionBound
    <3> QED
      BY <1>1, <1>2, <3>1
  <2>4. \A i \in DOMAIN doc' : (i \in DOMAIN doc /\ doc'[i] = doc[i]) \/ doc'[i] = sec
    BY <1>1, <1>2
  <2>5. \A i \in DOMAIN doc' : \A j \in DOMAIN doc'[i].rows :
          doc'[i].rows[j] \in Rows(source, Len(doc'[i].cols))
    BY <1>3, <2>4 DEF Inv, Documents
  <2> QED
    BY <1>0, <1>2, <2>1, <2>2, <2>3, <2>5 DEF Documents
<1>5. TypeOK'
  <2>1. Len(doc') \in Nat /\ Len(doc') >= 1
    BY <1>1, <1>2, <1>3
  <2>2. row' \in 0 .. (IF at' <= Len(doc') THEN Len(doc'[at'].rows) + 1 ELSE 0)
    <3>1. doc'[1] \in AnySection'
      BY <1>4, <2>1 DEF Documents
    <3>2. Len(doc'[1].rows) \in Nat
      BY <3>1 DEF AnySection
    <3> QED
      BY <1>0, <2>1, <3>2
  <2> QED
    BY <1>0, <2>1, <2>2 DEF Inv, TypeOK
<1>6. Place'
  BY <1>0 DEF Place, IsFirst
<1>7. Origins' /\ Completeness' /\ Panics'
  BY <1>0 DEF Origins, Completeness, Panics
<1> QED
  BY <1>4, <1>5, <1>6, <1>7 DEF Inv

\* The document is there, and the reader before its first section.
LEMMA FetchInv == Inv /\ Fetch => Inv'
<1> SUFFICES ASSUME Inv, Fetch PROVE Inv'
  OBVIOUS
<1>0. /\ outcome = "unread" /\ at = 1 /\ row = 0 /\ month = 0 /\ sets = {} /\ doc # <<>>
      /\ outcome' = IF Mistyped THEN "failed" ELSE "reading"
      /\ UNCHANGED <<source, doc, at, row, month, sets>>
  BY DEF Inv, Place, Fetch
<1>1. Len(doc) \in Nat /\ Len(doc) > 0 /\ DOMAIN doc = 1 .. Len(doc)
  BY <1>0, DocumentShape, EmptySeq DEF Inv, Documents
<1>2. Documents'
  BY <1>0, SameDocument DEF Inv
<1>3. TypeOK'
  BY <1>0 DEF Inv, TypeOK
<1>4. Place'
  BY <1>0, SameDocument DEF Place, Inv, IsFirst
<1>5. Origins' /\ Panics'
  BY <1>0 DEF Origins, Panics
<1>6. Completeness'
  <2>1. \A i \in DOMAIN doc, j \in Nat : ~(i < at \/ (i = at /\ j < row))
    BY <1>0, <1>1
  <2> QED
    BY <1>0, <1>1, <2>1, SameDocument DEF Completeness, Passed
<1> QED
  BY <1>2, <1>3, <1>4, <1>5, <1>6 DEF Inv

\* The section's month is read with its heading; Swedbank's only section finds none from before.
LEMMA OpenSectionInv == Inv /\ OpenSection => Inv'
<1> SUFFICES ASSUME Inv, OpenSection PROVE Inv'
  OBVIOUS
<1>0. /\ outcome = "reading" /\ row = 0 /\ row' = 1 /\ at <= Len(doc) /\ Reads(doc[at])
      /\ UNCHANGED <<source, doc, at, sets, outcome>>
      /\ month' = IF source \in Dated \/ (source = "Swedbank_list" /\ doc[at].heading = "good")
                  THEN at ELSE month
  BY DEF OpenSection, AtSection
<1>1. /\ Len(doc) \in Nat /\ DOMAIN doc = 1 .. Len(doc) /\ at \in DOMAIN doc
      /\ Len(doc[at].rows) \in Nat
  BY <1>0, DocumentShape DEF Inv, TypeOK
<1>2. Documents'
  BY <1>0, SameDocument DEF Inv
<1>3. TypeOK'
  BY <1>0, <1>1 DEF Inv, TypeOK
<1>4. MonthOf(at, month')
  <2>1. CASE source \in Dated
    BY <1>0, <2>1 DEF MonthOf, Dated, NumberAverages
  <2>2. CASE source = "Swedbank_list"
    <3>1. Len(doc) <= 1
      BY <2>2 DEF Inv, Documents, SectionBound, PassesOver, Dated, NumberAverages, SkandiaPages, FirstOnly
    <3>2. at = 1 /\ month = 0
      BY <1>0, <1>1, <3>1 DEF Inv, Place
    <3> QED
      BY <1>0, <2>2, <3>2 DEF MonthOf, Dated, NumberAverages
  <2> QED
    BY <2>1, <2>2 DEF MonthOf
<1>5. Place'
  BY <1>0, <1>1, <1>4, SameDocument DEF Inv, Place
<1>6. Origins' /\ Panics'
  BY <1>0, SameDocument DEF Inv, Origins, Panics
<1>7. Completeness'
  <2>1. \A i \in DOMAIN doc : \A j \in DOMAIN doc[i].rows : Passed(i, j)' => Passed(i, j)
    BY <1>0, <1>1, DocumentShape DEF Inv, Passed
  <2> QED
    BY <1>0, <1>1, <2>1, SameDocument DEF Inv, Completeness
<1> QED
  BY <1>2, <1>3, <1>5, <1>6, <1>7 DEF Inv

\* A section that is passed over is not one with the rates the crawler is for.
LEMMA PassOverInv == Inv /\ PassOver => Inv'
<1> SUFFICES ASSUME Inv, PassOver PROVE Inv'
  OBVIOUS
<1>0. /\ outcome = "reading" /\ row = 0 /\ at <= Len(doc) /\ ~Reads(doc[at]) /\ at' = at + 1
      /\ UNCHANGED <<source, doc, row, month, sets, outcome>>
  BY DEF PassOver, AtSection
<1>1. /\ Len(doc) \in Nat /\ DOMAIN doc = 1 .. Len(doc) /\ at \in DOMAIN doc /\ at' \in 2 .. Len(doc) + 1
      /\ \A i \in DOMAIN doc : Len(doc[i].rows) \in Nat
  BY <1>0, DocumentShape DEF Inv, TypeOK
<1>2. Documents'
  BY <1>0, SameDocument DEF Inv
<1>3. TypeOK'
  BY <1>0, <1>1 DEF Inv, TypeOK
<1>4. IsFirst(at) /\ (at' \in DOMAIN doc => IsFirst(at'))
  BY <1>0, <1>1 DEF Inv, Place, IsFirst
<1>5. Place'
  BY <1>0, <1>1, <1>4, SameDocument DEF Inv, Place
<1>6. Origins' /\ Panics'
  BY <1>0, SameDocument DEF Inv, Origins, Panics
<1>7. Completeness'
  <2>1. ASSUME NEW i \in DOMAIN doc, Wanted(i), NEW j \in DOMAIN doc[i].rows, Passed(i, j)', Whole(i, j)
        PROVE  \E x \in sets : x.section = i /\ x.row = j
    <3>1. doc[i].rows # <<>>
      BY <2>1
    <3>2. i # at
      BY <1>0, <2>1, <3>1, WantedIsRead DEF Inv
    <3>3. Passed(i, j)
      BY <1>0, <1>1, <2>1, <3>2, DocumentShape DEF Inv, Passed
    <3> QED
      BY <1>0, <2>1, <3>3 DEF Inv, Completeness
  <2> QED
    BY <1>0, <2>1, SameDocument DEF Completeness
<1> QED
  BY <1>2, <1>3, <1>5, <1>6, <1>7 DEF Inv

\* When the extraction gives up, nothing is stored: what remains is the reason.
LEMMA GiveUpInv ==
  ASSUME Inv, NEW how \in {"failed", "panic"}, outcome = "reading", at <= Len(doc), GiveUp(how),
         how = "failed" => \A i \in DOMAIN doc : Wanted(i) => doc[i].rows = <<>>,
         how = "panic" => \E i \in DOMAIN doc :
           \/ doc[i].heading = "past"
           \/ \E r \in Range(doc[i].rows) : "past" \in Range(r) \/ (source = "Danske_list" /\ Len(r) < 4)
  PROVE  Inv'
<1>0. outcome' = how /\ sets' = {} /\ UNCHANGED <<source, doc, at, row, month>>
  BY DEF GiveUp
<1>1. Documents'
  BY <1>0, SameDocument DEF Inv
<1>2. TypeOK'
  BY <1>0 DEF Inv, TypeOK
<1>3. Place'
  BY <1>0, SameDocument DEF Inv, Place
<1>4. Origins' /\ Panics'
  BY <1>0 DEF Origins, Panics
<1>5. Completeness'
  <2>1. Len(doc) \in Nat /\ at \in Nat
    BY DocumentShape DEF Inv, TypeOK
  <2> QED
    BY <1>0, <2>1, SameDocument DEF Completeness
<1> QED
  BY <1>1, <1>2, <1>3, <1>4, <1>5 DEF Inv

\* A failure at a section costs no row: none was in a section the crawler is for.
LEMMA FailSectionInv == Inv /\ FailSection => Inv'
<1> SUFFICES ASSUME Inv, FailSection PROVE Inv'
  OBVIOUS
<1>0. outcome = "reading" /\ at <= Len(doc) /\ GiveUp("failed")
  BY DEF FailSection, AtSection
<1>1. Len(doc) \in Nat /\ DOMAIN doc = 1 .. Len(doc) /\ at \in DOMAIN doc
  BY <1>0, DocumentShape DEF Inv, TypeOK
<1>2. ASSUME NEW i \in DOMAIN doc, Wanted(i), doc[i].rows # <<>> PROVE FALSE
  <2>0. Reads(doc[i]) /\ IsFirst(i) /\ IsFirst(at)
    BY <1>1, <1>2, WantedIsRead DEF Inv, Place
  <2>1. CASE Reads(doc[at]) /\ TooShort(doc[at])
    <3>1. i # at
      BY <1>2, <2>1 DEF TooShort
    <3>2. CASE source = "Nordnet_list"
      BY <1>1, <2>0, <2>1, <3>1, <3>2 DEF IsFirst, FirstOnly
    <3>3. CASE source = "Bluestep_list"
      <4>1. Len(doc) <= 1
        BY <3>3 DEF Inv, Documents, SectionBound, PassesOver, Dated, NumberAverages, SkandiaPages, FirstOnly
      <4> QED
        BY <1>1, <3>1, <4>1
    <3> QED
      BY <2>1, <3>2, <3>3 DEF TooShort
  <2>2. CASE ~Reads(doc[at]) /\ source \notin PassesOver
    <3>1. Len(doc) <= 1
      BY <2>2 DEF Inv, Documents, SectionBound
    <3>2. i = at
      BY <1>1, <3>1
    <3> QED
      BY <2>0, <2>2, <3>2
  <2> QED
    BY <2>1, <2>2 DEF FailSection
<1> QED
  BY <1>0, <1>2, GiveUpInv

\* A heading that refers past the payload.
LEMMA PanicAtHeadingInv == Inv /\ PanicAtHeading => Inv'
<1> SUFFICES ASSUME Inv, PanicAtHeading PROVE Inv'
  OBVIOUS
<1>0. outcome = "reading" /\ at <= Len(doc) /\ GiveUp("panic") /\ doc[at].heading = "past"
  BY DEF PanicAtHeading, AtSection
<1>1. at \in DOMAIN doc
  BY <1>0, DocumentShape DEF Inv, TypeOK
<1> QED
  BY <1>0, <1>1, GiveUpInv

\* Where a row is read, it is a row of the document.
LEMMA RowIsThere ==
  ASSUME Inv, AtRow
  PROVE  /\ outcome = "reading" /\ at \in DOMAIN doc /\ row \in DOMAIN doc[at].rows
         /\ doc[at].cols \in Layouts(source)
         /\ doc[at].rows[row] \in Rows(source, Len(doc[at].cols))
<1>1. outcome = "reading" /\ row > 0 /\ row <= Len(doc[at].rows)
  BY DEF AtRow
<1>2. at \in DOMAIN doc
  BY <1>1 DEF Inv, Place
<1>3. row \in DOMAIN doc[at].rows
  BY <1>1, <1>2, DocumentShape DEF Inv, TypeOK
<1> QED
  BY <1>1, <1>2, <1>3, DocumentShape DEF Inv, Documents

\* A row that is indexed past its end.
LEMMA PanicAtRowInv == Inv /\ PanicAtRow => Inv'
<1> SUFFICES ASSUME Inv, PanicAtRow PROVE Inv'
  OBVIOUS
<1>0. AtRow /\ RowPanics(doc[at].rows[row]) /\ GiveUp("panic")
  BY DEF PanicAtRow
<1>1. at \in DOMAIN doc /\ at <= Len(doc) /\ doc[at].rows[row] \in Range(doc[at].rows)
  BY <1>0, RowIsThere, DocumentShape DEF Inv, Range
<1>2. "past" \in Range(doc[at].rows[row]) \/ (source = "Danske_list" /\ Len(doc[at].rows[row]) < 4)
  BY <1>0, RowIsThere, PanicHasReason DEF Inv, Documents
<1> QED
  BY <1>0, <1>1, <1>2, RowIsThere, GiveUpInv

\* The sets of a row are taken from it, and a whole row gives one.
LEMMA ReadRowInv == Inv /\ ReadRow => Inv'
<1> SUFFICES ASSUME Inv, ReadRow PROVE Inv'
  OBVIOUS
<1> DEFINE r == doc[at].rows[row]
           new == {[section |-> at, row |-> row, month |-> month, from |-> k] :
                     k \in FromRow(doc[at].cols, r, row)}
<1>0. /\ outcome = "reading" /\ at \in DOMAIN doc /\ row \in DOMAIN doc[at].rows
      /\ row' = row + 1 /\ sets' = sets \cup new
      /\ UNCHANGED <<source, doc, at, month, outcome>>
  BY RowIsThere DEF ReadRow
<1>1. /\ Len(doc) \in Nat /\ DOMAIN doc = 1 .. Len(doc) /\ at <= Len(doc)
      /\ Len(doc[at].rows) \in Nat /\ row \in 1 .. Len(doc[at].rows)
  BY <1>0, DocumentShape DEF Inv
<1>2. Documents'
  BY <1>0, SameDocument DEF Inv
<1>3. \A x \in new : x.section = at /\ x.row = row /\ TakenFrom(x)
  <2>1. Reads(doc[at]) /\ MonthOf(at, month) /\ IsFirst(at)
    BY <1>0, <1>1 DEF Inv, Place
  <2> QED
    BY <1>0, <2>1 DEF TakenFrom, ColsOf, RowOf
<1>4. TypeOK'
  <2>1. \A x \in new : x.section \in DOMAIN doc /\ x.row \in DOMAIN doc[x.section].rows
    BY <1>0
  <2> HIDE DEF new
  <2> QED
    BY <1>0, <1>1, <2>1 DEF Inv, TypeOK
<1>5. Place'
  BY <1>0, <1>1, SameDocument DEF Inv, Place
<1>6. Origins'
  <2> HIDE DEF new
  <2>1. ~Mistyped /\ \A x \in sets \cup new : TakenFrom(x)
    BY <1>0, <1>3 DEF Inv, Place, Origins
  <2> QED
    BY <1>0, <2>1, SameDocument DEF Origins
<1>7. Panics'
  BY <1>0 DEF Panics
<1>8. Completeness'
  <2>1. ASSUME NEW i \in DOMAIN doc, Wanted(i), NEW j \in DOMAIN doc[i].rows, Passed(i, j)', Whole(i, j)
        PROVE  \E x \in sets \cup new : x.section = i /\ x.row = j
    <3>1. CASE Passed(i, j)
      <4>1. \E x \in sets : x.section = i /\ x.row = j
        BY <1>0, <2>1, <3>1 DEF Inv, Completeness
      <4> QED
        BY <4>1
    <3>2. CASE i = at /\ j = row
      <4>1. FromRow(doc[at].cols, r, row) # {}
        <5>1. doc[at].cols \in Layouts(source) /\ doc[at] \in AnySection /\ source \in AllSources
          BY <1>0, DocumentShape DEF Inv, Documents
        <5>2. r \in Seq(Cells)
          BY <1>0, <5>1, RowShape DEF Inv, Documents
        <5>3. Reads(doc[at])
          BY <1>1 DEF Inv, Place
        <5>4. Len(r) = Len(doc[at].cols) /\ AllGood(r, DOMAIN doc[at].cols)
          BY <2>1, <3>2 DEF Whole
        <5> QED
          BY <5>1, <5>2, <5>3, <5>4, ReadsMeans, WholeRowGivesSet
      <4>2. PICK k \in FromRow(doc[at].cols, r, row) : TRUE
        BY <4>1
      <4>3. [section |-> at, row |-> row, month |-> month, from |-> k] \in new
        BY <4>2
      <4> QED
        BY <3>2, <4>3
    <3>3. Passed(i, j) \/ (i = at /\ j = row)
      BY <1>0, <1>1, <2>1, DocumentShape DEF Inv, Passed
    <3> QED
      BY <3>1, <3>2, <3>3
  <2> HIDE DEF new
  <2> QED
    BY <1>0, <2>1, SameDocument DEF Completeness
<1> QED
  BY <1>2, <1>4, <1>5, <1>6, <1>7, <1>8 DEF Inv

\* Where one section is all that is read, none behind it is one the crawler is for.
LEMMA CloseSectionInv == Inv /\ CloseSection => Inv'
<1> SUFFICES ASSUME Inv, CloseSection PROVE Inv'
  OBVIOUS
<1>0. /\ outcome = "reading" /\ at <= Len(doc) /\ row = Len(doc[at].rows) + 1 /\ row' = 0
      /\ at' = (IF source \in FirstOnly THEN Len(doc) + 1 ELSE at + 1)
      /\ UNCHANGED <<source, doc, month, sets, outcome>>
  BY DEF CloseSection, AtEndOfSection
<1>1. /\ Len(doc) \in Nat /\ DOMAIN doc = 1 .. Len(doc) /\ at \in DOMAIN doc
      /\ Len(doc[at].rows) \in Nat /\ at' \in 2 .. Len(doc) + 1
      /\ \A i \in DOMAIN doc : Len(doc[i].rows) \in Nat /\ DOMAIN doc[i].rows = 1 .. Len(doc[i].rows)
  BY <1>0, DocumentShape DEF Inv, TypeOK
<1>2. Reads(doc[at]) /\ IsFirst(at)
  BY <1>0, <1>1 DEF Inv, Place
<1>3. Documents'
  BY <1>0, SameDocument DEF Inv
<1>4. TypeOK'
  BY <1>0, <1>1 DEF Inv, TypeOK
<1>5. Place'
  <2>1. at' \in DOMAIN doc => IsFirst(at')
    BY <1>0, <1>1 DEF IsFirst
  <2> QED
    BY <1>0, <1>1, <2>1, SameDocument DEF Inv, Place
<1>6. Origins' /\ Panics'
  BY <1>0, SameDocument DEF Inv, Origins, Panics
<1>7. Completeness'
  <2>1. ASSUME NEW i \in DOMAIN doc, Wanted(i), NEW j \in DOMAIN doc[i].rows, Passed(i, j)', Whole(i, j)
        PROVE  \E x \in sets : x.section = i /\ x.row = j
    <3>1. IsFirst(i)
      BY <2>1, WantedIsRead DEF Inv
    <3>2. i <= at
      BY <1>0, <1>1, <1>2, <2>1, <3>1 DEF IsFirst, Passed
    <3>3. Passed(i, j)
      BY <1>0, <1>1, <3>2 DEF Passed
    <3> QED
      BY <1>0, <2>1, <3>3 DEF Inv, Completeness
  <2> QED
    BY <1>0, <2>1, SameDocument DEF Completeness
<1> QED
  BY <1>3, <1>4, <1>5, <1>6, <1>7 DEF Inv

\* At the end of the document every row was passed.
LEMMA FinishInv == Inv /\ Finish => Inv'
<1> SUFFICES ASSUME Inv, Finish PROVE Inv'
  OBVIOUS
<1>0. /\ outcome = "reading" /\ at > Len(doc) /\ row = 0 /\ outcome' \in {"failed", "done"}
      /\ UNCHANGED <<source, doc, at, row, month, sets>>
  BY DEF Finish
<1>1. Documents'
  BY <1>0, SameDocument DEF Inv
<1>2. TypeOK'
  BY <1>0 DEF Inv, TypeOK
<1>3. Place'
  BY <1>0, SameDocument DEF Inv, Place
<1>4. Origins' /\ Panics'
  BY <1>0, SameDocument DEF Inv, Origins, Panics
<1>5. Completeness'
  <2>1. Len(doc) \in Nat /\ at \in Nat
    BY DocumentShape DEF Inv, TypeOK
  <2>2. \A i, j : Passed(i, j)' <=> Passed(i, j)
    BY <1>0 DEF Passed
  <2> QED
    BY <1>0, <2>1, <2>2, SameDocument DEF Inv, Completeness
<1> QED
  BY <1>1, <1>2, <1>3, <1>4, <1>5 DEF Inv

\* Nothing happens.
LEMMA StutterInv == Inv /\ UNCHANGED vars => Inv'
<1> SUFFICES ASSUME Inv, UNCHANGED vars PROVE Inv'
  OBVIOUS
<1>0. UNCHANGED <<source, doc, at, row, month, sets, outcome>>
  BY DEF vars
<1>1. Documents' /\ TypeOK' /\ Panics'
  BY <1>0, SameDocument DEF Inv, TypeOK, Panics
<1>2. Place' /\ Origins'
  BY <1>0, SameDocument DEF Inv, Place, Origins
<1>3. Completeness'
  <2>1. \A i, j : Passed(i, j)' <=> Passed(i, j)
    BY <1>0 DEF Passed
  <2> QED
    BY <1>0, <2>1, SameDocument DEF Inv, Completeness
<1> QED
  BY <1>1, <1>2, <1>3 DEF Inv

\* Every step keeps the invariant.
LEMMA NextInv == Inv /\ [Next]_vars => Inv'
<1>1. Inv /\ Ended => Inv'
  BY StutterInv DEF Ended
<1> QED
  BY <1>1, AddSectionInv, FetchInv, OpenSectionInv, PassOverInv, FailSectionInv,
     PanicAtHeadingInv, ReadRowInv, PanicAtRowInv, CloseSectionInv, FinishInv, StutterInv
     DEF Next

-----------------------------------------------------------------------------
(* The theorems *)

\* The invariant holds throughout.
THEOREM RowsInvariance == Spec => []Inv
BY InitInv, NextInv, PTL DEF Spec

\* The reader is at a place the document has, and each set at a row of it.
THEOREM RowsTypeCorrect == Spec => []TypeOK
<1>1. Inv => TypeOK
  BY DEF Inv
<1> QED
  BY <1>1, RowsInvariance, PTL

\* Every set says what its row says.
LEMMA SetsOfInv ==
  ASSUME Inv, NEW x \in sets
  PROVE  /\ SaysTheRow(x.from, ColsOf(x), RowOf(x), x.row)
         /\ Reads(doc[x.section]) /\ IsFirst(x.section) /\ MonthOf(x.section, x.month)
         /\ x.section \in DOMAIN doc /\ doc[x.section] \in AnySection
<1>1. TakenFrom(x) /\ ~Mistyped
  BY DEF Inv, Origins
<1>2. /\ x.section \in DOMAIN doc /\ x.row \in DOMAIN doc[x.section].rows
      /\ Reads(doc[x.section]) /\ IsFirst(x.section) /\ MonthOf(x.section, x.month)
      /\ x.from \in FromRow(ColsOf(x), RowOf(x), x.row)
  BY <1>1 DEF TakenFrom
<1>3. /\ source \in AllSources /\ doc[x.section] \in AnySection
      /\ ColsOf(x) \in Layouts(source) /\ RowOf(x) \in Rows(source, Len(ColsOf(x)))
  BY <1>2, DocumentShape DEF Inv, Documents, ColsOf, RowOf
<1>4. source \in TypedNumbers => RowOf(x)[2] # "bad"
  BY <1>1, <1>2 DEF Mistyped, RowOf
<1>5. source = "LF_list" => LFRateColumn(ColsOf(x)) # 0
  BY <1>2, <1>3, ReadsMeans DEF ColsOf
<1> QED
  BY <1>2, <1>3, <1>4, <1>5, SetsSayTheRow

\* The term, the rate and the date of a set come from the columns that say so.
THEOREM RatesFromTheirColumns == Spec => []RightColumn
<1>1. Inv => RightColumn
  <2> SUFFICES ASSUME Inv, NEW x \in sets
               PROVE  /\ x.from.term # 0 => ColsOf(x)[x.from.term] = "term"
                      /\ x.from.date # 0 => ColsOf(x)[x.from.date] = "date"
                      /\ \/ ColsOf(x)[x.from.rate] = x.from.is
                         \/ source = "Nordnet_list" /\ Len(RowOf(x)) < Len(ColsOf(x))
    BY DEF RightColumn
  <2> QED
    BY SetsOfInv DEF SaysTheRow
<1> QED
  BY <1>1, RowsInvariance, PTL

\* Nothing is stored that the page does not say.
THEOREM NoRateIsInvented == Spec => []NoInventedRate
<1>1. Inv => NoInventedRate
  <2> SUFFICES ASSUME Inv, NEW x \in sets
               PROVE  /\ x.from.term # 0 => Good(RowOf(x), x.from.term)
                      /\ x.from.date # 0 => Good(RowOf(x), x.from.date)
                      /\ \/ Good(RowOf(x), x.from.rate)
                         \/ source \in NumberLists \cup NumberAverages /\ RowOf(x)[x.from.rate] = "absent"
    BY DEF NoInventedRate
  <2> QED
    BY SetsOfInv DEF SaysTheRow
<1> QED
  BY <1>1, RowsInvariance, PTL

\* A set belongs to the month, the product and the table of its own section.
THEOREM RatesOfTheirSection == Spec => []RightSection
<1>1. Inv => RightSection
  <2> SUFFICES ASSUME Inv, NEW x \in sets
      PROVE  /\ source \in Dated => x.month = x.section
             /\ source = "Swedbank_list" =>
                  x.month = IF doc[x.section].heading = "good" THEN x.section ELSE 0
             /\ \/ doc[x.section].heading = "good"
                \/ doc[x.section].heading = "bare" /\ source = "Skandia"
                                                   /\ doc[x.section].kind \in {"item", "question"}
                \/ source = "Swedbank_list"
                \/ source = "Avanza_list" /\ doc[x.section].heading = "absent"
             /\ source \in FirstOnly => \A y \in sets : y.section = x.section
             /\ source = "JAK" /\ x.from.is = "list" => x.row = 1
    BY DEF RightSection
  <2>1. MonthOf(x.section, x.month) /\ Reads(doc[x.section]) /\ doc[x.section] \in AnySection
    BY SetsOfInv
  <2>2. ASSUME source \in FirstOnly, NEW y \in sets PROVE y.section = x.section
    <3>1. /\ Reads(doc[x.section]) /\ IsFirst(x.section) /\ x.section \in DOMAIN doc
          /\ Reads(doc[y.section]) /\ IsFirst(y.section) /\ y.section \in DOMAIN doc
      BY SetsOfInv
    <3>2. DOMAIN doc = 1 .. Len(doc) /\ Len(doc) \in Nat
      BY DocumentShape DEF Inv
    <3>3. ~(x.section < y.section) /\ ~(y.section < x.section)
      BY <2>2, <3>1, <3>2 DEF IsFirst
    <3> QED
      BY <3>1, <3>2, <3>3
  <2>3. source = "JAK" /\ x.from.is = "list" => x.row = 1
    BY SetsOfInv DEF SaysTheRow
  <2>4. source \in AllSources
    BY DEF Inv, Documents
  <2> QED
    BY <2>1, <2>2, <2>3, <2>4, ReadsMeans DEF MonthOf
<1> QED
  BY <1>1, RowsInvariance, PTL

\* What is not understood costs only itself.
THEOREM BadRowsAreAlone == Spec => []BadRowAlone
<1>1. Inv => BadRowAlone
  <2> SUFFICES ASSUME Inv PROVE BadRowAlone
    OBVIOUS
  <2>1. ASSUME outcome \in {"done", "failed"}, ~Mistyped, NEW i \in DOMAIN doc, Wanted(i),
               NEW j \in DOMAIN doc[i].rows, Whole(i, j)
        PROVE  \E x \in sets : x.section = i /\ x.row = j
    <3>1. doc[i].rows # <<>>
      BY <2>1
    <3>2. Len(doc) \in Nat /\ at \in Nat /\ i \in 1 .. Len(doc)
      BY DocumentShape DEF Inv, TypeOK
    <3>3. at > Len(doc)
      BY <2>1, <3>1, <3>2 DEF Inv, Completeness
    <3>4. Passed(i, j)
      BY <3>2, <3>3 DEF Passed
    <3> QED
      BY <2>1, <3>3, <3>4 DEF Inv, Completeness
  <2> QED
    BY <2>1 DEF BadRowAlone, Inv, Panics
<1> QED
  BY <1>1, RowsInvariance, PTL
=============================================================================

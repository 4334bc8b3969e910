------------------------------ MODULE RateRows ------------------------------
(***************************************************************************)
(* The lists of rates in which one row is one rate: a row of an HTML table *)
(* or of a table in a CMS document, or an object of a JSON document, with  *)
(* the cells, or fields, of a term, a rate and a date; the extract...,     *)
(* parse... and fetch... functions of internal/app/crawler/<bank>.         *)
(* (AverageTables is about the tables with a column for each term.)        *)
(*                                                                         *)
(* A document is a sequence of sections: the tables or blocks of a page,   *)
(* or the periods of an answer.  A section has a heading, with the month   *)
(* of its rates where the bank writes one, and rows.  The content of a     *)
(* cell is only what its parser makes of it:                               *)
(*   "good"     it is understood,                                          *)
(*   "bad"      it is not,                                                 *)
(*   "absent"   the field is missing or null, or the column has ended,     *)
(*   "past"     (Hypoteket) it refers past the end of the payload,         *)
(*   "banklan"  (Swedbank) the name of a product that is no mortgage.      *)
(***************************************************************************)
EXTENDS Naturals, Sequences, FiniteSets, SequencesExt

CONSTANTS
  Sources,        \* the lists read
  MaxSections,    \* bound on the sections of a document
  MaxRows         \* bound on all its rows

\* JSON documents.  Of these a number that is missing decodes to 0 ...
NumberLists == {"Handelsbanken_list", "SEB_list", "Avanza_list"}
NumberAverages == {"Handelsbanken", "SEB"}
\* ... and one of another type makes json.Unmarshal refuse the whole document.
TypedNumbers == NumberLists \cup NumberAverages \cup {"SBAB"}
JSONSources == NumberLists \cup NumberAverages
                 \cup {"SBAB_list", "SBAB", "Ikano_list", "Hypoteket_list", "Hypoteket"}

SkandiaPages == {"Skandia_list", "Skandia"}

TableSources ==
  {"Nordea_list", "ICA_list", "ICA", "Alandsbanken_list", "Alandsbanken", "Danske_list",
   "Swedbank_list", "LF_list", "Landshypotek_discount", "Landshypotek_list",
   "Landshypotek_latest", "Nordnet_list", "Bluestep_list", "JAK", "Svea", "Stabelo_tier"}

AllSources == JSONSources \cup SkandiaPages \cup TableSources

ASSUME SourcesKnown == Sources \subseteq AllSources
ASSUME BoundsNat == MaxSections \in Nat /\ MaxRows \in Nat

\* The month of an average is in the heading of its section.
Dated == NumberAverages \cup {"SBAB", "Hypoteket", "ICA", "Landshypotek_latest", "Skandia"}

VARIABLES
  source,     \* which crawler, and which of its extractions
  doc,        \* the document: a sequence of sections
  at,         \* the section that is read
  row,        \* its next row; 0 before the section is opened
  month,      \* avgMonth: the section whose heading it was read from, or 0
  sets,       \* interestSets
  outcome     \* "unread", "reading", "done", "failed" (an error is returned) or "panic"

vars == <<source, doc, at, row, month, sets, outcome>>

-----------------------------------------------------------------------------
(* Documents *)

\* What is below each other in the columns of a table, left to right: "list" and
\* "average" are rates of these kinds, "tier" one with a discount.
Layouts(s) ==
  CASE s = "Nordea_list" -> {<<"term", "list", "change", "date">>}
    [] s \in {"ICA_list", "SEB_list", "SBAB_list", "Hypoteket_list"} ->
         {<<"term", "list", "date">>}
    [] s \in {"Handelsbanken_list", "Avanza_list", "Ikano_list", "Swedbank_list",
              "Bluestep_list"} -> {<<"term", "list">>}
    [] s \in {"Handelsbanken", "SEB", "SBAB", "Hypoteket", "ICA"} -> {<<"term", "average">>}
    [] s = "Alandsbanken_list" -> {<<"term", "list", "date", "change">>}
    [] s = "Alandsbanken" -> {<<"term", "average", "date">>}
    [] s = "Danske_list" -> {<<"term", "date", "change", "list">>}
    [] s = "LF_list" -> {<<"term", "list", "change", "date">>, <<"term", "date", "list", "change">>,
                         <<"term", "list", "change">>, <<"term", "change", "date">>}
    [] s = "Stabelo_tier" -> {<<"term", "tier">>}
    [] s = "Landshypotek_discount" -> {<<"term", "tier", "effective">>}
    [] s = "Landshypotek_list" -> {<<"term", "list", "effective", "date">>}
    [] s = "Landshypotek_latest" -> {<<"term", "average", "effective">>}
    [] s = "Nordnet_list" -> {<<"term", "tier", "tier", "list">>,
                              <<"term", "tier", "tier", "tier", "list">>}
    [] s = "JAK" -> {<<"date", "list", "average", "savings">>}
    [] s = "Svea" -> {<<"date", "average">>}
    [] s = "Skandia_list" -> {<<"term", "list", "date">>, <<"list", "effective", "term">>, <<"term">>}
    [] s = "Skandia" -> {<<"average", "effective", "term">>, <<"term", "average">>, <<"term", "list">>}

\* At most one cell of a row is not as it should be.
OneOdd(n, odd) ==
  {r \in [1 .. n -> {"good"} \cup odd] : Cardinality({i \in 1 .. n : r[i] # "good"}) <= 1}

\* The terms are names of fields or places of columns, in the order of the code.
TermByPlace == {"SBAB", "Hypoteket", "ICA"}

\* Rows of a table may be short.  Skandia's columns end one by one.
Rows(s, columns) ==
  CASE s \in TermByPlace -> {<<"good", cell>> : cell \in {"good", "bad", "absent"}
                                              \cup (IF s = "Hypoteket" THEN {"past"} ELSE {})}
    [] s = "Hypoteket_list" -> OneOdd(columns, {"bad", "absent", "past"})
    [] s \in (JSONSources \cup SkandiaPages) \ {"Hypoteket_list", "Hypoteket", "SBAB"} ->
         OneOdd(columns, {"bad", "absent"})
    [] OTHER -> (UNION {OneOdd(n, {"bad"}) : n \in 1 .. columns})
                  \cup (IF s = "Swedbank_list" THEN {<<"banklan", "good">>} ELSE {})

\* What a heading says: "good", the month or product the crawler looks for (of
\* Skandia "Snitträntor november 2025" or "Listräntor"); "bare", a month alone;
\* "bad", something else, or there is no such table; "absent", nothing.
\* Avanza's is the discount of the row: "good" is none, "bad" is some.
Headings(s) ==
  CASE s \in SkandiaPages -> {"good", "bare", "bad", "absent"}
    [] s = "Avanza_list" -> {"good", "bad", "absent"}
    [] s \in {"Hypoteket_list", "Hypoteket"} -> {"good", "bad", "past"}
    [] s \in {"Handelsbanken_list", "SEB_list", "SBAB_list"} -> {"good"}
    [] OTHER -> {"good", "bad"}

\* Where a table is on Skandia's pages: a block, an item of an accordion, a table
\* below a question of an FAQ; and what is no table or has no content.
Kinds(s) == IF s \in SkandiaPages THEN {"block", "item", "question", "other"} ELSE {"block"}

\* These read the first section they look for and no more.
FirstOnly == {"Avanza_list", "Nordnet_list"}

\* These pass over a section they do not understand; the others fail.
PassesOver == (Dated \ {"Landshypotek_latest"}) \cup SkandiaPages \cup FirstOnly \cup {"JAK"}

SectionBound(s) == IF s \in PassesOver THEN MaxSections ELSE 1

Sections(s, rows) ==
  UNION {[kind : Kinds(s), heading : Headings(s), cols : {cols},
          rows : {r \in UNION {[1 .. n -> Rows(s, Len(cols))] : n \in 0 .. rows} :
                    s \in SkandiaPages => \A j \in 1 .. Len(r) - 1 : "absent" \notin Range(r[j])}]
         : cols \in Layouts(s)}

RowsIn(d) == FoldLeft(LAMBDA n, section : n + Len(section.rows), 0, d)

-----------------------------------------------------------------------------
(* One row: the columns that a set is taken from, or none *)

Good(r, i) == i \in DOMAIN r /\ r[i] = "good"
AllGood(r, columns) == \A i \in columns : Good(r, i)

\* A set of the row: its kind of rate, and the columns of term, rate and date;
\* 0 is no date, or a term that the place of the field tells.
Kept(is, term, rate, date) == {[is |-> is, term |-> term, rate |-> rate, date |-> date]}
KeptIf(condition, kept) == IF condition THEN kept ELSE {}

\* A date that does not parse is left out, and the row kept.
DateOf(r, i) == IF Good(r, i) THEN i ELSE 0

\* The last column with the label; 0 if there is none.
LastColumn(cols, label) ==
  LET found == {i \in DOMAIN cols : cols[i] = label}
  IN  IF found = {} THEN 0 ELSE CHOOSE i \in found : \A j \in found : j <= i

NordeaList(r) == KeptIf(Len(r) >= 4 /\ AllGood(r, {1, 2, 4}), Kept("list", 1, 2, 4))
ICAList(r) == KeptIf(Len(r) >= 3 /\ AllGood(r, {1, 2, 3}), Kept("list", 1, 2, 3))
ICAAverage(r) == KeptIf(Good(r, 2), Kept("average", 1, 2, 0))
AlandsbankenList(r) == KeptIf(Len(r) >= 3 /\ AllGood(r, {1, 2}), Kept("list", 1, 2, DateOf(r, 3)))
AlandsbankenAverage(r) == KeptIf(Len(r) >= 3 /\ AllGood(r, {1, 2, 3}), Kept("average", 1, 2, 3))
DanskeList(r) == KeptIf(AllGood(r, {1, 2, 4}), Kept("list", 1, 4, 2))

\* A row of a product called "banklån" is passed over, whatever its term.
SwedbankList(r) == KeptIf(Len(r) >= 2 /\ r[1] # "banklan" /\ AllGood(r, {1, 2}), Kept("list", 1, 2, 0))

\* Faulty variant: headings with "ändring" are not left out.
LFRateColumnAny(cols) ==
  LET change == LastColumn(cols, "change")
      rate == LastColumn(cols, "list")
  IN  IF change > rate THEN change ELSE rate

\* findListRateColumns and parseListRateRow.
LFRateColumn(cols) == LastColumn(cols, "list")
LFList(cols, r) ==
  LET rate == LFRateColumn(cols)
  IN  KeptIf(Len(r) >= rate /\ AllGood(r, {1, rate}),
             Kept("list", 1, rate, DateOf(r, LastColumn(cols, "date"))))

LandshypotekDiscount(r) == KeptIf(Len(r) >= 2 /\ AllGood(r, {1, 2}), Kept("tier", 1, 2, 0))
LandshypotekList(r) == KeptIf(Len(r) >= 2 /\ AllGood(r, {1, 2}), Kept("list", 1, 2, DateOf(r, 4)))
LandshypotekLatest(r) == KeptIf(Len(r) >= 2 /\ AllGood(r, {1, 2}), Kept("average", 1, 2, 0))

\* "the last column (highest LTV tier: 80-85%)".
NordnetList(r) == KeptIf(Len(r) >= 4 /\ AllGood(r, {1, Len(r)}), Kept("list", 1, Len(r), 0))

\* The table lies on its side: its columns are the rows here.
BluestepList(r) == KeptIf(AllGood(r, {1, 2}), Kept("list", 1, 2, 0))

\* The list rate of the first month only, and the average of each.
JAKRates(r, i) ==
  IF Len(r) < 3 \/ ~Good(r, 1) THEN {}
  ELSE KeptIf(i = 1 /\ Good(r, 2), Kept("list", 0, 2, 0))
         \cup KeptIf(Good(r, 3), Kept("average", 0, 3, 1))

SveaAverage(r) == KeptIf(Len(r) >= 2 /\ AllGood(r, {1, 2}), Kept("average", 0, 2, 1))

\* A button of the page has its term as a value and its rate in a span; without a
\* term that Stabelo has it is another button.
IsRateButton(r) == Good(r, 1)
SpanWithRate(r) == Good(r, 2)
StabeloTier(r) == KeptIf(IsRateButton(r) /\ SpanWithRate(r), Kept("tier", 1, 2, 0))

\* The columns are found by their headings, a later one of the same kind wins.
SkandiaTable(is, cols, r) ==
  LET term == LastColumn(cols, "term")
      rate == LastColumn(cols, is)
      date == IF is = "list" THEN DateOf(r, LastColumn(cols, "date")) ELSE 0
  IN  KeptIf(AllGood(r, {term, rate}), Kept(is, term, rate, date))

\* Fields that Unmarshal has filled: a number needs no further parsing.
NumberField(is, r) == KeptIf(Good(r, 1), Kept(is, 1, 2, 0))
SEBList(r) == KeptIf(AllGood(r, {1, 3}), Kept("list", 1, 2, 3))
SBABList(r) == KeptIf(AllGood(r, {1, 2}), Kept("list", 1, 2, DateOf(r, 3)))
IkanoList(r) == KeptIf(AllGood(r, {1, 2}), Kept("list", 1, 2, 0))

\* Faulty variant: the pointer is not compared with nil.
SBABAverageOfNull(r) == Kept("average", 1, 2, 0)

\* Eight pointers, nil when the answer has null.
SBABAverage(r) == KeptIf(Good(r, 2), Kept("average", 1, 2, 0))

\* extractListRateEntry: each field is the index of its value.
HypoteketList(r) == KeptIf(AllGood(r, {1, 2}), Kept("list", 1, 2, DateOf(r, 3)))
HypoteketAverage(r) == KeptIf(Good(r, 2), Kept("average", 1, 2, 0))

FromRow(cols, r, i) ==
  CASE source = "Nordea_list" -> NordeaList(r)
    [] source = "ICA_list" -> ICAList(r)
    [] source = "ICA" -> ICAAverage(r)
    [] source = "Alandsbanken_list" -> AlandsbankenList(r)
    [] source = "Alandsbanken" -> AlandsbankenAverage(r)
    [] source = "Danske_list" -> DanskeList(r)
    [] source = "Swedbank_list" -> SwedbankList(r)
    [] source = "LF_list" -> LFList(cols, r)
    [] source = "Landshypotek_discount" -> LandshypotekDiscount(r)
    [] source = "Landshypotek_list" -> LandshypotekList(r)
    [] source = "Landshypotek_latest" -> LandshypotekLatest(r)
    [] source = "Nordnet_list" -> NordnetList(r)
    [] source = "Bluestep_list" -> BluestepList(r)
    [] source = "JAK" -> JAKRates(r, i)
    [] source = "Svea" -> SveaAverage(r)
    [] source = "Stabelo_tier" -> StabeloTier(r)
    [] source = "Skandia_list" -> SkandiaTable("list", cols, r)
    [] source = "Skandia" -> SkandiaTable("average", cols, r)
    [] source \in {"Handelsbanken_list", "Avanza_list"} -> NumberField("list", r)
    [] source \in NumberAverages -> NumberField("average", r)
    [] source = "SEB_list" -> SEBList(r)
    [] source = "SBAB_list" -> SBABList(r)
    [] source = "SBAB" -> SBABAverage(r)
    [] source = "Ikano_list" -> IkanoList(r)
    [] source = "Hypoteket_list" -> HypoteketList(r)
    [] source = "Hypoteket" -> HypoteketAverage(r)

\* An index past the end of the row or of the payload.
RowPanics(r) ==
  CASE source = "Danske_list" -> Good(r, 1) /\ (Len(r) < 2 \/ (Good(r, 2) /\ Len(r) < 4))
    [] source = "Hypoteket_list" ->
         \/ r[1] = "past"
         \/ r[1] # "absent" /\ r[2] = "past"
         \/ AllGood(r, {1, 2}) /\ r[3] = "past"
    [] source = "Hypoteket" -> r[2] = "past"
    [] OTHER -> FALSE

-----------------------------------------------------------------------------
(* One section *)

SkandiaFinds(sec, is) ==
  /\ Len(sec.cols) >= 2 /\ LastColumn(sec.cols, "term") # 0 /\ LastColumn(sec.cols, is) # 0
  /\ sec.rows # <<>>

\* Whether the loop goes into the section.
Reads(sec) ==
  CASE source = "Skandia_list" ->
         sec.kind = "block" /\ sec.heading = "good" /\ SkandiaFinds(sec, "list")
    [] source = "Skandia" ->
         /\ sec.kind # "other"
         /\ sec.heading \in (IF sec.kind = "block" THEN {"good"} ELSE {"good", "bare"})
         /\ SkandiaFinds(sec, "average")
    [] source = "Avanza_list" -> sec.heading \in {"good", "absent"}     \* 0 and 0, or nothing
    [] source = "Swedbank_list" -> TRUE
    [] source = "LF_list" -> sec.heading = "good" /\ LFRateColumn(sec.cols) # 0
    [] OTHER -> sec.heading = "good"

\* What fails although it was found: Nordnet's table without a row of rates, and
\* Bluestep's without a second row.
TooShort(sec) == source \in {"Nordnet_list", "Bluestep_list"} /\ sec.rows = <<>>

-----------------------------------------------------------------------------
(* The page is written, fetched and read, section by section, row by row *)

Init ==
  /\ source \in Sources
  /\ doc = <<>>
  /\ at = 1 /\ row = 0 /\ month = 0
  /\ sets = {}
  /\ outcome = "unread"

\* The bank puts another section on its page.
AddSection ==
  /\ outcome = "unread" /\ Len(doc) < SectionBound(source)
  /\ \E sec \in Sections(source, MaxRows - RowsIn(doc)) : doc' = Append(doc, sec)
  /\ UNCHANGED <<source, at, row, month, sets, outcome>>

\* A number of another type.
Mistyped == source \in TypedNumbers /\ \E i \in DOMAIN doc : \E j \in DOMAIN doc[i].rows :
                                          doc[i].rows[j][2] = "bad"

\* The page is there; a JSON document of structs is decoded as a whole.
Fetch ==
  /\ outcome = "unread" /\ doc # <<>>
  /\ outcome' = IF Mistyped THEN "failed" ELSE "reading"
  /\ UNCHANGED <<source, doc, at, row, month, sets>>

AtSection == outcome = "reading" /\ row = 0 /\ at <= Len(doc)

\* An error ends the extraction and what it had read is dropped.
GiveUp(how) == outcome' = how /\ sets' = {} /\ UNCHANGED <<source, doc, at, row, month>>

\* Faulty variant: no continue after a month that does not parse.
OpenUnchecked ==
  /\ AtSection /\ doc[at].heading # "past"
  /\ row' = 1
  /\ month' = IF Reads(doc[at]) THEN at ELSE month
  /\ UNCHANGED <<source, doc, at, sets, outcome>>

\* Swedbank's heading has the date of the change, and may do without.
OpenSection ==
  /\ AtSection /\ Reads(doc[at]) /\ ~TooShort(doc[at])
  /\ row' = 1
  /\ month' = IF source \in Dated \/ (source = "Swedbank_list" /\ doc[at].heading = "good")
              THEN at ELSE month
  /\ UNCHANGED <<source, doc, at, sets, outcome>>

PassOver ==
  /\ AtSection /\ ~Reads(doc[at]) /\ doc[at].heading # "past"
  /\ source \in PassesOver
  /\ at' = at + 1
  /\ UNCHANGED <<source, doc, row, month, sets, outcome>>

FailSection ==
  /\ AtSection
  /\ \/ Reads(doc[at]) /\ TooShort(doc[at])
     \/ ~Reads(doc[at]) /\ doc[at].heading # "past" /\ source \notin PassesOver
  /\ GiveUp("failed")

PanicAtHeading ==
  /\ AtSection /\ doc[at].heading = "past"
  /\ GiveUp("panic")

AtRow == outcome = "reading" /\ row > 0 /\ row <= Len(doc[at].rows)

\* Faulty variant: break instead of continue.
ReadRowOrStop ==
  /\ AtRow /\ ~RowPanics(doc[at].rows[row])
  /\ LET kept == FromRow(doc[at].cols, doc[at].rows[row], row)
     IN  /\ sets' = sets \cup {[section |-> at, row |-> row, month |-> month, from |-> k] : k \in kept}
         /\ row' = IF kept = {} THEN Len(doc[at].rows) + 1 ELSE row + 1
  /\ UNCHANGED <<source, doc, at, month, outcome>>

ReadRow ==
  /\ AtRow /\ ~RowPanics(doc[at].rows[row])
  /\ sets' = sets \cup {[section |-> at, row |-> row, month |-> month, from |-> k]
                        : k \in FromRow(doc[at].cols, doc[at].rows[row], row)}
  /\ row' = row + 1
  /\ UNCHANGED <<source, doc, at, month, outcome>>

PanicAtRow ==
  /\ AtRow /\ RowPanics(doc[at].rows[row])
  /\ GiveUp("panic")

AtEndOfSection == outcome = "reading" /\ at <= Len(doc) /\ row = Len(doc[at].rows) + 1

\* Faulty variant: the index of the rows goes on.
CloseSectionOnly ==
  /\ AtEndOfSection
  /\ at' = IF source \in FirstOnly THEN Len(doc) + 1 ELSE at + 1
  /\ UNCHANGED <<source, doc, row, month, sets, outcome>>

CloseSection ==
  /\ AtEndOfSection
  /\ at' = IF source \in FirstOnly THEN Len(doc) + 1 ELSE at + 1
  /\ row' = 0
  /\ UNCHANGED <<source, doc, month, sets, outcome>>

\* No rates on the page: an error for these.
NothingIsAnError == {"Skandia_list", "JAK", "Svea", "Stabelo_tier"}
NothingFound ==
  \/ source \in NothingIsAnError /\ sets = {}
  \/ source = "Nordnet_list" /\ \A i \in DOMAIN doc : ~Reads(doc[i])

Finish ==
  /\ outcome = "reading" /\ at > Len(doc) /\ row = 0
  /\ outcome' = IF NothingFound THEN "failed" ELSE "done"
  /\ UNCHANGED <<source, doc, at, row, month, sets>>

Ended == outcome \in {"done", "failed", "panic"} /\ UNCHANGED vars

Next ==
  \/ AddSection \/ Fetch
  \/ OpenSection \/ PassOver \/ FailSection \/ PanicAtHeading
  \/ ReadRow \/ PanicAtRow \/ CloseSection
  \/ Finish \/ Ended

Spec == Init /\ [][Next]_vars

-----------------------------------------------------------------------------
(* Properties *)

\* Type invariant; the place in the document exists.
TypeOK ==
  /\ source \in Sources
  /\ outcome \in {"unread", "reading", "done", "failed", "panic"}
  /\ at \in 1 .. Len(doc) + 1
  /\ row \in 0 .. (IF at <= Len(doc) THEN Len(doc[at].rows) + 1 ELSE 0)
  /\ month \in 0 .. Len(doc)
  /\ \A x \in sets : x.section \in DOMAIN doc /\ x.row \in DOMAIN doc[x.section].rows

ColsOf(x) == doc[x.section].cols
RowOf(x) == doc[x.section].rows[x.row]

\* A set's term, rate and date are from the columns that say so, however the
\* columns are ordered where the crawler goes by their headings: no effective
\* rate, no change and no discounted tier is stored as the rate.  The exception:
\* a row of Nordnet that ends early, of which the last tier it has is taken.
RightColumn ==
  \A x \in sets :
    LET from == x.from
    IN  /\ from.term # 0 => ColsOf(x)[from.term] = "term"
        /\ from.date # 0 => ColsOf(x)[from.date] = "date"
        /\ \/ ColsOf(x)[from.rate] = from.is
           \/ source = "Nordnet_list" /\ Len(RowOf(x)) < Len(ColsOf(x))

\* Nothing is stored that the page does not say: a set's cells were there and
\* understood.  The exception: a number missing from some JSON documents, which
\* is stored as a rate of 0.
NoInventedRate ==
  \A x \in sets :
    LET from == x.from
    IN  /\ from.term # 0 => Good(RowOf(x), from.term)
        /\ from.date # 0 => Good(RowOf(x), from.date)
        /\ \/ Good(RowOf(x), from.rate)
           \/ source \in NumberLists \cup NumberAverages /\ RowOf(x)[from.rate] = "absent"

\* A set belongs to what its section says: an average to the month of its own
\* heading, a list rate to the product the crawler looks for, one table of them
\* where a page has several, and of JAK to the current month.  The exception: a
\* row of Avanza that does not say to which discount it belongs.
RightSection ==
  \A x \in sets :
    LET sec == doc[x.section]
    IN  /\ source \in Dated => x.month = x.section
        /\ source = "Swedbank_list" => x.month = IF sec.heading = "good" THEN x.section ELSE 0
        /\ \/ sec.heading = "good"
           \/ sec.heading = "bare" /\ source = "Skandia" /\ sec.kind \in {"item", "question"}
           \/ source = "Swedbank_list"
           \/ source = "Avanza_list" /\ sec.heading = "absent"
        /\ source \in FirstOnly => \A y \in sets : y.section = x.section
        /\ source = "JAK" /\ x.from.is = "list" => x.row = 1

\* The sections with the rates that a crawler is for: on Skandia's pages the table
\* of list rates, and the averages of each month wherever they are; of Avanza and
\* Nordnet the first.
Wanted(i) ==
  LET sec == doc[i]
      Right(s) == s.heading = "good" \/ (source = "Avanza_list" /\ s.heading = "absent")
  IN  /\ \/ Right(sec)
         \/ source = "Swedbank_list"
         \/ source = "Skandia" /\ sec.heading = "bare" /\ sec.kind \in {"item", "question"}
      /\ source \in SkandiaPages =>
           /\ sec.kind \in (IF source = "Skandia" THEN {"block", "item", "question"} ELSE {"block"})
           /\ {"term", IF source = "Skandia" THEN "average" ELSE "list"} \subseteq Range(sec.cols)
      /\ source = "LF_list" => "list" \in Range(sec.cols)
      /\ source \in FirstOnly => \A j \in 1 .. i - 1 : ~Right(doc[j])

Whole(i, j) == Len(doc[i].rows[j]) = Len(doc[i].cols) /\ AllGood(doc[i].rows[j], DOMAIN doc[i].cols)

\* What is not understood costs only itself: every whole row of the sections the
\* crawler is for is stored, whatever the other rows and sections are.  The
\* exceptions: the panics of Danske and Hypoteket, and a number of another type,
\* with which a JSON document is refused.
BadRowAlone ==
  /\ outcome = "panic" =>
       \E i \in DOMAIN doc :
         \/ doc[i].heading = "past"
         \/ \E r \in Range(doc[i].rows) : "past" \in Range(r) \/ (source = "Danske_list" /\ Len(r) < 4)
  /\ outcome \in {"done", "failed"} /\ ~Mistyped =>
       \A i \in DOMAIN doc : Wanted(i) =>
         \A j \in DOMAIN doc[i].rows : Whole(i, j) => \E x \in sets : x.section = i /\ x.row = j
=============================================================================

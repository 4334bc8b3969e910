--------------------------- MODULE AverageTables ---------------------------
(***************************************************************************)
(* Reading a table of average rates: a row for each month, a column for    *)
(* each term.  Ten crawlers do it, in four ways:                           *)
(*   "column"    a map from column number to term, made from the header:   *)
(*               Ikano, Bluestep, Danske, Swedbank, Nordea, Nordax;        *)
(*   "compact"   a list of the header's terms, and the n-th cell belongs   *)
(*               to the n-th term: Marginalen, Landshypotek;               *)
(*   "text"      a list of the terms in the text of a PDF, and the n-th    *)
(*               number belongs to the n-th term: Stabelo, LF.             *)
(* Danske moreover puts together rows that the page splits.                *)
(*                                                                         *)
(* The cells with the month are the key of a row; columns count from the   *)
(* first cell after it.  A rate is a cell, with the row and the column     *)
(* where it was written, so that it can be told under which heading.       *)
(***************************************************************************)
EXTENDS Naturals, SequencesExt

CONSTANTS
  Readers,      \* the banks
  Periods,      \* headings of term columns: [n |-> 3, unit |-> "months"]
  Columns,      \* number of columns
  MaxRows       \* bound on the rows

Align ==
  [Ikano |-> "column", Bluestep |-> "column", Danske |-> "column", Swedbank |-> "column",
   Nordea |-> "column", Nordax |-> "column", Marginalen |-> "compact",
   Landshypotek |-> "compact", Stabelo |-> "text", LF |-> "text"]

ASSUME ReadersKnown == Readers \subseteq DOMAIN Align
ASSUME PeriodsKnown == Periods \subseteq [n : Nat, unit : {"months", "years"}]
ASSUME SizesNat == Columns \in Nat /\ MaxRows \in Nat

VARIABLES
  bank,
  heading,    \* the headings of the columns, periods or Other
  table,      \* the rows: [key, cells]
  mode,       \* "writing", then "reading", then "done", "failed" or "panicked"
  at,         \* the row that is read
  sets        \* interestSets: [month, term, cell], the month being its row

vars == <<bank, heading, table, mode, at, sets>>

Other == [n |-> 0, unit |-> "none"]     \* "Banklån", "Tot", an empty heading
Months(h) == IF h.unit = "years" THEN 12 * h.n ELSE h.n

-----------------------------------------------------------------------------
(* The headings *)

NoTerm == 0        \* an error; a term is its number of months

\* Faulty variant: "10år" is matched by its last digit too.
ParseTermLastDigit(h) ==
  LET digit == h.n % 10
  IN  IF h.unit = "months" /\ digit \in {3, 6} THEN digit
      ELSE IF h.unit = "years" THEN 12 * (IF digit = 0 THEN 1 ELSE digit)
      ELSE NoTerm

\* utils.ParseTerm looks for "3mån", "1år", ... anywhere in the heading, so that
\* the last digits of a number decide.
ParseTerm(h) ==
  LET digit == h.n % 10
  IN  IF h.unit = "months" /\ digit \in {3, 6} THEN digit
      ELSE IF h.unit = "years" /\ digit # 0 THEN 12 * digit
      ELSE IF h.unit = "years" /\ h.n % 100 = 10 THEN 120
      ELSE NoTerm

\* parseNordaxTerm knows three periods, all in months.
ParseNordaxTerm(h) == IF h.unit = "months" /\ h.n \in {3, 36, 60} THEN h.n ELSE NoTerm

Term(h) == IF bank = "Nordax" THEN ParseNordaxTerm(h) ELSE ParseTerm(h)
IsTerm(h) == Term(h) # NoTerm

\* The elements before the first one that fails the test.
UpToFirst(seq, Fails(_)) ==
  LET i == SelectInSeq(seq, Fails) IN IF i = 0 THEN seq ELSE SubSeq(seq, 1, i - 1)

\* The elements that pass the test.
Selected(seq, Test(_)) ==
  FlattenSeq([i \in DOMAIN seq |-> IF Test(seq[i]) THEN <<seq[i]>> ELSE <<>>])

\* Stabelo's header ends where something else than a period follows.
Header == IF bank = "Stabelo" THEN UpToFirst(heading, LAMBDA h : h = Other) ELSE heading

\* The terms of the header, without the columns that are something else.
Terms == LET known == Selected(Header, IsTerm) IN [i \in DOMAIN known |-> Term(known[i])]

-----------------------------------------------------------------------------
(* The rows *)

IsRate(c) == c.kind = "rate"
Set(m, term, c) == [month |-> m, term |-> term, cell |-> c]

\* for colIdx, term := range termMap: a cell that is no rate is skipped.
ByColumn(m, cells) ==
  {Set(m, Term(heading[j]), cells[j]) :
     j \in {j \in DOMAIN cells \cap DOMAIN heading : IsTerm(heading[j]) /\ IsRate(cells[j])}}

\* The n-th cell and the n-th term.
ByPosition(m, cells) ==
  {Set(m, Terms[i], cells[i]) : i \in {i \in DOMAIN cells \cap DOMAIN Terms : IsRate(cells[i])}}

\* collectLFPDFRates: the numbers up to the next date, wherever they stand.
Rates(cells) == Selected(cells, IsRate)

Ends(i) == {j \in i + 1 .. Len(table) : table[j].key = "month"} \cup {Len(table) + 1}
CellsUpTo(i) ==
  LET end == CHOOSE e \in Ends(i) : \A e2 \in Ends(i) : e <= e2
  IN  FlattenSeq([j \in 1 .. end - i |-> table[i + j - 1].cells])

\* findAllRateData: a month's numbers end with the next month or the text; a row
\* that other words follow is not matched.
Matched(i) == i = Len(table) \/ table[i + 1].key # "note"

SetsOfText(i) ==
  IF bank = "LF" THEN ByPosition(i, Rates(CellsUpTo(i)))
  ELSE IF Matched(i) THEN ByPosition(i, Rates(table[i].cells)) ELSE {}

\* sanitizeAvgRows: append(row, table.Rows[i+1]...), whatever the next row is.
Joined(next) == IF next.key = "none" THEN next.cells ELSE <<[kind |-> "gap", row |-> 0, col |-> 0]>> \o next.cells

-----------------------------------------------------------------------------
(* The author *)

\* Only Nordax's page counts years in months.
PeriodsOf(b) == {h \in Periods : IF b = "Nordax" THEN h.unit = "months" ELSE h.unit = "months" => h.n < 12}

Init ==
  /\ bank \in Readers
  /\ heading \in [1 .. Columns -> PeriodsOf(bank) \cup {Other}]
  /\ \A i, j \in 1 .. Columns : heading[i] = heading[j] => i = j \/ heading[i] = Other
  /\ table = <<>>
  /\ mode = "writing"
  /\ at = 1
  /\ sets = {}

\* A row begins with a month, or with words (a note).  On Danske's page the rates
\* of a month may stand in a row of their own, below it.
Keys == {"month", "note"} \cup
        (IF bank = "Danske" /\ table # <<>> /\ Last(table).key = "month" /\ Last(table).cells = <<>>
         THEN {"none"} ELSE {})

\* Cells at the end may be missing.
WriteRow ==
  /\ mode = "writing" /\ Len(table) < MaxRows
  /\ \E key \in Keys, n \in 0 .. Columns : \E kinds \in [1 .. n -> {"rate", "gap"}] :
       /\ key = "none" => n > 0
       /\ table' = Append(table,
            [key |-> key,
             cells |-> [j \in 1 .. n |-> [kind |-> kinds[j], row |-> Len(table) + 1, col |-> j]]])
  /\ UNCHANGED <<bank, heading, mode, at, sets>>

-----------------------------------------------------------------------------
(* The crawler *)

\* Bluestep and Danske go on without a term.
ReadHeader ==
  /\ mode = "writing"
  /\ mode' = IF Terms = <<>> /\ bank \notin {"Bluestep", "Danske"} THEN "failed" ELSE "reading"
  /\ UNCHANGED <<bank, heading, table, at, sets>>

Reading == mode = "reading" /\ at <= Len(table)

\* Danske: a row with its month alone.
LoneMonth == bank = "Danske" /\ table[at].key = "month" /\ table[at].cells = <<>>

\* Faulty variant: the first cell that is no rate ends the row.
ReadRowToGap ==
  /\ Reading /\ table[at].key = "month" /\ ~LoneMonth
  /\ LET row == UpToFirst(table[at].cells, LAMBDA c : ~IsRate(c))
     IN  sets' = sets \cup CASE Align[bank] = "column" -> ByColumn(at, row)
                             [] Align[bank] = "compact" -> ByPosition(at, row)
                             [] Align[bank] = "text" -> SetsOfText(at)
  /\ at' = at + 1
  /\ UNCHANGED <<bank, heading, table, mode>>

ReadRow ==
  /\ Reading /\ table[at].key = "month" /\ ~LoneMonth
  /\ sets' = sets \cup CASE Align[bank] = "column" -> ByColumn(at, table[at].cells)
                         [] Align[bank] = "compact" -> ByPosition(at, table[at].cells)
                         [] Align[bank] = "text" -> SetsOfText(at)
  /\ at' = at + 1
  /\ UNCHANGED <<bank, heading, table, mode>>

\* The month does not parse.
SkipRow ==
  /\ Reading /\ table[at].key # "month"
  /\ at' = at + 1
  /\ UNCHANGED <<bank, heading, table, mode, sets>>

\* Faulty variant: two rows are passed over, not one.
ReadSplitRowTwice ==
  /\ Reading /\ LoneMonth /\ at < Len(table)
  /\ sets' = sets \cup ByColumn(at, Joined(table[at + 1]))
  /\ at' = at + 3
  /\ UNCHANGED <<bank, heading, table, mode>>

\* sanitizeAvgRows: the next row is joined, and cleared.
ReadSplitRow ==
  /\ Reading /\ LoneMonth /\ at < Len(table)
  /\ sets' = sets \cup ByColumn(at, Joined(table[at + 1]))
  /\ at' = at + 2
  /\ UNCHANGED <<bank, heading, table, mode>>

\* There is no next row: the index is out of range.
SplitRowPanics ==
  /\ Reading /\ LoneMonth /\ at = Len(table)
  /\ mode' = "panicked"
  /\ UNCHANGED <<bank, heading, table, at, sets>>

\* Marginalen and LF take it for a failure when there is no rate at all, Stabelo
\* when there is no month with one.
NothingFound ==
  CASE bank \in {"Marginalen", "LF"} -> sets = {}
    [] bank = "Stabelo" -> \A i \in DOMAIN table :
                             table[i].key = "month" /\ Matched(i) => Rates(table[i].cells) = <<>>
    [] OTHER -> FALSE

Finish ==
  /\ mode = "reading" /\ at > Len(table)
  /\ mode' = IF NothingFound THEN "failed" ELSE "done"
  /\ UNCHANGED <<bank, heading, table, at, sets>>

Returned == mode \in {"done", "failed", "panicked"} /\ UNCHANGED vars

Next ==
  \/ WriteRow
  \/ ReadHeader
  \/ ReadRow
  \/ SkipRow
  \/ ReadSplitRow
  \/ SplitRowPanics
  \/ Finish
  \/ Returned

Spec == Init /\ [][Next]_vars

-----------------------------------------------------------------------------
(* Properties *)

\* Type invariant.
TypeOK ==
  /\ mode \in {"writing", "reading", "done", "failed", "panicked"}
  /\ at \in 1 .. Len(table) + 1
  /\ \A s \in sets : s.term # NoTerm /\ s.month \in DOMAIN table /\ table[s.month].key = "month"

\* The row of the month that a row's cells are about.
MonthOf(i) == IF table[i].key = "none" THEN i - 1 ELSE i

\* The tables that each way of reading is made for.  No model.Term has more than
\* ten years (ParseTerm would read "11 år" as 1 year).  A column with another
\* heading moves the compact and the text readers' rates to another term; so
\* does, in a text, an empty cell, and words between two rows.  Danske's reader
\* takes any row below a lone month for its rates.
MadeFor ==
  /\ \A j \in DOMAIN heading : heading[j].unit = "years" => heading[j].n <= 10
  /\ Align[bank] # "column" => \A j \in DOMAIN heading : IsTerm(heading[j])
  /\ Align[bank] = "text" => \A i \in DOMAIN table :
       table[i].key # "note" /\ \A j \in DOMAIN table[i].cells : IsRate(table[i].cells[j])
  /\ bank = "Danske" => \A i \in 1 .. Len(table) - 1 :
       table[i].key = "month" /\ table[i].cells = <<>> => table[i + 1].key = "none"

\* Every rate is stored under the term its column is headed with and the month
\* of its row, whatever other columns and rows the table has and cells it lacks.
UnderItsHeading ==
  MadeFor => \A s \in sets : /\ s.term = Months(heading[s.cell.col])
                             /\ s.month = MonthOf(s.cell.row)

\* No rate of a known term and a readable month is left out.
NothingMissed ==
  MadeFor /\ mode = "done" =>
    \A i \in DOMAIN table : \A j \in DOMAIN table[i].cells :
      table[i].key # "note" /\ IsRate(table[i].cells[j]) /\ IsTerm(heading[j])
        => \E s \in sets : s.cell = table[i].cells[j]

-----------------------------------------------------------------------------
(* What the repository says of the program, and the code does not keep *)

\* lansforsakringar.go:402: collectLFPDFRates "Returns -1 for empty/missing rates":
\* an empty cell keeps its place, and the rates behind it their terms.
EmptyRatesKeepPlace ==
  bank = "LF" /\ (\A j \in DOMAIN heading : IsTerm(heading[j]))
              /\ (\A i \in DOMAIN table : table[i].key = "month")
    => \A s \in sets : s.term = Months(heading[s.cell.col])
=============================================================================

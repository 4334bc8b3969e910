------------------------ MODULE AverageTables_proofs ------------------------
(***************************************************************************)
(* Proofs about the tables of average rates.  UnderItsHeading is inductive *)
(* once it is known what the author can have written; that nothing is      *)
(* missed needs the same said of the rows already passed, and that the     *)
(* reader never stops at the lower half of a split row.                    *)
(***************************************************************************)
EXTENDS AverageTables, SequenceLemmas

-----------------------------------------------------------------------------
(* The inductive invariant *)

AnyCell == [kind : {"rate", "gap"}, row : Nat, col : Nat]
AnyRow == [key : {"month", "note", "none"}, cells : Seq(AnyCell)]

\* A row with its month alone, of which Danske's rates may be in the next.
Lone(i) == bank = "Danske" /\ table[i].key = "month" /\ table[i].cells = <<>>

\* What the author can write.
Tables ==
  /\ bank \in Readers
  /\ heading \in [1 .. Columns -> PeriodsOf(bank) \cup {Other}]
  /\ table \in Seq(AnyRow)
  /\ \A i \in DOMAIN table :
       /\ Len(table[i].cells) <= Columns
       /\ \A j \in DOMAIN table[i].cells : table[i].cells[j].row = i /\ table[i].cells[j].col = j
       /\ table[i].key = "none" => i > 1 /\ Lone(i - 1)

\* Nothing is stored while the author writes, and all rows are passed at the end.
Place ==
  /\ mode = "writing" => at = 1 /\ sets = {}
  /\ mode = "done" => at > Len(table)

\* A rate that the reader has to store.
ToStore(i, j) ==
  /\ i \in DOMAIN table /\ j \in DOMAIN table[i].cells
  /\ table[i].key # "note" /\ IsRate(table[i].cells[j]) /\ IsTerm(heading[j])

\* The reader does not stop at the lower half of a split row, and has missed
\* nothing in the rows before.
NothingMissedSoFar ==
  MadeFor =>
    /\ at \in DOMAIN table => table[at].key # "none"
    /\ \A i, j \in Nat : ToStore(i, j) /\ i < at => \E s \in sets : s.cell = table[i].cells[j]

Inv == TypeOK /\ Tables /\ Place /\ UnderItsHeading /\ NothingMissedSoFar

-----------------------------------------------------------------------------
(* The table as it was written *)

\* How each bank's table is read.
LEMMA AlignOf ==
  ASSUME bank \in Readers
  PROVE  /\ Align[bank] \in {"column", "compact", "text"}
         /\ bank = "Danske" => Align[bank] = "column"
         /\ Align[bank] = "text" <=> bank \in {"Stabelo", "LF"}
BY ReadersKnown DEF Align

\* Rows and cells are numbered from one.
LEMMA TableShape ==
  ASSUME Tables
  PROVE  /\ Columns \in Nat /\ MaxRows \in Nat
         /\ DOMAIN heading = 1 .. Columns
         /\ \A j \in 1 .. Columns : heading[j] \in PeriodsOf(bank) \cup {Other}
         /\ Len(table) \in Nat /\ DOMAIN table = 1 .. Len(table)
         /\ \A i \in DOMAIN table :
              /\ table[i].key \in {"month", "note", "none"}
              /\ table[i].cells \in Seq(AnyCell)
              /\ Len(table[i].cells) \in 0 .. Columns
              /\ DOMAIN table[i].cells = 1 .. Len(table[i].cells)
              /\ \A j \in DOMAIN table[i].cells : table[i].cells[j] \in AnyCell
<1>1. Columns \in Nat /\ MaxRows \in Nat
  BY SizesNat
<1>2. DOMAIN heading = 1 .. Columns /\ \A j \in 1 .. Columns : heading[j] \in PeriodsOf(bank) \cup {Other}
  BY DEF Tables
<1>3. Len(table) \in Nat /\ DOMAIN table = 1 .. Len(table)
  BY LenProperties DEF Tables
<1>4. ASSUME NEW i \in DOMAIN table
      PROVE  /\ table[i].key \in {"month", "note", "none"}
             /\ table[i].cells \in Seq(AnyCell)
             /\ Len(table[i].cells) \in 0 .. Columns
             /\ DOMAIN table[i].cells = 1 .. Len(table[i].cells)
             /\ \A j \in DOMAIN table[i].cells : table[i].cells[j] \in AnyCell
  <2>1. table[i] \in AnyRow
    BY <1>3, ElementOfSeq DEF Tables
  <2>2. table[i].key \in {"month", "note", "none"} /\ table[i].cells \in Seq(AnyCell)
    BY <2>1 DEF AnyRow
  <2>3. Len(table[i].cells) <= Columns
    BY DEF Tables
  <2>4. \A c \in Seq(AnyCell) : /\ Len(c) \in Nat /\ DOMAIN c = 1 .. Len(c)
                                /\ \A j \in DOMAIN c : c[j] \in AnyCell
    BY LenProperties, ElementOfSeq
  <2>5. /\ Len(table[i].cells) \in Nat /\ DOMAIN table[i].cells = 1 .. Len(table[i].cells)
        /\ \A j \in DOMAIN table[i].cells : table[i].cells[j] \in AnyCell
    BY <2>2, <2>4
  <2> QED
    BY <1>1, <2>2, <2>3, <2>5
<1> QED
  BY <1>1, <1>2, <1>3, <1>4

-----------------------------------------------------------------------------
(* The headings *)

\* A heading that is read as a term is read as its number of months, in the
\* headings that model.Term has.
LEMMA TermIsMonths ==
  ASSUME NEW h \in PeriodsOf(bank) \cup {Other}, h.unit = "years" => h.n <= 10, IsTerm(h)
  PROVE  h # Other /\ Term(h) = Months(h)
<1>1. h # Other
  BY DEF IsTerm, Term, ParseTerm, ParseNordaxTerm, Other
<1>2. h.n \in Nat /\ h.unit \in {"months", "years"}
      /\ (IF bank = "Nordax" THEN h.unit = "months" ELSE h.unit = "months" => h.n < 12)
  BY <1>1, PeriodsKnown DEF PeriodsOf
<1>3. CASE bank = "Nordax"
  BY <1>1, <1>2, <1>3 DEF IsTerm, Term, ParseNordaxTerm, Months, NoTerm
<1>4. CASE bank # "Nordax"
  <2>1. Term(h) = ParseTerm(h)
    BY <1>4 DEF Term
  <2>2. CASE h.unit = "months"
    <3>1. h.n % 10 \in {3, 6} => h.n % 10 = h.n
      BY <1>2, <1>4, <2>2
    <3> QED
      BY <1>1, <2>1, <2>2, <3>1 DEF IsTerm, ParseTerm, Months, NoTerm
  <2>3. CASE h.unit = "years"
    <3>1. h.n \in 0 .. 10
      BY <1>2, <2>3
    <3>2. h.n % 10 # 0 => h.n % 10 = h.n
      BY <3>1
    <3>3. h.n % 10 = 0 => h.n = 0 \/ h.n = 10
      BY <3>1
    <3> QED
      BY <1>1, <2>1, <2>3, <3>1, <3>2, <3>3 DEF IsTerm, ParseTerm, Months, NoTerm
  <2> QED
    BY <1>2, <2>2, <2>3
<1> QED
  BY <1>1, <1>3, <1>4

\* The header that is read is a part of the headings, and all of it when each is a term.
LEMMA HeaderShape ==
  ASSUME Tables
  PROVE  /\ Header \in Seq(PeriodsOf(bank) \cup {Other})
         /\ (\A j \in DOMAIN heading : IsTerm(heading[j])) => Header = heading
<1> DEFINE H == PeriodsOf(bank) \cup {Other}
           I == {i \in 1 .. Len(heading) : heading[i] = Other}
<1>1. heading \in Seq(H) /\ Len(heading) = Columns /\ Columns \in Nat /\ DOMAIN heading = 1 .. Columns
  <2>1. Columns \in Nat /\ heading \in [1 .. Columns -> H]
    BY TableShape DEF Tables
  <2> HIDE DEF H
  <2>2. heading \in Seq(H)
    BY <2>1, SeqDef
  <2> QED
    BY <2>1, <2>2, LenProperties
<1>2. CASE bank # "Stabelo"
  BY <1>1, <1>2 DEF Header
<1>3. CASE bank = "Stabelo"
  <2>1. Header = UpToFirst(heading, LAMBDA h : h = Other)
    BY <1>3 DEF Header
  <2>2. SelectInSeq(heading, LAMBDA h : h = Other) = IF I # {} THEN Min(I) ELSE 0
    BY DEF SelectInSeq
  <2>3. CASE I = {}
    <3>1. Header = heading
      BY <2>1, <2>2, <2>3 DEF UpToFirst
    <3> QED
      BY <1>1, <3>1
  <2>4. CASE I # {}
    <3>1. I \subseteq Nat /\ Min(I) \in I
      <4>1. I \subseteq Nat
        BY <1>1
      <4>2. \E x \in I : \A y \in I : x <= y
        <5> HIDE DEF I
        <5> QED
          BY <2>4, <4>1, LeastNatural
      <4>3. Min(I) \in I
        <5> HIDE DEF I
        <5> QED
          BY <4>2 DEF Min
      <4> QED
        BY <4>1, <4>3
    <3> DEFINE n == Min(I)
    <3>2. n \in 1 .. Columns /\ heading[n] = Other
      BY <1>1, <3>1
    <3>3. Header = SubSeq(heading, 1, n - 1)
      <4>1. SelectInSeq(heading, LAMBDA h : h = Other) = n /\ n # 0
        BY <1>1, <2>2, <2>4, <3>2
      <4> HIDE DEF n, I
      <4> QED
        BY <2>1, <4>1 DEF UpToFirst
    <3> HIDE DEF n, H
    <3>4. Header \in Seq(H)
      BY <1>1, <3>2, <3>3, SubSeqProperties
    <3>5. ~IsTerm(heading[n])
      BY <3>2 DEF IsTerm, Term, ParseTerm, ParseNordaxTerm, Other
    <3> QED
      BY <1>1, <3>2, <3>4, <3>5 DEF H
  <2> QED
    BY <2>3, <2>4
<1> QED
  BY <1>2, <1>3

\* The list of terms has none that is no term; it is the list of all headings' when each is one.
LEMMA TermsShape ==
  ASSUME Tables
  PROVE  /\ \A k \in DOMAIN Terms : Terms[k] # NoTerm
         /\ (\A j \in DOMAIN heading : IsTerm(heading[j])) =>
              DOMAIN Terms = DOMAIN heading /\ \A j \in DOMAIN heading : Terms[j] = Term(heading[j])
<1> DEFINE H == PeriodsOf(bank) \cup {Other}
           K == {h \in H : IsTerm(h)}
           known == Selected(Header, IsTerm)
<1>1. Header \in Seq(H)
  BY HeaderShape
<1>2. known = Selection(Header, K)
  <2>1. DOMAIN Header = 1 .. Len(Header) /\ \A i \in DOMAIN Header : Header[i] \in H
    <3> HIDE DEF H
    <3> QED
      BY <1>1, LenProperties, ElementOfSeq
  <2>2. \A i \in DOMAIN Header :
          (IF IsTerm(Header[i]) THEN <<Header[i]>> ELSE <<>>) = Piece(Header[i], K)
    BY <2>1 DEF Piece
  <2>3. [i \in DOMAIN Header |-> IF IsTerm(Header[i]) THEN <<Header[i]>> ELSE <<>>]
          = [i \in DOMAIN Header |-> Piece(Header[i], K)]
    BY <2>2
  <2> QED
    BY <2>3 DEF Selected, Selection
<1>3. known \in Seq(H \cap K) /\ ((\A i \in 1 .. Len(Header) : Header[i] \in K) => known = Header)
  <2> HIDE DEF H, K, known
  <2> QED
    BY <1>1, <1>2, SelectionProperties
<1>4. Terms = [i \in DOMAIN known |-> Term(known[i])]
  BY DEF Terms
<1>5. \A k \in DOMAIN known : known[k] \in K
  <2> HIDE DEF H, K, known
  <2> QED
    BY <1>3, LenProperties, ElementOfSeq
<1>6. ASSUME NEW k \in DOMAIN Terms PROVE Terms[k] # NoTerm
  <2> HIDE DEF known
  <2> QED
    BY <1>4, <1>5 DEF IsTerm
<1>7. ASSUME \A j \in DOMAIN heading : IsTerm(heading[j])
      PROVE  DOMAIN Terms = DOMAIN heading /\ \A j \in DOMAIN heading : Terms[j] = Term(heading[j])
  <2>1. Header = heading
    BY <1>7, HeaderShape
  <2>2. \A i \in 1 .. Len(Header) : Header[i] \in K
    <3>1. DOMAIN heading = 1 .. Columns /\ \A j \in 1 .. Columns : heading[j] \in H
      BY TableShape
    <3>2. DOMAIN heading = 1 .. Len(heading)
      <4> HIDE DEF H
      <4> QED
        BY <1>1, <2>1, LenProperties
    <3> QED
      BY <1>7, <2>1, <3>1, <3>2
  <2>3. known = heading
    BY <1>3, <2>1, <2>2
  <2> QED
    BY <1>4, <2>3
<1> QED
  BY <1>6, <1>7

-----------------------------------------------------------------------------
(* The rows *)

\* The sets that a row is worth: each rate under its own heading.
RatesOf(m, cells) ==
  {Set(m, Months(heading[j]), cells[j]) :
     j \in {j \in DOMAIN cells : IsTerm(heading[j]) /\ IsRate(cells[j])}}

\* A map from column to term puts every rate under its own heading.
LEMMA ByColumnIsRight ==
  ASSUME Tables, MadeFor, NEW m, NEW cells \in Seq(AnyCell), Len(cells) <= Columns
  PROVE  ByColumn(m, cells) = RatesOf(m, cells)
<1>1. /\ DOMAIN heading = 1 .. Columns /\ Columns \in Nat
      /\ \A j \in 1 .. Columns : heading[j] \in PeriodsOf(bank) \cup {Other}
  BY TableShape
<1>2. DOMAIN cells = 1 .. Len(cells) /\ Len(cells) \in Nat
  BY LenProperties
<1>3. \A j \in DOMAIN cells : j \in DOMAIN heading
  BY <1>1, <1>2
<1>4. ASSUME NEW j \in DOMAIN heading, IsTerm(heading[j]) PROVE Term(heading[j]) = Months(heading[j])
  <2>1. heading[j].unit = "years" => heading[j].n <= 10
    BY DEF MadeFor
  <2>2. heading[j] \in PeriodsOf(bank) \cup {Other}
    BY <1>1
  <2> QED
    BY <1>4, <2>1, <2>2, TermIsMonths
<1> HIDE DEF Set, Term, Months, IsTerm, IsRate
<1> QED
  BY <1>3, <1>4 DEF ByColumn, RatesOf

\* So does counting, where every column is of a term.
LEMMA ByPositionIsRight ==
  ASSUME Tables, MadeFor, Align[bank] # "column",
         NEW m, NEW cells \in Seq(AnyCell), Len(cells) <= Columns
  PROVE  ByPosition(m, cells) = RatesOf(m, cells)
<1>1. /\ DOMAIN heading = 1 .. Columns /\ Columns \in Nat
      /\ \A j \in 1 .. Columns : heading[j] \in PeriodsOf(bank) \cup {Other}
  BY TableShape
<1>2. DOMAIN cells = 1 .. Len(cells) /\ Len(cells) \in Nat
  BY LenProperties
<1>3. \A j \in DOMAIN heading : IsTerm(heading[j])
  BY DEF MadeFor
<1>4. DOMAIN Terms = DOMAIN heading /\ \A j \in DOMAIN heading : Terms[j] = Term(heading[j])
  BY <1>3, TermsShape
<1>5. \A j \in DOMAIN cells : j \in DOMAIN heading
  BY <1>1, <1>2
<1>6. ASSUME NEW j \in DOMAIN heading PROVE Terms[j] = Months(heading[j])
  <2>1. heading[j].unit = "years" => heading[j].n <= 10
    BY DEF MadeFor
  <2>2. heading[j] \in PeriodsOf(bank) \cup {Other} /\ IsTerm(heading[j])
    BY <1>1, <1>3
  <2> QED
    BY <1>4, <2>1, <2>2, TermIsMonths
<1> QED
  BY <1>3, <1>4, <1>5, <1>6 DEF ByPosition, RatesOf

\* In a text, the numbers of a month are its own where another month follows.
LEMMA CellsOfOneRow ==
  ASSUME Tables, NEW i \in DOMAIN table, i = Len(table) \/ table[i + 1].key = "month"
  PROVE  CellsUpTo(i) = table[i].cells
<1>1. Len(table) \in Nat /\ i \in 1 .. Len(table) /\ table[i].cells \in Seq(AnyCell)
  BY TableShape
<1>2. i + 1 \in Ends(i) /\ \A e \in Ends(i) : i + 1 <= e /\ e \in Nat
  BY <1>1 DEF Ends
<1> DEFINE end == CHOOSE e \in Ends(i) : \A e2 \in Ends(i) : e <= e2
<1>3. end = i + 1
  BY <1>1, <1>2
<1>4. CellsUpTo(i) = FlattenSeq([j \in 1 .. end - i |-> table[i + j - 1].cells])
  BY DEF CellsUpTo
<1> HIDE DEF end
<1>5. [j \in 1 .. end - i |-> table[i + j - 1].cells] = <<table[i].cells>>
  BY <1>1, <1>3
<1>6. FlattenSeq(<<table[i].cells>>) = table[i].cells
  <2> DEFINE c == table[i].cells
  <2>1. c \in Seq(AnyCell)
    BY <1>1
  <2> HIDE DEF c
  <2>2. <<c>> = Append(<<>>, c) /\ <<>> \in Seq(Seq(AnyCell)) /\ FlattenSeq(<<>>) = <<>>
    BY DEF FlattenSeq
  <2>3. FlattenSeq(<<c>>) = <<>> \o c
    BY <2>1, <2>2, FlattenAppend
  <2>4. FlattenSeq(<<c>>) = c
    BY <2>1, <2>3, ConcatEmptySeq
  <2> QED
    BY <2>4 DEF c
<1> QED
  BY <1>4, <1>5, <1>6

\* A row without an empty cell is its rates.
LEMMA RatesOfFullRow ==
  ASSUME NEW cells \in Seq(AnyCell), \A j \in DOMAIN cells : IsRate(cells[j])
  PROVE  Rates(cells) = cells
<1> DEFINE T == {c \in AnyCell : IsRate(c)}
<1>1. DOMAIN cells = 1 .. Len(cells) /\ \A j \in DOMAIN cells : cells[j] \in AnyCell
  BY LenProperties, ElementOfSeq
<1>2. [j \in DOMAIN cells |-> IF IsRate(cells[j]) THEN <<cells[j]>> ELSE <<>>]
        = [j \in DOMAIN cells |-> Piece(cells[j], T)]
  BY <1>1 DEF Piece
<1>3. Rates(cells) = Selection(cells, T)
  BY <1>2 DEF Rates, Selected, Selection
<1>4. \A j \in 1 .. Len(cells) : cells[j] \in T
  BY <1>1
<1> HIDE DEF T
<1> QED
  BY <1>3, <1>4, SelectionProperties

\* What a row of a month gives.
SetsOfRow(i) ==
  CASE Align[bank] = "column" -> ByColumn(i, table[i].cells)
    [] Align[bank] = "compact" -> ByPosition(i, table[i].cells)
    [] Align[bank] = "text" -> SetsOfText(i)

\* In the tables it is made for, every reader gives a row's rates under their headings.
LEMMA SetsOfRowAreRight ==
  ASSUME Tables, MadeFor, NEW i \in DOMAIN table, table[i].key = "month"
  PROVE  SetsOfRow(i) = RatesOf(i, table[i].cells)
<1> DEFINE cells == table[i].cells
<1>1. cells \in Seq(AnyCell) /\ Len(cells) <= Columns
      /\ DOMAIN table = 1 .. Len(table) /\ Len(table) \in Nat
  BY TableShape
<1>2. bank \in Readers
  BY DEF Tables
<1>3. CASE Align[bank] = "column"
  BY <1>1, <1>3, ByColumnIsRight DEF SetsOfRow
<1>4. CASE Align[bank] = "compact"
  BY <1>1, <1>4, ByPositionIsRight DEF SetsOfRow
<1>5. CASE Align[bank] = "text"
  <2>1. \A j \in DOMAIN cells : IsRate(cells[j])
    BY <1>5 DEF MadeFor
  <2>2. Rates(cells) = cells
    <3> HIDE DEF cells
    <3> QED
      BY <1>1, <2>1, RatesOfFullRow
  <2>3. ByPosition(i, cells) = RatesOf(i, cells)
    BY <1>1, <1>5, ByPositionIsRight
  <2>4. i = Len(table) \/ table[i + 1].key = "month"
    <3>1. CASE i # Len(table)
      <4>1. i + 1 \in DOMAIN table /\ i + 1 - 1 = i
        BY <1>1, <3>1
      <4>2. table[i + 1].key \in {"month", "note", "none"} /\ table[i + 1].key # "note"
        BY <1>5, <4>1, TableShape DEF MadeFor
      <4>3. table[i + 1].key # "none"
        BY <1>2, <1>5, <4>1, AlignOf DEF Tables, Lone
      <4> QED
        BY <4>2, <4>3
    <3> QED
      BY <3>1
  <2>5. CASE bank = "LF"
    <3>1. CellsUpTo(i) = cells
      BY <2>4, CellsOfOneRow
    <3>2. SetsOfText(i) = ByPosition(i, Rates(cells))
      BY <2>5, <3>1 DEF SetsOfText
    <3> QED
      BY <1>5, <2>2, <2>3, <3>2 DEF SetsOfRow
  <2>6. CASE bank # "LF"
    <3>1. Matched(i)
      BY <2>4 DEF Matched
    <3>2. SetsOfText(i) = ByPosition(i, Rates(cells))
      BY <2>6, <3>1 DEF SetsOfText
    <3> QED
      BY <1>5, <2>2, <2>3, <3>2 DEF SetsOfRow
  <2> QED
    BY <2>5, <2>6
<1> QED
  BY <1>2, <1>3, <1>4, <1>5, AlignOf

\* In any table, what a row gives has a term and the row's month.
LEMMA SetsHaveTerms ==
  ASSUME Tables, NEW i
  PROVE  /\ \A cells : \A s \in ByColumn(i, cells) : s.month = i /\ s.term # NoTerm
         /\ \A s \in SetsOfRow(i) : s.month = i /\ s.term # NoTerm
<1>1. ASSUME NEW cells, NEW s \in ByColumn(i, cells) PROVE s.month = i /\ s.term # NoTerm
  BY DEF ByColumn, Set, IsTerm
<1>2. ASSUME NEW cells, NEW s \in ByPosition(i, cells) PROVE s.month = i /\ s.term # NoTerm
  <2>1. PICK k \in DOMAIN Terms : s = Set(i, Terms[k], cells[k])
    BY DEF ByPosition
  <2> QED
    BY <2>1, TermsShape DEF Set
<1>3. ASSUME NEW s \in SetsOfText(i) PROVE s.month = i /\ s.term # NoTerm
  BY <1>2 DEF SetsOfText
<1> QED
  <2>1. bank \in Readers
    BY DEF Tables
  <2> QED
    BY <1>1, <1>2, <1>3, <2>1, AlignOf DEF SetsOfRow

-----------------------------------------------------------------------------
(* The steps *)

\* What is said of a table stays true while the table is the same.
LEMMA SameTable ==
  ASSUME UNCHANGED <<bank, heading, table>>
  PROVE  /\ Tables' <=> Tables
         /\ MadeFor' <=> MadeFor
         /\ \A i, j : ToStore(i, j)' <=> ToStore(i, j)
<1>1. \A h : IsTerm(h)' <=> IsTerm(h)
  BY DEF IsTerm, Term, ParseTerm, ParseNordaxTerm
<1>2. \A j : IsTerm(heading[j])' <=> IsTerm(heading[j])
  BY DEF IsTerm, Term, ParseTerm, ParseNordaxTerm
<1>3. \A i : Lone(i)' <=> Lone(i)
  BY DEF Lone
<1>4. PeriodsOf(bank)' = PeriodsOf(bank)
  BY DEF PeriodsOf
<1>5. Tables' <=> Tables
  BY <1>3, <1>4 DEF Tables
<1>6. MadeFor' <=> MadeFor
  BY <1>2 DEF MadeFor
<1>7. \A i, j : ToStore(i, j)' <=> ToStore(i, j)
  BY <1>2 DEF ToStore
<1> QED
  BY <1>5, <1>6, <1>7

\* A row's rates are stored: they are under their headings, and what was read is complete.
LEMMA StoreInv ==
  ASSUME Inv, mode = "reading", mode' = "reading", UNCHANGED <<bank, heading, table>>,
         at \in DOMAIN table, table[at].key = "month", at' \in 1 .. Len(table) + 1,
         NEW k \in DOMAIN table, NEW new, sets' = sets \cup new,
         \A s \in new : s.month = at /\ s.term # NoTerm,
         MadeFor => /\ new = RatesOf(at, table[k].cells) /\ MonthOf(k) = at
                    /\ at' \in DOMAIN table => table[at'].key # "none"
                    /\ \A i, j \in Nat : ToStore(i, j) /\ i < at' => i < at \/ i = k
  PROVE  Inv'
<1>1. Tables' /\ (MadeFor' <=> MadeFor) /\ \A i, j : ToStore(i, j)' <=> ToStore(i, j)
  BY SameTable DEF Inv
<1>2. TypeOK'
  BY DEF Inv, TypeOK
<1>3. Place'
  BY DEF Place
<1>4. UnderItsHeading'
  <2> SUFFICES ASSUME MadeFor, NEW s \in sets \cup new
               PROVE  s.term = Months(heading[s.cell.col]) /\ s.month = MonthOf(s.cell.row)
    BY <1>1 DEF UnderItsHeading, MonthOf
  <2>1. CASE s \in sets
    BY <2>1 DEF Inv, UnderItsHeading
  <2>2. CASE s \in new
    <3>1. PICK j \in DOMAIN table[k].cells : s = Set(at, Months(heading[j]), table[k].cells[j])
      BY <2>2 DEF RatesOf
    <3>2. table[k].cells[j].row = k /\ table[k].cells[j].col = j
      BY DEF Inv, Tables
    <3> QED
      BY <3>1, <3>2 DEF Set
  <2> QED
    BY <2>1, <2>2
<1>5. NothingMissedSoFar'
  <2>1. ASSUME MadeFor, NEW i \in Nat, NEW j \in Nat, ToStore(i, j), i < at'
        PROVE  \E s \in sets \cup new : s.cell = table[i].cells[j]
    <3>1. CASE i < at
      BY <2>1, <3>1 DEF Inv, NothingMissedSoFar
    <3>2. CASE i = k
      <4>1. Set(at, Months(heading[j]), table[k].cells[j]) \in new
        BY <2>1, <3>2 DEF RatesOf, ToStore
      <4>2. Set(at, Months(heading[j]), table[k].cells[j]).cell = table[i].cells[j]
        BY <3>2 DEF Set
      <4> QED
        BY <4>1, <4>2
    <3> QED
      BY <2>1, <3>1, <3>2
  <2> QED
    BY <1>1, <2>1 DEF NothingMissedSoFar
<1> QED
  BY <1>1, <1>2, <1>3, <1>4, <1>5 DEF Inv

\* The author starts with nothing written.
LEMMA InitInv == Init => Inv
<1> SUFFICES ASSUME Init PROVE Inv
  OBVIOUS
<1>1. table = <<>> /\ mode = "writing" /\ at = 1 /\ sets = {} /\ bank \in Readers
      /\ heading \in [1 .. Columns -> PeriodsOf(bank) \cup {Other}]
  BY DEF Init
<1>2. Len(table) = 0 /\ DOMAIN table = {} /\ table \in Seq(AnyRow)
  BY <1>1
<1>3. TypeOK /\ Place /\ UnderItsHeading
  BY <1>1, <1>2 DEF TypeOK, Place, UnderItsHeading
<1>4. Tables
  BY <1>1, <1>2 DEF Tables
<1>5. NothingMissedSoFar
  BY <1>2 DEF NothingMissedSoFar, ToStore
<1> QED
  BY <1>3, <1>4, <1>5 DEF Inv

\* Another row: the lower half of a split row only below a month alone.
LEMMA WriteRowInv == Inv /\ WriteRow => Inv'
<1> SUFFICES ASSUME Inv, WriteRow PROVE Inv'
  OBVIOUS
<1>1. mode = "writing" /\ UNCHANGED <<bank, heading, mode, at, sets>>
  BY DEF WriteRow
<1>0. PICK key \in Keys, n \in 0 .. Columns : \E kinds \in [1 .. n -> {"rate", "gap"}] :
        table' = Append(table,
            [key |-> key,
             cells |-> [j \in 1 .. n |-> [kind |-> kinds[j], row |-> Len(table) + 1, col |-> j]]])
  BY DEF WriteRow
<1>2. PICK kinds \in [1 .. n -> {"rate", "gap"}] :
        table' = Append(table,
            [key |-> key,
             cells |-> [j \in 1 .. n |-> [kind |-> kinds[j], row |-> Len(table) + 1, col |-> j]]])
  BY <1>0
<1> DEFINE cells == [j \in 1 .. n |-> [kind |-> kinds[j], row |-> Len(table) + 1, col |-> j]]
           new == [key |-> key, cells |-> cells]
           m == Len(table) + 1
<1>3. at = 1 /\ sets = {} /\ Tables
  BY <1>1 DEF Inv, Place
<1>4. Len(table) \in Nat /\ DOMAIN table = 1 .. Len(table) /\ Columns \in Nat
  BY <1>3, TableShape
<1>5. cells \in Seq(AnyCell) /\ Len(cells) = n /\ DOMAIN cells = 1 .. n
      /\ \A j \in 1 .. n : cells[j].row = m /\ cells[j].col = j
  <2>1. \A j \in 1 .. n : cells[j] \in AnyCell
    BY <1>4 DEF AnyCell
  <2>2. n \in Nat /\ cells \in [1 .. n -> AnyCell]
    BY <1>4, <2>1
  <2>3. cells \in Seq(AnyCell)
    BY <2>2, SeqDef
  <2> QED
    BY <2>2, <2>3
<1>6. key \in {"month", "note", "none"} /\ (key = "none" => m > 1 /\ Lone(Len(table)))
  <2>1. CASE key # "none"
    BY <2>1 DEF Keys
  <2>2. CASE key = "none"
    <3>1. bank = "Danske" /\ table # <<>> /\ Last(table).key = "month" /\ Last(table).cells = <<>>
      BY <2>2 DEF Keys
    <3>2. Len(table) # 0
      BY <1>3, <3>1, EmptySeq DEF Tables
    <3> QED
      BY <1>4, <2>2, <3>1, <3>2 DEF Lone, Last
  <2> QED
    BY <2>1, <2>2
<1>7. new \in AnyRow
  <2> HIDE DEF cells
  <2> QED
    BY <1>5, <1>6 DEF AnyRow
<1> HIDE DEF cells
<1>8. /\ table' \in Seq(AnyRow) /\ Len(table') = m /\ DOMAIN table' = 1 .. m
      /\ table'[m] = new /\ \A i \in 1 .. Len(table) : table'[i] = table[i]
  <2> HIDE DEF new
  <2>1. table' = Append(table, new)
    BY <1>2 DEF new, cells
  <2> QED
    BY <1>3, <1>4, <1>7, <2>1, AppendProperties, LenProperties DEF Tables
<1>9. Tables'
  <2>1. bank' \in Readers /\ heading' \in [1 .. Columns -> (PeriodsOf(bank) \cup {Other})']
    BY <1>1, <1>3 DEF Tables, PeriodsOf, Other
  <2>2. ASSUME NEW i \in 1 .. m
        PROVE  /\ Len(table'[i].cells) <= Columns
               /\ \A j \in DOMAIN table'[i].cells : table'[i].cells[j].row = i /\ table'[i].cells[j].col = j
               /\ table'[i].key = "none" => i > 1 /\ Lone(i - 1)'
    <3>1. CASE i = m
      <4>1. table'[i].cells = cells /\ table'[i].key = key
        BY <1>8, <3>1
      <4>2. key = "none" => Lone(i - 1)'
        <5>1. ASSUME key = "none" PROVE table'[i - 1] = table[i - 1] /\ i - 1 = Len(table)
          BY <1>4, <1>6, <1>8, <3>1, <5>1
        <5> QED
          BY <1>1, <1>6, <5>1 DEF Lone
      <4> QED
        BY <1>5, <1>6, <3>1, <4>1, <4>2
    <3>2. CASE i # m
      <4>1. i \in DOMAIN table /\ table'[i] = table[i]
        BY <1>4, <1>8, <3>2
      <4>2. table[i].key = "none" => i > 1 /\ Lone(i - 1)
        BY <1>3, <4>1 DEF Tables
      <4>3. table[i].key = "none" => table'[i - 1] = table[i - 1]
        BY <1>4, <1>8, <4>1, <4>2
      <4> QED
        BY <1>1, <1>3, <4>1, <4>2, <4>3 DEF Tables, Lone
    <3> QED
      BY <3>1, <3>2
  <2> QED
    BY <1>8, <2>1, <2>2 DEF Tables, Other
<1>10. TypeOK' /\ Place'
  BY <1>1, <1>3, <1>4, <1>8 DEF TypeOK, Place
<1>11. UnderItsHeading'
  BY <1>1, <1>3 DEF UnderItsHeading
<1>12. NothingMissedSoFar'
  <2>1. at' \in DOMAIN table' => table'[at'].key # "none"
    BY <1>1, <1>3, <1>9 DEF Tables
  <2>2. \A i, j \in Nat : ~(ToStore(i, j)' /\ i < at')
    BY <1>1, <1>3, <1>8 DEF ToStore
  <2> QED
    BY <2>1, <2>2 DEF NothingMissedSoFar
<1> QED
  BY <1>9, <1>10, <1>11, <1>12 DEF Inv

\* Nothing is read with the header.
LEMMA ReadHeaderInv == Inv /\ ReadHeader => Inv'
<1> SUFFICES ASSUME Inv, ReadHeader PROVE Inv'
  OBVIOUS
<1>1. mode = "writing" /\ mode' \in {"failed", "reading"} /\ UNCHANGED <<bank, heading, table, at, sets>>
  BY DEF ReadHeader
<1>2. Tables' /\ (MadeFor' <=> MadeFor) /\ \A i, j : ToStore(i, j)' <=> ToStore(i, j)
  BY <1>1, SameTable DEF Inv
<1>3. TypeOK' /\ Place'
  BY <1>1 DEF Inv, TypeOK, Place
<1>4. UnderItsHeading' /\ NothingMissedSoFar'
  BY <1>1, <1>2 DEF Inv, UnderItsHeading, NothingMissedSoFar, MonthOf
<1> QED
  BY <1>2, <1>3, <1>4 DEF Inv

\* The lower half of a split row is below a month alone.
LEMMA NextRowBegins ==
  ASSUME Inv, Reading, ~LoneMonth, at + 1 \in DOMAIN table
  PROVE  table[at + 1].key # "none"
<1>1. at \in Nat /\ at + 1 - 1 = at
  BY TableShape DEF Inv, TypeOK
<1> QED
  BY <1>1 DEF Inv, Tables, Lone, LoneMonth

\* A row of a month.
LEMMA ReadRowInv == Inv /\ ReadRow => Inv'
<1> SUFFICES ASSUME Inv, ReadRow PROVE Inv'
  OBVIOUS
<1>1. /\ mode = "reading" /\ at <= Len(table) /\ table[at].key = "month" /\ ~LoneMonth /\ Reading
      /\ sets' = sets \cup SetsOfRow(at) /\ at' = at + 1 /\ UNCHANGED <<bank, heading, table, mode>>
  BY DEF ReadRow, Reading, SetsOfRow
<1>2. Len(table) \in Nat /\ DOMAIN table = 1 .. Len(table) /\ at \in DOMAIN table /\ Tables
  BY <1>1, TableShape DEF Inv, TypeOK
<1>3. \A s \in SetsOfRow(at) : s.month = at /\ s.term # NoTerm
  BY <1>2, SetsHaveTerms
<1>4. MadeFor => SetsOfRow(at) = RatesOf(at, table[at].cells) /\ MonthOf(at) = at
  BY <1>1, <1>2, SetsOfRowAreRight DEF MonthOf
<1>5. at' \in DOMAIN table => table[at'].key # "none"
  BY <1>1, NextRowBegins
<1>6. at' \in 1 .. Len(table) + 1 /\ \A i \in Nat : i < at' => i < at \/ i = at
  BY <1>1, <1>2
<1> HIDE DEF SetsOfRow
<1> QED
  BY <1>1, <1>2, <1>3, <1>4, <1>5, <1>6, StoreInv

\* A row that is not of a month has nothing to store.
LEMMA SkipRowInv == Inv /\ SkipRow => Inv'
<1> SUFFICES ASSUME Inv, SkipRow PROVE Inv'
  OBVIOUS
<1>1. /\ mode = "reading" /\ at <= Len(table) /\ table[at].key # "month" /\ Reading /\ ~LoneMonth
      /\ at' = at + 1 /\ UNCHANGED <<bank, heading, table, mode, sets>>
  BY DEF SkipRow, Reading, LoneMonth
<1>2. Len(table) \in Nat /\ DOMAIN table = 1 .. Len(table) /\ at \in DOMAIN table
  BY <1>1, TableShape DEF Inv, TypeOK
<1>3. Tables' /\ (MadeFor' <=> MadeFor) /\ \A i, j : ToStore(i, j)' <=> ToStore(i, j)
  BY <1>1, SameTable DEF Inv
<1>4. TypeOK' /\ Place' /\ UnderItsHeading'
  BY <1>1, <1>2, <1>3 DEF Inv, TypeOK, Place, UnderItsHeading, MonthOf
<1>5. at' \in DOMAIN table => table[at'].key # "none"
  BY <1>1, NextRowBegins
<1>6. MadeFor => table[at].key = "note"
  <2>1. table[at].key \in {"month", "note", "none"}
    BY <1>2, TableShape DEF Inv
  <2> QED
    BY <1>1, <1>2, <2>1 DEF Inv, NothingMissedSoFar
<1>7. \A i \in Nat : i < at' => i < at \/ i = at
  BY <1>1, <1>2
<1>8. NothingMissedSoFar'
  BY <1>1, <1>3, <1>5, <1>6, <1>7 DEF Inv, NothingMissedSoFar, ToStore
<1> QED
  BY <1>3, <1>4, <1>8 DEF Inv

\* A month alone, and the row of its rates.
LEMMA ReadSplitRowInv == Inv /\ ReadSplitRow => Inv'
<1> SUFFICES ASSUME Inv, ReadSplitRow PROVE Inv'
  OBVIOUS
<1>1. /\ mode = "reading" /\ LoneMonth /\ at < Len(table) /\ table[at].key = "month"
      /\ table[at].cells = <<>> /\ bank = "Danske" /\ at' = at + 2
      /\ sets' = sets \cup ByColumn(at, Joined(table[at + 1])) /\ UNCHANGED <<bank, heading, table, mode>>
  BY DEF ReadSplitRow, Reading, LoneMonth
<1>2. Len(table) \in Nat /\ DOMAIN table = 1 .. Len(table) /\ at \in DOMAIN table
      /\ at + 1 \in DOMAIN table /\ Tables
  BY <1>1, TableShape DEF Inv, TypeOK
<1> DEFINE new == ByColumn(at, Joined(table[at + 1]))
<1>3. \A s \in new : s.month = at /\ s.term # NoTerm
  BY <1>2, SetsHaveTerms
<1>4. ASSUME MadeFor
      PROVE  /\ table[at + 1].key = "none"
             /\ new = RatesOf(at, table[at + 1].cells) /\ MonthOf(at + 1) = at
             /\ at' \in DOMAIN table => table[at'].key # "none"
  <2>1. table[at + 1].key = "none"
    BY <1>1, <1>2, <1>4 DEF MadeFor
  <2>2. table[at + 1].cells \in Seq(AnyCell) /\ Len(table[at + 1].cells) <= Columns
    BY <1>2, TableShape
  <2>3. new = RatesOf(at, table[at + 1].cells)
    BY <1>2, <1>4, <2>1, <2>2, ByColumnIsRight DEF Joined
  <2>4. MonthOf(at + 1) = at
    BY <1>2, <2>1 DEF MonthOf
  <2>5. ASSUME at' \in DOMAIN table PROVE table[at'].key # "none"
    <3>1. at' - 1 = at + 1
      BY <1>1, <1>2
    <3>2. table[at'].key = "none" => Lone(at + 1)
      BY <1>2, <2>5, <3>1 DEF Tables
    <3> QED
      BY <2>1, <3>2 DEF Lone
  <2> QED
    BY <2>1, <2>3, <2>4, <2>5
<1>5. ASSUME NEW i \in Nat, NEW j \in Nat, ToStore(i, j), i < at' PROVE i < at \/ i = at + 1
  <2>1. i < at \/ i = at \/ i = at + 1
    BY <1>1, <1>2, <1>5
  <2>2. i # at
    BY <1>1, <1>5 DEF ToStore
  <2> QED
    BY <2>1, <2>2
<1>6. at' \in 1 .. Len(table) + 1 /\ mode' = "reading"
  BY <1>1, <1>2
<1> HIDE DEF new
<1>7. sets' = sets \cup new
  BY <1>1 DEF new
<1> QED
  BY <1>1, <1>2, <1>3, <1>4, <1>5, <1>6, <1>7, StoreInv

\* The reading ends, or it panics: nothing is stored.
LEMMA EndInv ==
  ASSUME Inv, UNCHANGED <<bank, heading, table, at, sets>>,
         \/ mode' = mode
         \/ mode' \in {"failed", "panicked"}
         \/ mode' = "done" /\ at > Len(table)
  PROVE  Inv'
<1>1. Tables' /\ (MadeFor' <=> MadeFor) /\ \A i, j : ToStore(i, j)' <=> ToStore(i, j)
  BY SameTable DEF Inv
<1>2. TypeOK' /\ Place'
  BY DEF Inv, TypeOK, Place
<1>3. UnderItsHeading' /\ NothingMissedSoFar'
  BY <1>1 DEF Inv, UnderItsHeading, NothingMissedSoFar, MonthOf
<1> QED
  BY <1>1, <1>2, <1>3 DEF Inv

\* Every step keeps the invariant.
LEMMA NextInv == Inv /\ [Next]_vars => Inv'
<1> SUFFICES ASSUME Inv, [Next]_vars PROVE Inv'
  OBVIOUS
<1>1. CASE SplitRowPanics
  BY <1>1, EndInv DEF SplitRowPanics
<1>2. CASE Finish
  BY <1>2, EndInv DEF Finish
<1>3. CASE Returned
  BY <1>3, EndInv DEF Returned, vars
<1>4. CASE UNCHANGED vars
  BY <1>4, EndInv DEF vars
<1> QED
  BY <1>1, <1>2, <1>3, <1>4, WriteRowInv, ReadHeaderInv, ReadRowInv, SkipRowInv, ReadSplitRowInv
     DEF Next

-----------------------------------------------------------------------------
(* The theorems *)

\* The invariant holds throughout.
THEOREM TablesInvariance == Spec => []Inv
BY InitInv, NextInv, PTL DEF Spec

\* The reader is at a row of the table, and what is stored has a term and a month of it.
THEOREM TablesTypeCorrect == Spec => []TypeOK
<1>1. Inv => TypeOK
  BY DEF Inv
<1> QED
  BY <1>1, TablesInvariance, PTL

\* Every average is stored under the term of its column and the month of its row.
THEOREM AveragesUnderTheirHeadings == Spec => []UnderItsHeading
<1>1. Inv => UnderItsHeading
  BY DEF Inv
<1> QED
  BY <1>1, TablesInvariance, PTL

\* No average of a known term and a readable month is left out.
THEOREM NoAverageIsMissed == Spec => []NothingMissed
<1>1. Inv => NothingMissed
  <2> SUFFICES ASSUME Inv, MadeFor, mode = "done", NEW i \in DOMAIN table,
                      NEW j \in DOMAIN table[i].cells, table[i].key # "note",
                      IsRate(table[i].cells[j]), IsTerm(heading[j])
               PROVE  \E s \in sets : s.cell = table[i].cells[j]
    BY DEF NothingMissed
  <2>1. i \in Nat /\ i \in 1 .. Len(table) /\ j \in Nat /\ Len(table) \in Nat
    <3>1. DOMAIN table = 1 .. Len(table) /\ Len(table) \in Nat
          /\ DOMAIN table[i].cells = 1 .. Len(table[i].cells)
      BY TableShape DEF Inv
    <3> QED
      BY <3>1
  <2>2. i < at
    BY <2>1 DEF Inv, TypeOK, Place
  <2> QED
    BY <2>1, <2>2 DEF Inv, NothingMissedSoFar, ToStore
<1> QED
  BY <1>1, TablesInvariance, PTL
=============================================================================

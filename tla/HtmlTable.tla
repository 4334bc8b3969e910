----------------------------- MODULE HtmlTable -----------------------------
(***************************************************************************)
(* internal/pkg/utils/xml.go: finding a table in a page, by a text before  *)
(* it or by its caption, and reading its rows, token by token.  The page   *)
(* is written by Page steps, one token at a time, and the reader takes     *)
(* each token as it is written; what the author of the page meant is kept  *)
(* beside it, to compare.                                                  *)
(*                                                                         *)
(* Tag "td" is td or th, "tbody" is tbody or thead, "p" any other tag.     *)
(* A text token is a word: its number in the page.  A tidy page closes     *)
(* every cell and row; HTML lets the author leave </td> and </tr> out.     *)
(***************************************************************************)
EXTENDS Naturals, SequencesExt

CONSTANTS
  Lookahead,    \* the tokens after <table> in which a caption is looked for: 10
  Skips,        \* the values of skip that callers pass
  MaxTokens,    \* bound on the tokens of a page
  MaxTables     \* bound on its tables

ASSUME LookaheadNat == Lookahead \in Nat \ {0}
ASSUME SkipsNat == Skips \subseteq Nat
ASSUME BoundsNat == MaxTokens \in Nat /\ MaxTables \in Nat

VARIABLES
  (* the page and its author *)
  tidy,       \* the author closes cells and rows
  tokens,     \* the number of tokens written
  place,      \* "outside", "fresh" after <table>, "table", "caption", "row", "cell"
  tables,     \* the number of tables opened
  written,    \* the rows of the last table, as sequences of cells
  marked,     \* by text: the tables opened after the marker, -1 before it;
              \* by caption: the caption that is open holds the marker
  wanted,     \* the number of the table the caller means, 0 when there is none yet
  bare,       \* a table without caption, body and rows was closed
  (* the reader *)
  by,         \* the function called: "text" or "caption"
  skip,       \* its argument: tables to pass over
  mode,       \* the loop the reader is in
  count,      \* tablesFound, or the tokens left of the caption's ten
  hit,        \* the caption read so far contains the text
  cell, row,  \* what is being read: sb, and row
  header, rows,     \* the Table
  at          \* the table that is read

pageVars   == <<tidy, tokens, place, tables, written, marked, wanted, bare>>
readerVars == <<by, skip, mode, count, hit, cell, row, header, rows, at>>
vars == <<pageVars, readerVars>>

Before == -1

Init ==
  /\ tidy \in BOOLEAN
  /\ tokens = 0 /\ place = "outside" /\ tables = 0 /\ written = <<>>
  /\ by \in {"text", "caption"}
  /\ skip \in IF by = "text" THEN Skips ELSE {0}
  /\ marked = IF by = "text" THEN Before ELSE 0
  /\ wanted = 0 /\ bare = FALSE
  /\ mode = "seek" /\ count = 0 /\ hit = FALSE
  /\ cell = <<>> /\ row = <<>> /\ header = <<>> /\ rows = <<>> /\ at = 0

-----------------------------------------------------------------------------
(* The reader, on the next token *)

Start(tag)   == [kind |-> "start", name |-> tag]
End(tag)     == [kind |-> "end", name |-> tag]
Text(mark)   == [kind |-> "text", name |-> IF mark THEN "mark" ELSE "other"]
Blank        == [kind |-> "text", name |-> "blank"]
EOF          == [kind |-> "error", name |-> "EOF"]

IsText(t) == t.kind = "text"
Word      == tokens + 1              \* the token that is being written

UnchangedTable == UNCHANGED <<cell, row, header, rows>>
Stays(m) == mode' = m /\ UNCHANGED <<count, hit, at>>

\* FindTokenizedNthTableByTextBeforeTable, first loop: to the text.
SeekText(t) ==
  /\ by = "text" /\ mode = "seek"
  /\ Stays(IF t = Text(TRUE) THEN "find" ELSE IF t = EOF THEN "failed" ELSE "seek")
  /\ UnchangedTable

\* Faulty variant: a table is counted before it is compared with skip.
FindTableCountFirst(t) ==
  /\ mode = "find"
  /\ \/ /\ t = Start("table") /\ count + 1 = skip
        /\ mode' = "table" /\ at' = tables + 1 /\ UNCHANGED <<count, hit>>
     \/ /\ t = Start("table") /\ count + 1 # skip
        /\ count' = count + 1 /\ UNCHANGED <<mode, hit, at>>
     \/ /\ t # Start("table")
        /\ Stays(IF t = EOF THEN "failed" ELSE "find")
  /\ UnchangedTable

\* Second loop: to the table after skip others.
FindTable(t) ==
  /\ mode = "find"
  /\ \/ /\ t = Start("table") /\ count = skip
        /\ mode' = "table" /\ at' = tables + 1 /\ UNCHANGED <<count, hit>>
     \/ /\ t = Start("table") /\ count # skip
        /\ count' = count + 1 /\ UNCHANGED <<mode, hit, at>>
     \/ /\ t # Start("table")
        /\ Stays(IF t = EOF THEN "failed" ELSE "find")
  /\ UnchangedTable

\* FindTokenizedTableByTextInCaption: to the next table.
SeekTable(t) ==
  /\ by = "caption" /\ mode = "seek"
  /\ IF t = Start("table")
     THEN mode' = "lookahead" /\ count' = Lookahead /\ UNCHANGED <<hit, at>>
     ELSE Stays(IF t = EOF THEN "failed" ELSE "seek")
  /\ UnchangedTable

\* Faulty variant: nothing stops the search for a caption but a row or a caption.
LookForCaptionForever(t) ==
  /\ mode = "lookahead"
  /\ \/ /\ t = Start("caption")
        /\ mode' = "caption" /\ hit' = FALSE /\ UNCHANGED <<count, at>>
     \/ /\ t \in {Start("tbody"), Start("tr"), EOF}
        /\ Stays(IF t = EOF THEN "failed" ELSE "seek")
     \/ /\ t \notin {Start("caption"), Start("tbody"), Start("tr"), EOF}
        /\ count' = count - 1
        /\ UNCHANGED <<mode, hit, at>>
  /\ UnchangedTable

\* tableHasCaptionWithText: a caption within the next few tokens.
LookForCaption(t) ==
  /\ mode = "lookahead"
  /\ \/ /\ t = Start("caption")
        /\ mode' = "caption" /\ hit' = FALSE /\ UNCHANGED <<count, at>>
     \/ /\ t \in {Start("tbody"), Start("tr")}
        /\ Stays("seek")
     \/ /\ t = EOF
        /\ Stays("failed")
     \/ /\ t \notin {Start("caption"), Start("tbody"), Start("tr"), EOF}
        /\ count' = count - 1
        /\ mode' = IF count = 1 THEN "seek" ELSE "lookahead"
        /\ UNCHANGED <<hit, at>>
  /\ UnchangedTable

\* extractTextFromCaption, and the test on its text; at the end of the page the
\* text read so far is tested, and the table found is empty.
ReadCaption(t) ==
  /\ mode = "caption"
  /\ IF t = End("caption") \/ t = EOF
     THEN /\ mode' = IF ~hit THEN IF t = EOF THEN "failed" ELSE "seek"
                     ELSE IF t = EOF THEN "done" ELSE "table"
          /\ at' = IF hit THEN tables ELSE at
          /\ UNCHANGED <<count, hit>>
     ELSE hit' = (hit \/ t = Text(TRUE)) /\ UNCHANGED <<mode, count, at>>
  /\ UnchangedTable

\* Faulty variant: a row without cells is kept.
AddAnyRow(r) ==
  IF header = <<>> THEN header' = r /\ UNCHANGED rows
  ELSE rows' = Append(rows, r) /\ UNCHANGED header

\* addRowToTable, when the row has a cell.
AddRow(r) ==
  IF r = <<>> THEN UNCHANGED <<header, rows>>
  ELSE IF header = <<>> THEN header' = r /\ UNCHANGED rows
  ELSE rows' = Append(rows, r) /\ UNCHANGED header

\* ParseTable: between the rows.
BetweenRows(t) ==
  /\ mode = "table"
  /\ Stays(IF t = Start("tr") THEN "row" ELSE IF t \in {End("table"), EOF} THEN "done" ELSE "table")
  /\ row' = <<>>
  /\ UNCHANGED <<cell, header, rows>>

\* Faulty variant: the row a </table> cuts off is dropped.
InRowToTr(t) ==
  /\ mode = "row"
  /\ \/ /\ t = Start("td")
        /\ Stays("cell") /\ cell' = <<>> /\ UNCHANGED <<row, header, rows>>
     \/ /\ t = End("tr")
        /\ Stays("table") /\ AddRow(row) /\ UNCHANGED <<cell, row>>
     \/ /\ t \in {End("table"), EOF}
        /\ Stays("done") /\ UnchangedTable
     \/ /\ t \notin {Start("td"), End("tr"), End("table"), EOF}
        /\ Stays("row") /\ UnchangedTable

\* parseTableRow.
InRow(t) ==
  /\ mode = "row"
  /\ \/ /\ t = Start("td")
        /\ Stays("cell") /\ cell' = <<>> /\ UNCHANGED <<row, header, rows>>
     \/ /\ t = End("tr")
        /\ Stays("table") /\ AddRow(row) /\ UNCHANGED <<cell, row>>
     \/ /\ t \in {End("table"), EOF}
        /\ Stays("done") /\ AddRow(row) /\ UNCHANGED <<cell, row>>
     \/ /\ t \notin {Start("td"), End("tr"), End("table"), EOF}
        /\ Stays("row") /\ UnchangedTable

\* sb.Write, and NormalizeSpaces at the end: blanks vanish.
WithText(t) == IF t = Blank THEN cell ELSE Append(cell, Word)

\* Faulty variant: only a </td> ends a cell.
InCellToTd(t) ==
  /\ mode = "cell"
  /\ \/ /\ IsText(t)
        /\ Stays("cell") /\ cell' = WithText(t) /\ UNCHANGED <<row, header, rows>>
     \/ /\ t = End("td")
        /\ Stays("row") /\ row' = Append(row, cell) /\ UNCHANGED <<cell, header, rows>>
     \/ /\ t = EOF
        /\ Stays("done") /\ AddRow(Append(row, cell)) /\ UNCHANGED <<cell, row>>
     \/ /\ ~IsText(t) /\ t \notin {End("td"), EOF}
        /\ Stays("cell") /\ UnchangedTable

\* extractTextFromTd: only text and end tags count; </tr> ends the cell, but
\* leaves the row open.
InCell(t) ==
  /\ mode = "cell"
  /\ \/ /\ IsText(t)
        /\ Stays("cell") /\ cell' = WithText(t) /\ UNCHANGED <<row, header, rows>>
     \/ /\ t \in {End("td"), End("tr")}
        /\ Stays("row") /\ row' = Append(row, cell) /\ UNCHANGED <<cell, header, rows>>
     \/ /\ t \in {End("table"), EOF}
        /\ Stays("done") /\ AddRow(Append(row, cell)) /\ UNCHANGED <<cell, row>>
     \/ /\ ~IsText(t) /\ t \notin {End("td"), End("tr"), End("table"), EOF}
        /\ Stays("cell") /\ UnchangedTable

Read(t) ==
  /\ \/ SeekText(t)
     \/ FindTable(t)
     \/ SeekTable(t)
     \/ LookForCaption(t)
     \/ ReadCaption(t)
     \/ BetweenRows(t)
     \/ InRow(t)
     \/ InCell(t)
  /\ UNCHANGED <<by, skip>>

-----------------------------------------------------------------------------
(* The author: one token of the page, and the reader takes it *)

Write(t) ==
  /\ mode \notin {"done", "failed"}
  /\ tokens < MaxTokens
  /\ tokens' = tokens + 1
  /\ Read(t)
  /\ UNCHANGED tidy

InTable == {"fresh", "table"} \cup (IF tidy THEN {} ELSE {"row", "cell"})

\* The last row that was written, with a cell or a word more.
LastRow == written[Len(written)]
WithCell == [written EXCEPT ![Len(written)] = Append(@, <<>>)]
WithWord == [written EXCEPT ![Len(written)][Len(LastRow)] = Append(@, Word)]

\* The text searched for counts wherever it stands, unless a caption is asked for.
Marks(mark) == IF mark /\ by = "text" /\ marked = Before THEN marked' = 0
               ELSE IF mark /\ place = "caption" /\ by = "caption" THEN marked' = 1
               ELSE UNCHANGED marked

WriteText(mark) ==
  /\ place \in {"outside", "caption", "cell"}
  /\ Write(Text(mark))
  /\ Marks(mark)
  /\ written' = IF place = "cell" THEN WithWord ELSE written
  /\ UNCHANGED <<place, tables, wanted, bare>>

\* Between the tags of a table there are only blanks.
WriteBlank ==
  /\ place \in {"table", "row"}
  /\ Write(Blank)
  /\ UNCHANGED <<place, tables, written, marked, wanted, bare>>

\* A tag that means nothing to a table.
WriteOther ==
  /\ place \in {"outside", "cell"}
  /\ Write(Start("p"))
  /\ UNCHANGED <<place, tables, written, marked, wanted, bare>>

OpenTable ==
  /\ place = "outside" /\ tables < MaxTables
  /\ Write(Start("table"))
  /\ place' = "fresh" /\ tables' = tables + 1 /\ written' = <<>>
  /\ marked' = IF by = "text" THEN IF marked = Before THEN Before ELSE marked + 1 ELSE 0
  /\ wanted' = IF by = "text" /\ marked = skip THEN tables + 1 ELSE wanted
  /\ UNCHANGED bare

OpenCaption ==
  /\ place = "fresh"
  /\ Write(Start("caption"))
  /\ place' = "caption"
  /\ UNCHANGED <<tables, written, marked, wanted, bare>>

CaptionIsWanted ==
  wanted' = IF by = "caption" /\ place = "caption" /\ marked = 1 /\ wanted = 0 THEN tables ELSE wanted

CloseCaption ==
  /\ place = "caption"
  /\ Write(End("caption"))
  /\ place' = "table"
  /\ CaptionIsWanted
  /\ UNCHANGED <<tables, written, marked, bare>>

OpenBody ==
  /\ place = "fresh"
  /\ Write(Start("tbody"))
  /\ place' = "table"
  /\ UNCHANGED <<tables, written, marked, wanted, bare>>

OpenRow ==
  /\ place \in InTable
  /\ Write(Start("tr"))
  /\ place' = "row" /\ written' = Append(written, <<>>)
  /\ UNCHANGED <<tables, marked, wanted, bare>>

OpenCell ==
  /\ place = "row" \/ (~tidy /\ place = "cell")
  /\ Write(Start("td"))
  /\ place' = "cell" /\ written' = WithCell
  /\ UNCHANGED <<tables, marked, wanted, bare>>

CloseCell ==
  /\ place = "cell"
  /\ Write(End("td"))
  /\ place' = "row"
  /\ UNCHANGED <<tables, written, marked, wanted, bare>>

CloseRow ==
  /\ place = "row" \/ (~tidy /\ place = "cell")
  /\ Write(End("tr"))
  /\ place' = "table"
  /\ UNCHANGED <<tables, written, marked, wanted, bare>>

CloseTable ==
  /\ place \in InTable
  /\ Write(End("table"))
  /\ place' = "outside"
  /\ bare' = (bare \/ place = "fresh")
  /\ UNCHANGED <<tables, written, marked, wanted>>

\* The page ends here, or is cut off.
EndPage ==
  /\ mode \notin {"done", "failed"}
  /\ Read(EOF)
  /\ CaptionIsWanted
  /\ UNCHANGED <<tidy, tokens, place, tables, written, marked, bare>>

\* The reader has returned.
Returned == mode \in {"done", "failed"} /\ UNCHANGED vars

Next ==
  \/ \E mark \in BOOLEAN : WriteText(mark)
  \/ WriteBlank
  \/ WriteOther
  \/ OpenTable
  \/ OpenCaption
  \/ CloseCaption
  \/ OpenBody
  \/ OpenRow
  \/ OpenCell
  \/ CloseCell
  \/ CloseRow
  \/ CloseTable
  \/ EndPage
  \/ Returned

Spec == Init /\ [][Next]_vars

-----------------------------------------------------------------------------
(* Properties *)

Reading == mode \in {"table", "row", "cell"}

\* Type invariant.
TypeOK ==
  /\ tokens \in 0 .. MaxTokens /\ tables \in 0 .. MaxTables
  /\ place \in {"outside", "fresh", "table", "caption", "row", "cell"}
  /\ mode \in {"seek", "find", "lookahead", "caption", "table", "row", "cell", "done", "failed"}
  /\ count \in Nat /\ (mode = "find" => count <= skip) /\ (mode = "lookahead" => count \in 1 .. Lookahead)
  /\ wanted \in 0 .. tables /\ at \in 0 .. tables
  /\ Reading => at # 0

\* The reader takes the table the caller means, and no other, and fails only
\* when the page has none: a marker in a cell or a table passed over do not
\* mislead it.  The exception is a caption behind a table with nothing in it:
\* the search for a caption of that one may run over the next <table>.
RightTable ==
  by = "text" \/ ~bare =>
    /\ Reading \/ mode = "done" => at = wanted
    /\ mode = "failed" => wanted = 0

\* The reader returns with the </table> of its table: it never runs on into
\* what follows, whatever end tags the author left out.
StopsWithTable ==
  Reading => at = tables /\ place # "outside"

TheTable == (IF header = <<>> THEN <<>> ELSE <<header>>) \o rows

\* The rows that have a cell.  (A recursive function, like FlattenSeq: the provers
\* do not have the definition of SelectSeq.)
WithCells(rs) ==
  LET upTo[n \in 0 .. Len(rs)] ==
        IF n = 0 THEN <<>> ELSE IF rs[n] = <<>> THEN upTo[n - 1] ELSE Append(upTo[n - 1], rs[n])
  IN  upTo[Len(rs)]

\* From a tidy page, whole or cut off anywhere, the reader returns the rows as
\* they were written, cell by cell, without the empty ones; the first is the header.
RowsAsWritten ==
  tidy /\ mode = "done" => TheTable = WithCells(written)

WordsOf(t) == FlattenSeq(FlattenSeq(t))

\* Where end tags are left out cells and rows may run together, but no word of
\* a cell is lost, and none comes in from elsewhere.
WordsKept == mode = "done" => WordsOf(TheTable) = WordsOf(written)
=============================================================================

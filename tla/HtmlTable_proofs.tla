------------------------- MODULE HtmlTable_proofs -------------------------
(***************************************************************************)
(* Proofs about HtmlTable, for pages of any length, any number of tables,  *)
(* and any Lookahead.  SeekInv says where the reader is in the page;       *)
(* BodyInv what it has read of the table.                                  *)
(***************************************************************************)
EXTENDS HtmlTable, SequenceLemmas

(* The tokens *)

\* Different tokens are different, and only texts are text.
LEMMA TokensDiffer ==
  /\ \A a, b : Start(a) # End(b) /\ Start(a) # EOF /\ End(a) # EOF
  /\ \A a, b : (Start(a) = Start(b) <=> a = b) /\ (End(a) = End(b) <=> a = b)
  /\ \A a, m : Start(a) # Text(m) /\ End(a) # Text(m) /\ Start(a) # Blank /\ End(a) # Blank
  /\ \A m : Text(m) # EOF /\ IsText(Text(m)) /\ Text(m) # Blank
  /\ Text(TRUE) # Text(FALSE)
  /\ Blank # EOF /\ IsText(Blank) /\ ~IsText(EOF)
  /\ \A a : ~IsText(Start(a)) /\ ~IsText(End(a))
BY DEF Start, End, Text, Blank, EOF, IsText
-----------------------------------------------------------------------------
(* Finding the table *)

\* The variables that steer keep their types.
Kinds ==
  /\ by \in {"text", "caption"} /\ skip \in Nat
  /\ tokens \in 0 .. MaxTokens /\ tables \in 0 .. MaxTables
  /\ place \in {"outside", "fresh", "table", "caption", "row", "cell"}
  /\ mode \in {"seek", "find", "lookahead", "caption", "table", "row", "cell", "done", "failed"}
  /\ marked \in Nat \cup {Before} /\ wanted \in Nat /\ at \in Nat /\ count \in Nat

\* A search by text has not passed the marker, or counts the tables behind it,
\* or has gone into the one the caller means.
TextSearch ==
  by = "text" =>
    /\ mode \notin {"lookahead", "caption"}
    /\ mode = "seek" => marked = Before /\ count = 0
    /\ mode = "find" => marked = count /\ count <= skip
    /\ mode \in {"seek", "find", "failed"} => wanted = 0
    /\ Reading => marked > skip
    /\ Reading \/ mode = "done" => at = wanted

\* A search by caption looks for one only at the head of a table, and reads the
\* one that is being written.
CaptionSearch ==
  by = "caption" =>
    /\ mode # "find"
    /\ mode = "lookahead" => count \in 1 .. Lookahead
    /\ mode = "caption" => place = "caption"

\* Unless a table without rows misled it, it is in step with the page.
CaptionInStep ==
  by = "caption" /\ ~bare =>
    /\ mode = "lookahead" => place = "fresh" /\ marked = 0
    /\ mode = "caption" => (hit <=> marked = 1)
    /\ mode = "seek" \/ Reading => place \notin {"fresh", "caption"}
    /\ mode \in {"seek", "lookahead", "caption", "failed"} => wanted = 0
    /\ Reading \/ mode = "done" => at = wanted /\ wanted # 0

\* While the table is read the page is in it.
InTheTable ==
  /\ place # "outside" => tables # 0
  /\ wanted <= tables /\ at <= tables
  /\ Reading => at = tables /\ place # "outside"

SeekInv == Kinds /\ TextSearch /\ CaptionSearch /\ CaptionInStep /\ InTheTable

\* A new reader, before the page.
LEMMA InitSeek == Init => SeekInv
BY SkipsNat, BoundsNat DEF Init, SeekInv, Kinds, TextSearch, CaptionSearch, CaptionInStep, InTheTable, Reading, Before

\* The first loop of a search by text ends at the text, or with the page.
LEMMA SeekTextStep ==
  ASSUME NEW t, SeekText(t)
  PROVE  /\ by = "text" /\ mode = "seek" /\ UNCHANGED <<count, hit, at>>
         /\ t = Text(TRUE) => mode' = "find"
         /\ t = EOF => mode' = "failed"
         /\ t # Text(TRUE) /\ t # EOF => mode' = "seek"
<1>1. /\ by = "text" /\ mode = "seek" /\ UNCHANGED <<count, hit, at>>
      /\ mode' = IF t = Text(TRUE) THEN "find" ELSE IF t = EOF THEN "failed" ELSE "seek"
  BY DEF SeekText, Stays
<1>2. EOF # Text(TRUE)
  BY DEF EOF, Text
<1> QED BY <1>1, <1>2

\* Only a text with the marker is the text searched for.
LEMMA NotMarks ==
  /\ \A a : Start(a) # Text(TRUE) /\ End(a) # Text(TRUE)
  /\ Blank # Text(TRUE) /\ Text(FALSE) # Text(TRUE)
BY DEF Start, End, Text, Blank

\* The search by text goes on.
SearchesOn == by = "text" /\ mode = "seek" /\ mode' = "seek" /\ UNCHANGED <<count, hit, at>>

\* It does past every token but the text searched for and the end of the page.
LEMMA SeekPasses ==
  /\ \A a : SeekText(Start(a)) \/ SeekText(End(a)) => SearchesOn
  /\ SeekText(Blank) \/ SeekText(Text(FALSE)) => SearchesOn
  /\ SeekText(EOF) => by = "text" /\ mode = "seek" /\ mode' = "failed" /\ UNCHANGED <<count, hit, at>>
<1>1. \A a : Start(a) # EOF /\ End(a) # EOF
  BY TokensDiffer
<1>2. Blank # EOF /\ Text(FALSE) # EOF
  BY TokensDiffer
<1>3. ASSUME NEW t, SeekText(t), t # Text(TRUE), t # EOF PROVE SearchesOn
  BY <1>3, SeekTextStep DEF SearchesOn
<1> QED BY <1>1, <1>2, <1>3, SeekTextStep, NotMarks

\* Of a text in a caption the reader keeps whether it is the one searched for.
LEMMA CaptionStep ==
  ASSUME NEW mark \in BOOLEAN, ReadCaption(Text(mark))
  PROVE  /\ mode = "caption" /\ UNCHANGED <<mode, count, at>>
         /\ hit' <=> hit \/ mark
<1>1. Text(mark) # End("caption") /\ Text(mark) # EOF
  BY TokensDiffer
<1>2. hit' = (hit \/ Text(mark) = Text(TRUE)) /\ UNCHANGED <<mode, count, at>> /\ mode = "caption"
  BY <1>1 DEF ReadCaption
<1>3. CASE mark = TRUE
  BY <1>2, <1>3
<1>4. CASE mark = FALSE
  <2>1. Text(mark) # Text(TRUE)
    BY <1>4, TokensDiffer
  <2> QED BY <2>1, <1>2, <1>4
<1> QED BY <1>3, <1>4

\* What the author of the page keeps of a text.
LEMMA MarksStep ==
  ASSUME NEW mark \in BOOLEAN, Marks(mark)
  PROVE  marked' = IF mark /\ by = "text" /\ marked = Before THEN 0
                   ELSE IF mark /\ place = "caption" /\ by = "caption" THEN 1
                   ELSE marked
BY DEF Marks

\* </table>: whatever the reader was doing, it is not in a table any more.
LEMMA CloseTableSeek ==
  ASSUME SeekInv, CloseTable
  PROVE  SeekInv'
<1>0. by' = by /\ skip' = skip /\ place \in InTable /\ place' = "outside"
      /\ UNCHANGED <<tables, written, marked, wanted>> /\ Read(End("table")) /\ tokens' = tokens + 1 /\ tokens < MaxTokens
  BY DEF CloseTable, Write, Read
<1>1. ~bare' => ~bare /\ place # "fresh"
  BY DEF CloseTable
<1> USE LookaheadNat, BoundsNat, TokensDiffer
    DEF SeekInv, Kinds, TextSearch, CaptionSearch, CaptionInStep, InTheTable, Reading, Before,
        InTable, Stays
<1>2. CASE SeekText(End("table"))
  <2>0. End("table") # Text(TRUE) /\ End("table") # EOF
    BY NotMarks
  <2>1. mode' = "seek" /\ by = "text" /\ mode = "seek" /\ UNCHANGED <<count, hit, at>>
    BY <1>2, <2>0, SeekTextStep
  <2> QED BY <2>1, <1>0, <1>1
<1>3. CASE FindTable(End("table"))
  BY <1>0, <1>1, <1>3 DEF FindTable
<1>4. CASE SeekTable(End("table"))
  BY <1>0, <1>1, <1>4 DEF SeekTable
<1>5. CASE LookForCaption(End("table"))
  BY <1>0, <1>1, <1>5 DEF LookForCaption
<1>6. CASE ReadCaption(End("table"))
  BY <1>0, <1>1, <1>6 DEF ReadCaption
<1>7. CASE BetweenRows(End("table")) \/ InRow(End("table")) \/ InCell(End("table"))
  BY <1>0, <1>1, <1>7 DEF BetweenRows, InRow, InCell
<1> QED BY <1>0, <1>2, <1>3, <1>4, <1>5, <1>6, <1>7 DEF Read

\* A text: a search by text and the reader of a caption look at it.
LEMMA WriteTextSeek ==
  ASSUME SeekInv, NEW mark \in BOOLEAN, WriteText(mark)
  PROVE  SeekInv'
<1> USE LookaheadNat, BoundsNat, TokensDiffer
    DEF SeekInv, Kinds, TextSearch, CaptionSearch, CaptionInStep, InTheTable, Reading, Before,
        InTable, Stays
<1>0. Read(Text(mark)) /\ by' = by /\ skip' = skip /\ tokens' = tokens + 1 /\ tokens < MaxTokens
      /\ place \in {"outside", "caption", "cell"}
      /\ UNCHANGED <<place, tables, wanted, bare>> /\ Marks(mark)
  BY DEF WriteText, Write, Read
<1>1. marked' = IF mark /\ by = "text" /\ marked = Before THEN 0
                   ELSE IF mark /\ place = "caption" /\ by = "caption" THEN 1
                   ELSE marked
  BY <1>0, MarksStep
<1>2. CASE SeekText(Text(mark))
  <2>0. by = "text" /\ mode = "seek" /\ UNCHANGED <<count, hit, at>>
    BY <1>2, SeekTextStep
  <2>1. CASE mark = TRUE
    <3>0. SeekText(Text(TRUE))
      BY <1>2, <2>1
    <3>1. mode' = "find"
      BY <3>0, SeekTextStep
    <3>2. marked' = 0
      BY <1>1, <2>0, <2>1
    <3> QED BY <3>1, <3>2, <2>0, <1>0
  <2>2. CASE mark = FALSE
    <3>1. SeekText(Text(FALSE)) /\ Text(FALSE) # Text(TRUE) /\ Text(FALSE) # EOF
      BY <1>2, <2>2, NotMarks
    <3>2. mode' = "seek"
      BY <3>1, SeekTextStep
    <3>3. marked' = marked
      BY <1>1, <2>0, <2>2
    <3> QED BY <3>2, <3>3, <2>0, <1>0
  <2> QED BY <2>1, <2>2
<1>3. CASE ReadCaption(Text(mark))
  <2>1. UNCHANGED <<mode, count, at>> /\ mode = "caption"
     BY <1>3, CaptionStep
  <2>2. hit' <=> hit \/ mark
     BY <1>3, CaptionStep
  <2>3. by = "caption" /\ place = "caption"
     BY <2>1
  <2>4. CASE mark = TRUE
    <3>1. hit' /\ marked' = 1
      BY <2>2, <2>3, <2>4, <1>1
    <3> QED BY <3>1, <2>1, <2>3, <1>0
  <2>5. CASE mark = FALSE
    <3>1. (hit' <=> hit) /\ marked' = marked
      BY <2>2, <2>3, <2>5, <1>1
    <3> QED BY <3>1, <2>1, <2>3, <1>0
  <2> QED BY <2>4, <2>5
<1>4. CASE FindTable(Text(mark))
  BY <1>0, <1>1, <1>4 DEF FindTable
<1>5. CASE SeekTable(Text(mark))
  BY <1>0, <1>1, <1>5 DEF SeekTable
<1>6. CASE LookForCaption(Text(mark))
  BY <1>0, <1>1, <1>6 DEF LookForCaption
<1>7. CASE BetweenRows(Text(mark)) \/ InRow(Text(mark)) \/ InCell(Text(mark))
  BY <1>0, <1>1, <1>7 DEF BetweenRows, InRow, InCell
<1> QED BY <1>0, <1>2, <1>3, <1>4, <1>5, <1>6, <1>7 DEF Read

\* Every step keeps the reader where it should be, one loop of the reader at a time.
LEMMA NextSeek == SeekInv /\ [Next]_vars => SeekInv'
<1> SUFFICES ASSUME SeekInv, [Next]_vars PROVE SeekInv'
  OBVIOUS
<1>1. ASSUME NEW mark \in BOOLEAN, WriteText(mark) PROVE SeekInv'
  BY <1>1, WriteTextSeek
<1>2. CASE CloseTable
  BY <1>2, CloseTableSeek
<1> USE LookaheadNat, BoundsNat, TokensDiffer
    DEF SeekInv, Kinds, TextSearch, CaptionSearch, CaptionInStep, InTheTable, Reading, Before,
        Write, InTable, Stays
<1>3. CASE WriteBlank
  <2>1. CASE SeekText(Blank)
    BY <1>3, <2>1, SeekPasses DEF SearchesOn, Read, WriteBlank
  <2>2. CASE FindTable(Blank)
    BY <1>3, <2>2 DEF WriteBlank, Read, FindTable
  <2>3. CASE SeekTable(Blank)
    BY <1>3, <2>3 DEF WriteBlank, Read, SeekTable
  <2>4. CASE LookForCaption(Blank)
    BY <1>3, <2>4 DEF WriteBlank, Read, LookForCaption
  <2>5. CASE ReadCaption(Blank)
    BY <1>3, <2>5 DEF WriteBlank, Read, ReadCaption
  <2>6. CASE BetweenRows(Blank) \/ InRow(Blank) \/ InCell(Blank)
    BY <1>3, <2>6 DEF WriteBlank, Read, BetweenRows, InRow, InCell
  <2> QED BY <1>3, <2>1, <2>2, <2>3, <2>4, <2>5, <2>6 DEF WriteBlank, Read
<1>4. CASE WriteOther
  <2>1. CASE SeekText(Start("p"))
    BY <1>4, <2>1, SeekPasses DEF SearchesOn, Read, WriteOther
  <2>2. CASE FindTable(Start("p"))
    BY <1>4, <2>2 DEF WriteOther, Read, FindTable
  <2>3. CASE SeekTable(Start("p"))
    BY <1>4, <2>3 DEF WriteOther, Read, SeekTable
  <2>4. CASE LookForCaption(Start("p"))
    BY <1>4, <2>4 DEF WriteOther, Read, LookForCaption
  <2>5. CASE ReadCaption(Start("p"))
    BY <1>4, <2>5 DEF WriteOther, Read, ReadCaption
  <2>6. CASE BetweenRows(Start("p")) \/ InRow(Start("p")) \/ InCell(Start("p"))
    BY <1>4, <2>6 DEF WriteOther, Read, BetweenRows, InRow, InCell
  <2> QED BY <1>4, <2>1, <2>2, <2>3, <2>4, <2>5, <2>6 DEF WriteOther, Read
<1>5. CASE OpenTable
  <2>1. CASE SeekText(Start("table"))
    BY <1>5, <2>1, SeekPasses DEF SearchesOn, Read, OpenTable
  <2>2. CASE FindTable(Start("table"))
    BY <1>5, <2>2 DEF OpenTable, Read, FindTable
  <2>3. CASE SeekTable(Start("table"))
    BY <1>5, <2>3 DEF OpenTable, Read, SeekTable
  <2>4. CASE LookForCaption(Start("table"))
    BY <1>5, <2>4 DEF OpenTable, Read, LookForCaption
  <2>5. CASE ReadCaption(Start("table"))
    BY <1>5, <2>5 DEF OpenTable, Read, ReadCaption
  <2>6. CASE BetweenRows(Start("table")) \/ InRow(Start("table")) \/ InCell(Start("table"))
    BY <1>5, <2>6 DEF OpenTable, Read, BetweenRows, InRow, InCell
  <2> QED BY <1>5, <2>1, <2>2, <2>3, <2>4, <2>5, <2>6 DEF OpenTable, Read
<1>6. CASE OpenCaption
  <2>1. CASE SeekText(Start("caption"))
    BY <1>6, <2>1, SeekPasses DEF SearchesOn, Read, OpenCaption
  <2>2. CASE FindTable(Start("caption"))
    BY <1>6, <2>2 DEF OpenCaption, Read, FindTable
  <2>3. CASE SeekTable(Start("caption"))
    BY <1>6, <2>3 DEF OpenCaption, Read, SeekTable
  <2>4. CASE LookForCaption(Start("caption"))
    BY <1>6, <2>4 DEF OpenCaption, Read, LookForCaption
  <2>5. CASE ReadCaption(Start("caption"))
    BY <1>6, <2>5 DEF OpenCaption, Read, ReadCaption
  <2>6. CASE BetweenRows(Start("caption")) \/ InRow(Start("caption")) \/ InCell(Start("caption"))
    BY <1>6, <2>6 DEF OpenCaption, Read, BetweenRows, InRow, InCell
  <2> QED BY <1>6, <2>1, <2>2, <2>3, <2>4, <2>5, <2>6 DEF OpenCaption, Read
<1>7. CASE CloseCaption
  <2>1. CASE SeekText(End("caption"))
    BY <1>7, <2>1, SeekPasses DEF SearchesOn, Read, CloseCaption, CaptionIsWanted
  <2>2. CASE FindTable(End("caption"))
    BY <1>7, <2>2 DEF CloseCaption, CaptionIsWanted, Read, FindTable
  <2>3. CASE SeekTable(End("caption"))
    BY <1>7, <2>3 DEF CloseCaption, CaptionIsWanted, Read, SeekTable
  <2>4. CASE LookForCaption(End("caption"))
    BY <1>7, <2>4 DEF CloseCaption, CaptionIsWanted, Read, LookForCaption
  <2>5. CASE ReadCaption(End("caption"))
    BY <1>7, <2>5 DEF CloseCaption, CaptionIsWanted, Read, ReadCaption
  <2>6. CASE BetweenRows(End("caption")) \/ InRow(End("caption")) \/ InCell(End("caption"))
    BY <1>7, <2>6 DEF CloseCaption, CaptionIsWanted, Read, BetweenRows, InRow, InCell
  <2> QED BY <1>7, <2>1, <2>2, <2>3, <2>4, <2>5, <2>6 DEF CloseCaption, Read
<1>8. CASE OpenBody
  <2>1. CASE SeekText(Start("tbody"))
    BY <1>8, <2>1, SeekPasses DEF SearchesOn, Read, OpenBody
  <2>2. CASE FindTable(Start("tbody"))
    BY <1>8, <2>2 DEF OpenBody, Read, FindTable
  <2>3. CASE SeekTable(Start("tbody"))
    BY <1>8, <2>3 DEF OpenBody, Read, SeekTable
  <2>4. CASE LookForCaption(Start("tbody"))
    BY <1>8, <2>4 DEF OpenBody, Read, LookForCaption
  <2>5. CASE ReadCaption(Start("tbody"))
    BY <1>8, <2>5 DEF OpenBody, Read, ReadCaption
  <2>6. CASE BetweenRows(Start("tbody")) \/ InRow(Start("tbody")) \/ InCell(Start("tbody"))
    BY <1>8, <2>6 DEF OpenBody, Read, BetweenRows, InRow, InCell
  <2> QED BY <1>8, <2>1, <2>2, <2>3, <2>4, <2>5, <2>6 DEF OpenBody, Read
<1>9. CASE OpenRow
  <2>1. CASE SeekText(Start("tr"))
    BY <1>9, <2>1, SeekPasses DEF SearchesOn, Read, OpenRow
  <2>2. CASE FindTable(Start("tr"))
    BY <1>9, <2>2 DEF OpenRow, Read, FindTable
  <2>3. CASE SeekTable(Start("tr"))
    BY <1>9, <2>3 DEF OpenRow, Read, SeekTable
  <2>4. CASE LookForCaption(Start("tr"))
    BY <1>9, <2>4 DEF OpenRow, Read, LookForCaption
  <2>5. CASE ReadCaption(Start("tr"))
    BY <1>9, <2>5 DEF OpenRow, Read, ReadCaption
  <2>6. CASE BetweenRows(Start("tr")) \/ InRow(Start("tr")) \/ InCell(Start("tr"))
    BY <1>9, <2>6 DEF OpenRow, Read, BetweenRows, InRow, InCell
  <2> QED BY <1>9, <2>1, <2>2, <2>3, <2>4, <2>5, <2>6 DEF OpenRow, Read
<1>10. CASE OpenCell
  <2>1. CASE SeekText(Start("td"))
    BY <1>10, <2>1, SeekPasses DEF SearchesOn, Read, OpenCell
  <2>2. CASE FindTable(Start("td"))
    BY <1>10, <2>2 DEF OpenCell, Read, FindTable
  <2>3. CASE SeekTable(Start("td"))
    BY <1>10, <2>3 DEF OpenCell, Read, SeekTable
  <2>4. CASE LookForCaption(Start("td"))
    BY <1>10, <2>4 DEF OpenCell, Read, LookForCaption
  <2>5. CASE ReadCaption(Start("td"))
    BY <1>10, <2>5 DEF OpenCell, Read, ReadCaption
  <2>6. CASE BetweenRows(Start("td")) \/ InRow(Start("td")) \/ InCell(Start("td"))
    BY <1>10, <2>6 DEF OpenCell, Read, BetweenRows, InRow, InCell
  <2> QED BY <1>10, <2>1, <2>2, <2>3, <2>4, <2>5, <2>6 DEF OpenCell, Read
<1>11. CASE CloseCell
  <2>1. CASE SeekText(End("td"))
    BY <1>11, <2>1, SeekPasses DEF SearchesOn, Read, CloseCell
  <2>2. CASE FindTable(End("td"))
    BY <1>11, <2>2 DEF CloseCell, Read, FindTable
  <2>3. CASE SeekTable(End("td"))
    BY <1>11, <2>3 DEF CloseCell, Read, SeekTable
  <2>4. CASE LookForCaption(End("td"))
    BY <1>11, <2>4 DEF CloseCell, Read, LookForCaption
  <2>5. CASE ReadCaption(End("td"))
    BY <1>11, <2>5 DEF CloseCell, Read, ReadCaption
  <2>6. CASE BetweenRows(End("td")) \/ InRow(End("td")) \/ InCell(End("td"))
    BY <1>11, <2>6 DEF CloseCell, Read, BetweenRows, InRow, InCell
  <2> QED BY <1>11, <2>1, <2>2, <2>3, <2>4, <2>5, <2>6 DEF CloseCell, Read
<1>12. CASE CloseRow
  <2>1. CASE SeekText(End("tr"))
    BY <1>12, <2>1, SeekPasses DEF SearchesOn, Read, CloseRow
  <2>2. CASE FindTable(End("tr"))
    BY <1>12, <2>2 DEF CloseRow, Read, FindTable
  <2>3. CASE SeekTable(End("tr"))
    BY <1>12, <2>3 DEF CloseRow, Read, SeekTable
  <2>4. CASE LookForCaption(End("tr"))
    BY <1>12, <2>4 DEF CloseRow, Read, LookForCaption
  <2>5. CASE ReadCaption(End("tr"))
    BY <1>12, <2>5 DEF CloseRow, Read, ReadCaption
  <2>6. CASE BetweenRows(End("tr")) \/ InRow(End("tr")) \/ InCell(End("tr"))
    BY <1>12, <2>6 DEF CloseRow, Read, BetweenRows, InRow, InCell
  <2> QED BY <1>12, <2>1, <2>2, <2>3, <2>4, <2>5, <2>6 DEF CloseRow, Read
<1>13. CASE EndPage
  <2>1. CASE SeekText(EOF)
    BY <1>13, <2>1, SeekPasses DEF SearchesOn, Read, EndPage, CaptionIsWanted
  <2>2. CASE FindTable(EOF)
    BY <1>13, <2>2 DEF EndPage, CaptionIsWanted, Read, FindTable
  <2>3. CASE SeekTable(EOF)
    BY <1>13, <2>3 DEF EndPage, CaptionIsWanted, Read, SeekTable
  <2>4. CASE LookForCaption(EOF)
    BY <1>13, <2>4 DEF EndPage, CaptionIsWanted, Read, LookForCaption
  <2>5. CASE ReadCaption(EOF)
    BY <1>13, <2>5 DEF EndPage, CaptionIsWanted, Read, ReadCaption
  <2>6. CASE BetweenRows(EOF) \/ InRow(EOF) \/ InCell(EOF)
    BY <1>13, <2>6 DEF EndPage, CaptionIsWanted, Read, BetweenRows, InRow, InCell
  <2> QED BY <1>13, <2>1, <2>2, <2>3, <2>4, <2>5, <2>6 DEF EndPage, Read
<1>14. CASE Returned \/ UNCHANGED vars
  BY <1>14 DEF Returned, vars, pageVars, readerVars
<1> QED BY <1>1, <1>2, <1>3, <1>4, <1>5, <1>6, <1>7, <1>8, <1>9, <1>10, <1>11, <1>12, <1>13, <1>14 DEF Next
-----------------------------------------------------------------------------
(* Tables, rows, cells and their words *)

\* A table with one more row, unless that has no cell.
WithRow(t, r) == IF r = <<>> THEN t ELSE Append(t, r)

\* WithCells by its recursion.
LEMMA WithCellsDef ==
  ASSUME NEW S, NEW rs \in Seq(Seq(S))
  PROVE  \E f : /\ f[0] = <<>> /\ \A n \in 0 .. Len(rs) : f[n] \in Seq(Seq(S))
                /\ \A n \in 0 .. Len(rs) - 1 : f[n + 1] = WithRow(f[n], rs[n + 1])
                /\ WithCells(rs) = f[Len(rs)]
<1> DEFINE N == Len(rs)
           X == Seq(Seq(S))
           F(f) == [n \in 0 .. N |-> IF n = 0 THEN <<>> ELSE
                      IF rs[n] = <<>> THEN f[n - 1] ELSE Append(f[n - 1], rs[n])]
           d == CHOOSE f : f = F(f)
           x0 == <<>>
           G == [p \in X \X (1 .. N) |-> WithRow(p[1], rs[p[2]])]
<1>1. N \in Nat /\ \A n \in 1 .. N : rs[n] \in Seq(S)
  BY LenProperties, ElementOfSeq
<1>2. WithCells(rs) = d[N]
  BY DEF WithCells
<1>3. ASSUME NEW t \in X, NEW r \in Seq(S) PROVE WithRow(t, r) \in X
  BY <1>3, AppendProperties DEF WithRow
<1>4. G \in [X \X (1 .. N) -> X] /\ \A x \in X, n \in 1 .. N : G[<<x, n>>] = WithRow(x, rs[n])
  <2> HIDE DEF X, N
  <2>1. ASSUME NEW p \in X \X (1 .. N) PROVE WithRow(p[1], rs[p[2]]) \in X
    BY <1>1, <1>3
  <2> QED
    BY <2>1
<1>5. x0 \in X
  OBVIOUS
<1>6. PICK g : Recursion(g, N, X, x0, G)
  <2> HIDE DEF N, X, x0, G
  <2>1. N \in Nat
    BY <1>1
  <2> QED
    BY <1>4, <1>5, <2>1, RecursionHasSolution
<1>7. /\ g[0] = <<>> /\ \A n \in 0 .. N : g[n] \in X
      /\ \A n \in 0 .. N - 1 : g[n + 1] = G[<<g[n], n + 1>>]
  BY <1>6 DEF Recursion
<1> HIDE DEF G, X, N
<1>8. ASSUME NEW n \in 0 .. N - 1 PROVE g[n + 1] = WithRow(g[n], rs[n + 1])
  <2>1. g[n] \in X /\ n + 1 \in 1 .. N
    BY <1>1, <1>7
  <2>2. G[<<g[n], n + 1>>] = WithRow(g[n], rs[n + 1])
    BY <1>4, <2>1
  <2> QED
    BY <1>7, <2>2
<1> DEFINE h == [n \in 0 .. N |-> g[n]]
<1>9. d = F(d)
  <2>1. ASSUME NEW i \in 0 .. N
        PROVE  h[i] = IF i = 0 THEN <<>> ELSE IF rs[i] = <<>> THEN h[i - 1] ELSE Append(h[i - 1], rs[i])
    <3>1. CASE i = 0
      BY <1>7, <3>1
    <3>2. CASE i # 0
      <4> DEFINE j == i - 1
      <4>1. j \in 0 .. N - 1 /\ j + 1 = i /\ j \in 0 .. N
        BY <1>1, <3>2
      <4> HIDE DEF j
      <4>2. g[i] = WithRow(g[j], rs[i])
        BY <1>8, <4>1
      <4>3. h[i] = g[i] /\ h[j] = g[j]
        BY <4>1
      <4> QED
        BY <3>2, <4>2, <4>3 DEF j, WithRow
    <3> QED
      BY <3>1, <3>2
  <2>2. h = F(h)
    BY <2>1
  <2> HIDE DEF F, h
  <2> QED
    BY <2>2
<1> HIDE DEF d
<1>10. d[0] = <<>>
  BY <1>1, <1>9
<1>11. ASSUME NEW n \in 0 .. N - 1 PROVE d[n + 1] = WithRow(d[n], rs[n + 1])
  <2> DEFINE k == n + 1
  <2>1. k \in 0 .. N /\ k # 0 /\ k - 1 = n
    BY <1>1
  <2> HIDE DEF k
  <2>2. d[k] = IF rs[k] = <<>> THEN d[k - 1] ELSE Append(d[k - 1], rs[k])
    BY <1>9, <2>1
  <2>3. d[k] = WithRow(d[n], rs[k])
    BY <2>1, <2>2 DEF WithRow
  <2> QED
    BY <2>3 DEF k
<1> DEFINE T == {n \in 0 .. N : d[n] \in X}
<1>12. 0 \in T
  BY <1>1, <1>5, <1>10
<1>13. ASSUME NEW n \in 0 .. N - 1, n \in T PROVE n + 1 \in T
  <2>1. n + 1 \in 1 .. N /\ n + 1 \in 0 .. N
    BY <1>1
  <2>2. rs[n + 1] \in Seq(S) /\ d[n] \in X
    BY <1>1, <1>13, <2>1
  <2>3. d[n + 1] \in X
    BY <1>3, <1>11, <2>2
  <2> QED
    BY <2>1, <2>3
<1>14. 0 .. N \subseteq T
  <2> HIDE DEF T
  <2> QED
    BY <1>1, <1>12, <1>13, InductionUpTo
<1>15. \A n \in 0 .. N : d[n] \in X
  BY <1>14
<1> QED
  BY <1>2, <1>10, <1>11, <1>15 DEF N, X

\* One more row is kept if it has a cell.
LEMMA WithCellsAppend ==
  ASSUME NEW S, NEW rs \in Seq(Seq(S)), NEW r \in Seq(S)
  PROVE  /\ WithCells(rs) \in Seq(Seq(S))
         /\ WithCells(Append(rs, r)) = WithRow(WithCells(rs), r)
<1> DEFINE N == Len(rs)
           tt == Append(rs, r)
<1>1. N \in Nat /\ tt \in Seq(Seq(S)) /\ Len(tt) = N + 1 /\ tt[N + 1] = r
      /\ \A i \in 1 .. N : tt[i] = rs[i]
  BY AppendProperties, LenProperties
<1>2. PICK e : /\ e[0] = <<>> /\ \A n \in 0 .. N : e[n + 1] = WithRow(e[n], tt[n + 1])
               /\ WithCells(tt) = e[N + 1]
  <2> HIDE DEF tt
  <2>1. \E f : /\ f[0] = <<>> /\ \A n \in 0 .. Len(tt) : f[n] \in Seq(Seq(S))
               /\ \A n \in 0 .. Len(tt) - 1 : f[n + 1] = WithRow(f[n], tt[n + 1])
               /\ WithCells(tt) = f[Len(tt)]
    BY <1>1, WithCellsDef
  <2>2. Len(tt) - 1 = N
    BY <1>1
  <2> QED
    BY <1>1, <2>1, <2>2
<1>3. PICK d : /\ d[0] = <<>> /\ \A n \in 0 .. N : d[n] \in Seq(Seq(S))
               /\ \A n \in 0 .. N - 1 : d[n + 1] = WithRow(d[n], rs[n + 1])
               /\ WithCells(rs) = d[N]
  BY WithCellsDef
<1> DEFINE T == {n \in 0 .. N : e[n] = d[n]}
<1> HIDE DEF N, tt
<1>4. 0 \in T
  BY <1>1, <1>2, <1>3
<1>5. ASSUME NEW n \in 0 .. N - 1, n \in T PROVE n + 1 \in T
  <2>0. n + 1 \in 1 .. N /\ n + 1 \in 0 .. N /\ n \in 0 .. N
    BY <1>1
  <2>1. tt[n + 1] = rs[n + 1]
    BY <1>1, <2>0
  <2>2. e[n + 1] = WithRow(e[n], tt[n + 1]) /\ d[n + 1] = WithRow(d[n], rs[n + 1])
    BY <1>2, <1>3, <2>0
  <2> QED
    BY <1>5, <2>0, <2>1, <2>2
<1>6. 0 .. N \subseteq T
  <2> HIDE DEF T
  <2> QED
    BY <1>1, <1>4, <1>5, InductionUpTo
<1>7. N \in 0 .. N
  BY <1>1
<1>8. e[N + 1] = WithRow(e[N], tt[N + 1]) /\ e[N] = d[N]
  BY <1>2, <1>6, <1>7
<1> QED
  BY <1>1, <1>2, <1>3, <1>7, <1>8 DEF tt

Words == Seq(Nat)          \* the words of a cell, or of more
Rows  == Seq(Seq(Nat))     \* a row: its cells

\* The words of a table with one more row.
LEMMA WordsOfAppend ==
  ASSUME NEW t \in Seq(Rows), NEW r \in Rows
  PROVE  /\ WordsOf(t) \in Words /\ FlattenSeq(r) \in Words
         /\ WordsOf(Append(t, r)) = WordsOf(t) \o FlattenSeq(r)
         /\ WordsOf(WithRow(t, r)) = WordsOf(t) \o FlattenSeq(r)
<1> DEFINE C == Seq(Nat)
<1>1. FlattenSeq(t) \in Seq(C) /\ FlattenSeq(Append(t, r)) = FlattenSeq(t) \o r
  <2>1. t \in Seq(Seq(C)) /\ r \in Seq(C)
    BY DEF Rows
  <2> HIDE DEF C
  <2> QED
    BY <2>1, FlattenAppend
<1>2. WordsOf(t) \in Words /\ FlattenSeq(r) \in Words
  <2> DEFINE u == FlattenSeq(t)
  <2>1. u \in Seq(Seq(Nat)) /\ r \in Seq(Seq(Nat))
    BY <1>1 DEF Rows
  <2> HIDE DEF u
  <2>2. FlattenSeq(u) \in Seq(Nat) /\ FlattenSeq(r) \in Seq(Nat)
    BY <2>1, FlattenAppend
  <2> QED
    BY <2>2 DEF u, WordsOf, Words
<1>3. WordsOf(Append(t, r)) = WordsOf(t) \o FlattenSeq(r)
  <2> DEFINE u == FlattenSeq(t)
  <2>1. u \in Seq(Seq(Nat)) /\ r \in Seq(Seq(Nat))
    BY <1>1 DEF Rows
  <2> HIDE DEF u
  <2>2. FlattenSeq(u \o r) = FlattenSeq(u) \o FlattenSeq(r)
    BY <2>1, FlattenConcat
  <2> QED
    BY <1>1, <2>2 DEF u, WordsOf
<1>4. CASE r = <<>>
  <2>1. FlattenSeq(r) = <<>>
    BY <1>4 DEF FlattenSeq
  <2>2. WordsOf(t) \o <<>> = WordsOf(t)
    BY <1>2, ConcatEmptySeq DEF Words
  <2> QED
    BY <1>2, <1>3, <1>4, <2>1, <2>2 DEF WithRow
<1>5. CASE r # <<>>
  BY <1>2, <1>3, <1>5 DEF WithRow
<1> QED
  BY <1>4, <1>5

\* A row with one more cell.
LEMMA WordsOfCell ==
  ASSUME NEW r \in Rows, NEW c \in Words, NEW w \in Nat
  PROVE  /\ Append(r, c) \in Rows /\ FlattenSeq(Append(r, c)) = FlattenSeq(r) \o c
         /\ FlattenSeq(Append(r, <<>>)) = FlattenSeq(r)
         /\ Append(c, w) \in Words
         /\ FlattenSeq(Append(r, Append(c, w))) = Append(FlattenSeq(r) \o c, w)
<1>1. <<>> \in Words /\ Append(c, w) \in Words /\ Append(r, c) \in Rows
  BY AppendProperties DEF Words, Rows
<1>2. FlattenSeq(r) \in Words /\ \A x \in Words : FlattenSeq(Append(r, x)) = FlattenSeq(r) \o x
  BY FlattenAppend DEF Words, Rows
<1>3. FlattenSeq(r) \o <<>> = FlattenSeq(r)
  BY <1>2, ConcatEmptySeq DEF Words
<1>4. FlattenSeq(r) \o Append(c, w) = Append(FlattenSeq(r) \o c, w)
  BY <1>2, ConcatAppend DEF Words
<1> QED
  BY <1>1, <1>2, <1>3, <1>4
-----------------------------------------------------------------------------
(* Reading the table *)

\* The types of what is read and written.
BodyTypes ==
  /\ cell \in Words /\ row \in Rows /\ header \in Rows /\ rows \in Seq(Rows)
  /\ header = <<>> => rows = <<>>
  /\ ~Reading /\ mode # "done" => header = <<>> /\ rows = <<>>

\* What the row that is being read holds so far.
RowSoFar == IF mode = "cell" THEN Append(row, cell) ELSE IF mode = "row" THEN row ELSE <<>>

\* The table and the row so far are a table and a row.
LEMMA TableTyped == BodyTypes => TheTable \in Seq(Rows) /\ RowSoFar \in Rows
<1> SUFFICES ASSUME BodyTypes PROVE TheTable \in Seq(Rows) /\ RowSoFar \in Rows
  OBVIOUS
<1>1. TheTable \in Seq(Rows)
  <2>1. <<>> \in Seq(Rows) /\ <<header>> \in Seq(Rows) /\ rows \in Seq(Rows)
    BY DEF BodyTypes
  <2> QED
    BY <2>1, ConcatProperties DEF TheTable
<1>2. RowSoFar \in Rows
  BY AppendProperties DEF BodyTypes, RowSoFar, Rows, Words
<1> QED
  BY <1>1, <1>2

\* addRowToTable appends the row to the table, header and all, unless it is empty.
LEMMA AddRowStep ==
  ASSUME BodyTypes, NEW r \in Rows, AddRow(r)
  PROVE  /\ TheTable' = WithRow(TheTable, r)
         /\ header' \in Rows /\ rows' \in Seq(Rows) /\ (header' = <<>> => rows' = <<>>)
<1>1. CASE r = <<>>
  BY <1>1 DEF AddRow, BodyTypes, TheTable, WithRow
<1>2. CASE r # <<>> /\ header = <<>>
  <2>1. rows = <<>> /\ header' = r /\ rows' = rows
    BY <1>2 DEF AddRow, BodyTypes
  <2>2. <<r>> \o <<>> = <<r>> /\ <<>> \o <<>> = <<>> /\ Append(<<>>, r) = <<r>>
    OBVIOUS
  <2>3. TheTable = <<>> /\ TheTable' = <<r>>
    BY <1>2, <2>1, <2>2 DEF TheTable
  <2> QED
    BY <1>2, <2>1, <2>2, <2>3 DEF WithRow, BodyTypes
<1>3. CASE r # <<>> /\ header # <<>>
  <2>1. header' = header /\ rows' = Append(rows, r)
    BY <1>3 DEF AddRow
  <2>2. <<header>> \in Seq(Rows) /\ rows \in Seq(Rows) /\ header \in Rows
    BY DEF BodyTypes
  <2>3. <<header>> \o Append(rows, r) = Append(<<header>> \o rows, r)
    BY <2>2, ConcatAppend
  <2>4. Append(rows, r) \in Seq(Rows)
    BY <2>2, AppendProperties
  <2> QED
    BY <1>3, <2>1, <2>2, <2>3, <2>4 DEF TheTable, WithRow
<1> QED
  BY <1>1, <1>2, <1>3

\* One loop of the reader takes the token.
LEMMA ReadByMode ==
  ASSUME NEW t, Read(t)
  PROVE  /\ mode = "table" => BetweenRows(t)
         /\ mode = "row" => InRow(t)
         /\ mode = "cell" => InCell(t)
         /\ mode = "caption" => ReadCaption(t)
         /\ mode = "find" => FindTable(t)
         /\ mode = "lookahead" => LookForCaption(t)
         /\ mode = "seek" => SeekText(t) \/ SeekTable(t)
BY DEF Read, SeekText, FindTable, SeekTable, LookForCaption, ReadCaption, BetweenRows, InRow, InCell

\* Until it has found its table the reader keeps an empty one.
LEMMA NotReadingYet ==
  ASSUME NEW t, Read(t), ~Reading, mode # "done"
  PROVE  /\ UNCHANGED <<cell, row, header, rows>>
         /\ mode' \in {"table", "row", "cell"} =>
              /\ mode' = "table"
              /\ (mode = "find" /\ t = Start("table")) \/ (mode = "caption" /\ t = End("caption"))
         /\ mode' = "done" => mode = "caption" /\ t = EOF
<1>1. CASE SeekText(t)
  BY <1>1 DEF SeekText, Stays, UnchangedTable
<1>2. CASE FindTable(t)
  <2>1. mode = "find" /\ UNCHANGED <<cell, row, header, rows>>
    BY <1>2 DEF FindTable, UnchangedTable
  <2>2. CASE t = Start("table")
    <3>1. mode' \in {"table", "find"}
      BY <1>2, <2>2 DEF FindTable
    <3> QED
      BY <2>1, <2>2, <3>1
  <2>3. CASE t # Start("table")
    <3>1. mode' \in {"failed", "find"}
      BY <1>2, <2>3 DEF FindTable, Stays
    <3> QED
      BY <2>1, <3>1
  <2> QED
    BY <2>2, <2>3
<1>3. CASE SeekTable(t)
  BY <1>3 DEF SeekTable, Stays, UnchangedTable
<1>4. CASE LookForCaption(t)
  BY <1>4 DEF LookForCaption, Stays, UnchangedTable
<1>5. CASE ReadCaption(t)
  BY <1>5 DEF ReadCaption, UnchangedTable
<1> QED
  BY <1>1, <1>2, <1>3, <1>4, <1>5 DEF Read, BetweenRows, InRow, InCell, Reading

\* The types are kept by every token.
LEMMA ReadTypes ==
  ASSUME BodyTypes, tokens \in Nat, NEW t, Read(t)
  PROVE  BodyTypes'
<1>1. CASE mode = "table"
  <2>1. BetweenRows(t)
    BY <1>1, ReadByMode
  <2>2. row' = <<>> /\ UNCHANGED <<cell, header, rows>> /\ mode' \in {"row", "table", "done"}
    BY <2>1 DEF BetweenRows, Stays
  <2>3. <<>> \in Rows
    BY DEF Rows
  <2> QED
    BY <2>2, <2>3 DEF BodyTypes, Reading
<1>2. CASE mode = "row"
  <2>1. InRow(t)
    BY <1>2, ReadByMode
  <2>2. row \in Rows /\ cell \in Words /\ <<>> \in Words
    BY DEF BodyTypes, Words
  <2>3. CASE AddRow(row) /\ mode' \in {"table", "done"} /\ UNCHANGED <<cell, row>>
    BY <2>2, <2>3, AddRowStep DEF BodyTypes, Reading
  <2>4. CASE mode' \in {"row", "cell"} /\ UNCHANGED <<row, header, rows>> /\ cell' \in {cell, <<>>}
    BY <1>2, <2>2, <2>4 DEF BodyTypes, Reading
  <2> QED
    BY <2>1, <2>3, <2>4 DEF InRow, Stays, UnchangedTable
<1>3. CASE mode = "cell"
  <2>1. InCell(t)
    BY <1>3, ReadByMode
  <2>2. row \in Rows /\ cell \in Words /\ Append(row, cell) \in Rows /\ WithText(t) \in Words
    BY AppendProperties DEF BodyTypes, Words, Rows, WithText, Word
  <2>3. CASE AddRow(Append(row, cell)) /\ mode' = "done" /\ UNCHANGED <<cell, row>>
    BY <2>2, <2>3, AddRowStep DEF BodyTypes, Reading
  <2>4. CASE /\ mode' \in {"row", "cell"} /\ UNCHANGED <<header, rows>>
             /\ cell' \in {cell, WithText(t)} /\ row' \in {row, Append(row, cell)}
    BY <1>3, <2>2, <2>4 DEF BodyTypes, Reading
  <2> QED
    BY <2>1, <2>3, <2>4 DEF InCell, Stays, UnchangedTable
<1>4. CASE ~Reading /\ mode # "done"
  BY <1>4, NotReadingYet DEF BodyTypes, Reading
<1> QED
  BY <1>1, <1>2, <1>3, <1>4 DEF Read, SeekText, FindTable, SeekTable, LookForCaption, ReadCaption, BetweenRows, InRow, InCell, Reading
-----------------------------------------------------------------------------
(* What a token does to the row that is being read, RowSoFar, and to the table *)

Same == RowSoFar' = RowSoFar /\ TheTable' = TheTable

\* The tags that say nothing about rows, and blanks, change nothing.
LEMMA ReadNothing ==
  ASSUME Reading, NEW t, Read(t),
         \/ t = Blank
         \/ \E tag \in {"p", "caption", "tbody"} : t = Start(tag)
         \/ t = End("caption")
  PROVE  mode' = mode /\ Same
<1>0. t \notin {Start("tr"), Start("td"), End("td"), End("tr"), End("table"), EOF}
  BY TokensDiffer
<1>1. CASE mode = "table"
  BY <1>0, <1>1, ReadByMode DEF BetweenRows, Stays, Same, RowSoFar, TheTable
<1>2. CASE mode = "row"
  BY <1>0, <1>2, ReadByMode DEF InRow, Stays, UnchangedTable, Same, RowSoFar, TheTable
<1>3. CASE mode = "cell"
  <2>1. IsText(t) => t = Blank
    BY TokensDiffer
  <2>2. mode' = "cell" /\ UNCHANGED <<cell, row, header, rows>>
    BY <1>0, <1>3, <2>1, ReadByMode DEF InCell, Stays, UnchangedTable, WithText
  <2> QED
    BY <1>3, <2>2 DEF Same, RowSoFar, TheTable
<1> QED
  BY <1>1, <1>2, <1>3 DEF Reading

\* A word goes into the cell that is being read.
LEMMA ReadWord ==
  ASSUME Reading, NEW mark \in BOOLEAN, Read(Text(mark))
  PROVE  /\ mode' = mode /\ TheTable' = TheTable
         /\ mode # "cell" => RowSoFar' = RowSoFar
         /\ mode = "cell" => RowSoFar' = Append(row, Append(cell, Word))
<1> DEFINE t == Text(mark)
<1>0. /\ t \notin {Start("tr"), Start("td"), End("td"), End("tr"), End("table"), EOF, Blank}
      /\ IsText(t)
  BY TokensDiffer
<1> HIDE DEF t
<1>1. CASE mode = "table"
  <2>1. BetweenRows(t)
    BY <1>1, ReadByMode DEF t
  <2> QED
    BY <1>0, <1>1, <2>1 DEF BetweenRows, Stays, RowSoFar, TheTable
<1>2. CASE mode = "row"
  <2>1. InRow(t)
    BY <1>2, ReadByMode DEF t
  <2> QED
    BY <1>0, <1>2, <2>1 DEF InRow, Stays, UnchangedTable, RowSoFar, TheTable
<1>3. CASE mode = "cell"
  <2>1. InCell(t)
    BY <1>3, ReadByMode DEF t
  <2>2. mode' = "cell" /\ cell' = Append(cell, Word) /\ UNCHANGED <<row, header, rows>>
    BY <1>0, <2>1 DEF InCell, Stays, UnchangedTable, WithText
  <2> QED
    BY <1>3, <2>2 DEF RowSoFar, TheTable
<1> QED
  BY <1>1, <1>2, <1>3 DEF Reading

\* <tr> begins a row between the rows, and means nothing within one.
LEMMA ReadTr ==
  ASSUME Reading, Read(Start("tr"))
  PROVE  Same /\ mode' = IF mode = "table" THEN "row" ELSE mode
<1> DEFINE t == Start("tr")
<1>0. t \notin {Start("td"), End("td"), End("tr"), End("table"), EOF} /\ ~IsText(t)
  BY TokensDiffer
<1>1. CASE mode = "table"
  BY <1>0, <1>1, ReadByMode DEF BetweenRows, Stays, Same, RowSoFar, TheTable
<1>2. CASE mode = "row"
  BY <1>0, <1>2, ReadByMode DEF InRow, Stays, UnchangedTable, Same, RowSoFar, TheTable
<1>3. CASE mode = "cell"
  BY <1>0, <1>3, ReadByMode DEF InCell, Stays, UnchangedTable, Same, RowSoFar, TheTable
<1> QED
  BY <1>1, <1>2, <1>3 DEF Reading

\* <td> begins a cell in a row, and means nothing within one.
LEMMA ReadTd ==
  ASSUME Read(Start("td"))
  PROVE  /\ mode = "row" => /\ mode' = "cell" /\ TheTable' = TheTable
                            /\ RowSoFar' = Append(RowSoFar, <<>>)
         /\ mode = "cell" => mode' = "cell" /\ Same
<1> DEFINE t == Start("td")
<1>0. t \notin {End("td"), End("tr"), End("table"), EOF} /\ ~IsText(t)
  BY TokensDiffer
<1>1. CASE mode = "row"
  BY <1>0, <1>1, ReadByMode DEF InRow, Stays, RowSoFar, TheTable
<1>2. CASE mode = "cell"
  BY <1>0, <1>2, ReadByMode DEF InCell, Stays, UnchangedTable, Same, RowSoFar, TheTable
<1> QED
  BY <1>1, <1>2

\* </td> ends the cell, and so does </tr>, which then does not end the row.
LEMMA ReadEndOfCell ==
  ASSUME mode = "cell", NEW tag \in {"td", "tr"}, Read(End(tag))
  PROVE  mode' = "row" /\ Same
<1>1. ~IsText(End(tag)) /\ End(tag) # End("table") /\ End(tag) # EOF
  BY TokensDiffer
<1>2. InCell(End(tag)) /\ End(tag) \in {End("td"), End("tr")}
  BY ReadByMode
<1>3. mode' = "row" /\ row' = Append(row, cell) /\ UNCHANGED <<cell, header, rows>>
  BY <1>1, <1>2 DEF InCell, Stays
<1> QED
  BY <1>3 DEF Same, RowSoFar, TheTable

\* </tr> ends the row.
LEMMA ReadEndOfRow ==
  ASSUME BodyTypes, mode = "row", Read(End("tr"))
  PROVE  mode' = "table" /\ RowSoFar' = <<>> /\ TheTable' = WithRow(TheTable, RowSoFar)
<1>1. End("tr") \notin {Start("td"), End("table"), EOF}
  BY TokensDiffer
<1>2. mode' = "table" /\ AddRow(row)
  BY <1>1, ReadByMode DEF InRow, Stays
<1>3. TheTable' = WithRow(TheTable, row)
  BY <1>2, AddRowStep DEF BodyTypes
<1> QED
  BY <1>2, <1>3 DEF RowSoFar

\* </table> and the end of the page end everything: the row that is being read
\* is kept, and so is its last cell.
LEMMA ReadEndOfTable ==
  ASSUME BodyTypes, Reading, NEW t \in {End("table"), EOF}, Read(t)
  PROVE  mode' = "done" /\ TheTable' = WithRow(TheTable, RowSoFar)
<1>0. t \notin {Start("tr"), Start("td"), End("td"), End("tr")} /\ ~IsText(t)
  BY TokensDiffer
<1>1. CASE mode = "table"
  <2>1. mode' = "done" /\ UNCHANGED <<header, rows>>
    BY <1>0, <1>1, ReadByMode DEF BetweenRows, Stays
  <2> QED
    BY <1>1, <2>1 DEF RowSoFar, TheTable, WithRow
<1>2. CASE mode = "row"
  <2>1. mode' = "done" /\ AddRow(row)
    BY <1>0, <1>2, ReadByMode DEF InRow, Stays
  <2> QED
    BY <1>2, <2>1, AddRowStep DEF RowSoFar, BodyTypes
<1>3. CASE mode = "cell"
  <2>1. mode' = "done" /\ AddRow(Append(row, cell))
    BY <1>0, <1>3, ReadByMode DEF InCell, Stays
  <2>2. Append(row, cell) \in Rows
    BY AppendProperties DEF BodyTypes, Rows, Words
  <2> QED
    BY <1>3, <2>1, <2>2, AddRowStep DEF RowSoFar
<1> QED
  BY <1>1, <1>2, <1>3 DEF Reading
-----------------------------------------------------------------------------
(* What a step does to the rows that are written *)

\* The rows are there when the page is in one, and the cell too.
PageBody ==
  /\ written \in Seq(Rows)
  /\ place \in {"fresh", "caption"} => written = <<>>
  /\ place \in {"row", "cell"} => written # <<>>
  /\ place = "cell" => LastRow # <<>>

\* A new row.
LEMMA RowWritten ==
  ASSUME written \in Seq(Rows), written' = Append(written, <<>>)
  PROVE  /\ written' \in Seq(Rows) /\ written' # <<>>
         /\ Front(written') = written /\ LastRow' = <<>>
         /\ WordsOf(written') = WordsOf(written)
<1>1. <<>> \in Rows
  BY DEF Rows
<1>2. FlattenSeq(<<>>) = <<>>
  BY DEF FlattenSeq
<1>3. WordsOf(written') = WordsOf(written)
  <2>1. WordsOf(written') = WordsOf(written) \o <<>> /\ WordsOf(written) \in Words
    BY <1>1, <1>2, WordsOfAppend
  <2> QED
    BY <2>1, ConcatEmptySeq DEF Words
<1> QED
  BY <1>1, <1>3, FrontOfAppend DEF LastRow

\* The last row is replaced.
LEMMA LastRowWritten ==
  ASSUME written \in Seq(Rows), written # <<>>, NEW r \in Rows,
         written' = [written EXCEPT ![Len(written)] = r]
  PROVE  /\ written' \in Seq(Rows) /\ written' # <<>> /\ LastRow \in Rows
         /\ Front(written') = Front(written) /\ LastRow' = r
         /\ Front(written) \in Seq(Rows) /\ written = Append(Front(written), LastRow)
         /\ WordsOf(written) = WordsOf(Front(written)) \o FlattenSeq(LastRow)
         /\ WordsOf(written') = WordsOf(Front(written)) \o FlattenSeq(r)
<1>1. /\ Front(written) \in Seq(Rows) /\ LastRow \in Rows
      /\ written = Append(Front(written), LastRow)
  BY FrontAndLast DEF LastRow
<1>2. written' = Append(Front(written), r)
  BY LastReplaced
<1>3. /\ written' \in Seq(Rows) /\ written' # <<>> /\ Front(written') = Front(written) /\ LastRow' = r
  <2> DEFINE f == Front(written)
  <2>1. f \in Seq(Rows) /\ written' = Append(f, r)
    BY <1>1, <1>2
  <2> HIDE DEF f
  <2>2. /\ Append(f, r) \in Seq(Rows) /\ Append(f, r) # <<>> /\ Front(Append(f, r)) = f
        /\ Append(f, r)[Len(Append(f, r))] = r
    BY <2>1, FrontOfAppend
  <2> QED
    BY <2>1, <2>2 DEF f, LastRow
<1>4. WordsOf(written) = WordsOf(Front(written)) \o FlattenSeq(LastRow)
  BY <1>1, WordsOfAppend
<1>5. WordsOf(written') = WordsOf(Front(written)) \o FlattenSeq(r)
  BY <1>1, <1>2, WordsOfAppend
<1> QED
  BY <1>1, <1>3, <1>4, <1>5

\* A new cell.
LEMMA CellWritten ==
  ASSUME written \in Seq(Rows), written # <<>>, written' = WithCell
  PROVE  /\ written' \in Seq(Rows) /\ written' # <<>>
         /\ Front(written') = Front(written) /\ LastRow' = Append(LastRow, <<>>) /\ LastRow' # <<>>
         /\ WordsOf(written') = WordsOf(written)
<1>1. LastRow \in Rows
  BY FrontAndLast DEF LastRow
<1> DEFINE r == Append(LastRow, <<>>)
<1>2. r \in Rows /\ r # <<>> /\ FlattenSeq(r) = FlattenSeq(LastRow)
  <2>1. <<>> \in Words /\ 0 \in Nat
    BY DEF Words
  <2>2. r \in Rows /\ FlattenSeq(r) = FlattenSeq(LastRow)
    BY <1>1, <2>1, WordsOfCell
  <2>3. r # <<>>
    BY <1>1, <2>1, AppendProperties DEF Rows, Words
  <2> QED
    BY <2>2, <2>3
<1>3. written' = [written EXCEPT ![Len(written)] = r]
  BY FrontAndLast DEF WithCell, LastRow
<1> HIDE DEF r
<1>4. /\ written' \in Seq(Rows) /\ written' # <<>> /\ Front(written') = Front(written) /\ LastRow' = r
      /\ WordsOf(written) = WordsOf(Front(written)) \o FlattenSeq(LastRow)
      /\ WordsOf(written') = WordsOf(Front(written)) \o FlattenSeq(r)
  BY <1>2, <1>3, LastRowWritten
<1> QED
  BY <1>2, <1>4 DEF r

\* A new word, at the end of the last cell.
LEMMA WordWritten ==
  ASSUME written \in Seq(Rows), written # <<>>, LastRow # <<>>, tokens \in Nat, written' = WithWord
  PROVE  /\ written' \in Seq(Rows) /\ written' # <<>> /\ LastRow' # <<>>
         /\ Front(written') = Front(written)
         /\ \A c \in Words, r \in Rows :
              LastRow = Append(r, c) => LastRow' = Append(r, Append(c, Word))
         /\ WordsOf(written') = Append(WordsOf(written), Word)
<1>1. LastRow \in Rows /\ Front(written) \in Seq(Rows)
  BY FrontAndLast DEF LastRow
<1> DEFINE L == LastRow
           m == Front(L)
           c == L[Len(L)]
           k == Append(c, Word)
           r == [L EXCEPT ![Len(L)] = k]
<1>2. Word \in Nat
  BY DEF Word
<1>3. m \in Rows /\ c \in Words /\ L = Append(m, c) /\ Len(L) \in 1 .. Len(L) /\ L \in Seq(Words)
  BY <1>1, FrontAndLast DEF Rows, Words
<1>4. k \in Words
  BY <1>2, <1>3, AppendProperties DEF Words
<1>5. r = Append(m, k)
  <2> HIDE DEF k
  <2> QED
    BY <1>3, <1>4, LastReplaced
<1>6. r \in Rows /\ r # <<>>
  <2> HIDE DEF m, k, r
  <2> QED
    BY <1>3, <1>4, <1>5, AppendProperties DEF Rows, Words
<1>7. written' = [written EXCEPT ![Len(written)] = r]
  BY DEF WithWord, LastRow
<1>8. FlattenSeq(r) = Append(FlattenSeq(L), Word) /\ FlattenSeq(L) \in Words
  <2> HIDE DEF m, c, L, r
  <2>1. /\ FlattenSeq(Append(m, c)) = FlattenSeq(m) \o c
        /\ FlattenSeq(Append(m, Append(c, Word))) = Append(FlattenSeq(m) \o c, Word)
    BY <1>2, <1>3, WordsOfCell
  <2>2. FlattenSeq(L) \in Words
    BY <1>1, WordsOfAppend, <1>3 DEF L
  <2> QED
    BY <1>3, <1>5, <2>1, <2>2
<1>9. ASSUME NEW d \in Words, NEW q \in Rows, L = Append(q, d) PROVE r = Append(q, Append(d, Word))
  <2>1. q = m /\ d = c
    <3> HIDE DEF m, c, L
    <3>1. m \in Seq(Words) /\ q \in Seq(Words) /\ Append(m, c) = Append(q, d)
      BY <1>3, <1>9 DEF Rows, Words
    <3> QED
      BY <1>3, <1>9, <3>1, AppendInjective
  <2> QED
    BY <1>5, <2>1
<1> HIDE DEF r
<1>10. /\ written' \in Seq(Rows) /\ written' # <<>> /\ Front(written') = Front(written) /\ LastRow' = r
       /\ WordsOf(written) = WordsOf(Front(written)) \o FlattenSeq(LastRow)
       /\ WordsOf(written') = WordsOf(Front(written)) \o FlattenSeq(r)
  BY <1>6, <1>7, LastRowWritten
<1>11. WordsOf(Front(written)) \in Words
  BY <1>1, WordsOfAppend
<1>12. WordsOf(Front(written)) \o Append(FlattenSeq(L), Word) = Append(WordsOf(Front(written)) \o FlattenSeq(L), Word)
  BY <1>2, <1>8, <1>11, ConcatAppend DEF Words
<1> QED
  BY <1>6, <1>8, <1>9, <1>10, <1>12

\* The page keeps to its form, whatever the reader does.
LEMMA PageStep ==
  ASSUME PageBody, tokens \in Nat, [Next]_vars
  PROVE  PageBody'
<1> USE DEF PageBody
<1>0. <<>> \in Seq(Rows)
  OBVIOUS
<1>1. ASSUME NEW mark \in BOOLEAN, WriteText(mark) PROVE PageBody'
  <2>1. CASE place = "cell"
    <3>1. written' = WithWord /\ place' = place
      BY <1>1, <2>1 DEF WriteText
    <3> QED
      BY <2>1, <3>1, WordWritten
  <2>2. CASE place # "cell"
    BY <1>1, <2>2 DEF WriteText
  <2> QED
    BY <2>1, <2>2
<1>2. CASE WriteBlank \/ WriteOther
  BY <1>2 DEF WriteBlank, WriteOther, LastRow
<1>3. CASE OpenTable
  BY <1>0, <1>3 DEF OpenTable
<1>4. CASE OpenCaption \/ CloseCaption \/ OpenBody
  BY <1>4 DEF OpenCaption, CloseCaption, OpenBody
<1>5. CASE OpenRow
  BY <1>5, RowWritten DEF OpenRow
<1>6. CASE OpenCell
  BY <1>6, CellWritten DEF OpenCell
<1>7. CASE CloseCell \/ CloseRow
  BY <1>7 DEF CloseCell, CloseRow
<1>8. CASE CloseTable
  BY <1>8 DEF CloseTable
<1>9. CASE EndPage \/ Returned \/ UNCHANGED vars
  BY <1>9 DEF EndPage, Returned, vars, pageVars, LastRow
<1> QED
  BY <1>1, <1>2, <1>3, <1>4, <1>5, <1>6, <1>7, <1>8, <1>9 DEF Next

\* The types of what is read are kept.
LEMMA BodyTypesStep ==
  ASSUME BodyTypes, tokens \in Nat, [Next]_vars
  PROVE  BodyTypes'
<1>1. ASSUME NEW t, Read(t) PROVE BodyTypes'
  BY <1>1, ReadTypes
<1>2. CASE Returned \/ UNCHANGED vars
  BY <1>2 DEF Returned, vars, readerVars, BodyTypes, Reading
<1> QED
  BY <1>1, <1>2 DEF Next, WriteText, WriteBlank, WriteOther, OpenTable, OpenCaption, CloseCaption,
       OpenBody, OpenRow, OpenCell, CloseCell, CloseRow, CloseTable, EndPage, Write
-----------------------------------------------------------------------------
(* The reader and the page *)

\* While it reads, the reader is where the page is, but for what an untidy
\* page leaves open.
InStep ==
  Reading =>
    /\ place \in {"fresh", "caption"} => mode = "table"
    /\ place = "table" => mode \in {"table", "row"}
    /\ place = "row" => mode \in {"row", "cell"}
    /\ place = "cell" => mode = "cell"
    /\ tidy /\ place = "table" => mode = "table"
    /\ tidy /\ place = "row" => mode = "row"

\* Every word that is written has been read.
WordsSoFar ==
  /\ Reading => WordsOf(TheTable) \o FlattenSeq(RowSoFar) = WordsOf(written)
  /\ mode = "done" => WordsOf(TheTable) = WordsOf(written)

\* On a tidy page, cell by cell.
RowsSoFar ==
  tidy =>
    /\ mode \in {"table", "done"} => TheTable = WithCells(written)
    /\ mode \in {"row", "cell"} => TheTable = WithCells(Front(written)) /\ RowSoFar = LastRow

Follows == InStep /\ WordsSoFar /\ RowsSoFar

\* Where a table begins nothing is read of it yet.
LEMMA FollowsFromStart ==
  ASSUME TheTable' = <<>>, written' = <<>>,
         mode' = "done" \/ (mode' = "table" /\ place' \in {"fresh", "table"})
  PROVE  Follows'
<1>1. FlattenSeq(<<>>) = <<>> /\ WordsOf(<<>>) = <<>> /\ <<>> \o <<>> = <<>>
  BY DEF WordsOf, FlattenSeq
<1>2. WithCells(<<>>) = <<>>
  <2>1. <<>> \in Seq(Seq(Nat)) /\ Len(<<>>) = 0
    OBVIOUS
  <2> QED
    BY <2>1, WithCellsDef
<1> QED
  BY <1>1, <1>2 DEF Follows, InStep, WordsSoFar, RowsSoFar, Reading, RowSoFar

\* A step that writes no row and reads none.
LEMMA FollowsSame ==
  ASSUME Follows, Reading, mode' = mode, Same, UNCHANGED <<written, tidy>>, InStep'
  PROVE  Follows'
BY DEF Follows, WordsSoFar, RowsSoFar, Reading, Same, LastRow

BodyInv == PageBody /\ BodyTypes /\ Follows

\* Rows of the table and of the page, with their types.
LEMMA BodyFacts ==
  ASSUME BodyInv
  PROVE  /\ written \in Seq(Rows) /\ TheTable \in Seq(Rows) /\ RowSoFar \in Rows
         /\ WordsOf(TheTable) \in Words /\ WordsOf(written) \in Words /\ FlattenSeq(RowSoFar) \in Words
         /\ WordsOf(WithRow(TheTable, RowSoFar)) = WordsOf(TheTable) \o FlattenSeq(RowSoFar)
         /\ written # <<>> => WithCells(written) = WithRow(WithCells(Front(written)), LastRow)
<1>1. written \in Seq(Rows) /\ TheTable \in Seq(Rows) /\ RowSoFar \in Rows
  BY TableTyped DEF BodyInv, PageBody
<1>2. ASSUME written # <<>> PROVE WithCells(written) = WithRow(WithCells(Front(written)), LastRow)
  <2> DEFINE f == Front(written)
  <2>1. f \in Seq(Seq(Seq(Nat))) /\ LastRow \in Seq(Seq(Nat)) /\ written = Append(f, LastRow)
    BY <1>1, <1>2, FrontAndLast DEF LastRow, Rows
  <2> HIDE DEF f
  <2>2. WithCells(Append(f, LastRow)) = WithRow(WithCells(f), LastRow)
    <3> DEFINE S == Seq(Nat)
    <3>1. f \in Seq(Seq(S)) /\ LastRow \in Seq(S)
      BY <2>1
    <3> HIDE DEF S
    <3> QED
      BY <3>1, WithCellsAppend
  <2>3. WithCells(written) = WithRow(WithCells(f), LastRow)
    BY <2>1, <2>2
  <2> QED
    BY <2>3 DEF f
<1> QED
  BY <1>1, <1>2, WordsOfAppend

\* At the end of the table, and of the page, the row so far joins the table.
LEMMA FollowsToTheEnd ==
  ASSUME BodyInv, Reading, place \in {"fresh", "caption", "table", "row", "cell"},
         UNCHANGED <<written, tidy>>, mode' = "done",
         TheTable' = WithRow(TheTable, RowSoFar)
  PROVE  Follows'
<1>1. WordsOf(TheTable') = WordsOf(written)
  BY BodyFacts DEF BodyInv, Follows, WordsSoFar
<1>2. ASSUME tidy PROVE TheTable' = WithCells(written)
  <2>1. CASE mode = "table"
    BY <1>2, <2>1 DEF BodyInv, Follows, RowsSoFar, RowSoFar, WithRow
  <2>2. CASE mode # "table"
    <3>1. mode \in {"row", "cell"}
      BY <2>2 DEF Reading
    <3>2. TheTable = WithCells(Front(written)) /\ RowSoFar = LastRow
      BY <1>2, <3>1 DEF BodyInv, Follows, RowsSoFar
    <3>3. written # <<>>
      BY <1>2, <3>1 DEF BodyInv, PageBody, Follows, InStep, Reading
    <3> QED
      BY <3>2, <3>3, BodyFacts
  <2> QED
    BY <2>1, <2>2
<1> QED
  BY <1>1, <1>2 DEF Follows, InStep, WordsSoFar, RowsSoFar, Reading

\* A step before the reader has found its table.
LEMMA FollowsBefore ==
  ASSUME BodyInv, SeekInv, Next, ~Reading, mode # "done"
  PROVE  Follows'
<1> DEFINE Quiet == ~Reading' /\ mode' # "done"
<1>0. CASE Quiet
  BY <1>0 DEF Follows, InStep, WordsSoFar, RowsSoFar, Reading
<1>1. TheTable = <<>>
  <2>1. header = <<>> /\ rows = <<>>
    BY DEF BodyInv, BodyTypes
  <2> QED
    BY <2>1 DEF TheTable
<1>2. ASSUME NEW t, Read(t), t # Start("table"), t # End("caption"), t # EOF PROVE Follows'
  <2>1. Quiet
    BY <1>2, NotReadingYet DEF Reading
  <2> QED
    BY <1>0, <2>1
<1>3. CASE OpenTable
  <2>1. Read(Start("table")) /\ written' = <<>> /\ place' = "fresh"
    BY <1>3 DEF OpenTable, Write
  <2>2. TheTable' = <<>> /\ (mode' = "table" \/ Quiet)
    BY <1>1, <2>1, NotReadingYet, TokensDiffer DEF TheTable, Reading
  <2> QED
    BY <1>0, <2>1, <2>2, FollowsFromStart
<1>4. CASE CloseCaption
  <2>1. Read(End("caption")) /\ written' = <<>> /\ place' = "table"
    BY <1>4 DEF CloseCaption, Write, BodyInv, PageBody
  <2>2. TheTable' = <<>> /\ (mode' = "table" \/ Quiet)
    BY <1>1, <2>1, NotReadingYet, TokensDiffer DEF TheTable, Reading
  <2> QED
    BY <1>0, <2>1, <2>2, FollowsFromStart
<1>5. CASE EndPage
  <2>1. Read(EOF) /\ written' = written
    BY <1>5 DEF EndPage
  <2>2. TheTable' = <<>> /\ (Quiet \/ (mode = "caption" /\ mode' = "done"))
    BY <1>1, <2>1, NotReadingYet, TokensDiffer DEF TheTable, Reading
  <2>3. mode = "caption" => written = <<>>
    BY DEF SeekInv, Kinds, TextSearch, CaptionSearch, BodyInv, PageBody
  <2> QED
    BY <1>0, <2>1, <2>2, <2>3, FollowsFromStart
<1>6. ASSUME NEW mark \in BOOLEAN, WriteText(mark) PROVE Follows'
  <2>1. Read(Text(mark)) /\ Text(mark) # Start("table") /\ Text(mark) # End("caption") /\ Text(mark) # EOF
    BY <1>6, TokensDiffer DEF WriteText, Write
  <2> QED
    BY <1>2, <2>1
<1>7. CASE WriteBlank
  BY <1>2, <1>7, TokensDiffer DEF WriteBlank, Write
<1>8. CASE WriteOther \/ OpenCaption \/ OpenBody \/ OpenRow \/ OpenCell
  <2>1. \E tag \in {"p", "caption", "tbody", "tr", "td"} : Read(Start(tag))
    BY <1>8 DEF WriteOther, OpenCaption, OpenBody, OpenRow, OpenCell, Write
  <2> QED
    BY <1>2, <2>1, TokensDiffer
<1>9. CASE CloseCell \/ CloseRow \/ CloseTable
  <2>1. \E tag \in {"td", "tr", "table"} : Read(End(tag))
    BY <1>9 DEF CloseCell, CloseRow, CloseTable, Write
  <2> QED
    BY <1>2, <2>1, TokensDiffer
<1>10. CASE Returned
  <2>1. UNCHANGED <<mode>>
    BY <1>10 DEF Returned, vars, readerVars
  <2> QED
    BY <1>0, <2>1 DEF Reading
<1> QED
  BY <1>3, <1>4, <1>5, <1>6, <1>7, <1>8, <1>9, <1>10 DEF Next

\* A step while the table is read.
LEMMA FollowsReading ==
  ASSUME BodyInv, SeekInv, Next, Reading
  PROVE  Follows'
<1>0. place \in {"fresh", "caption", "table", "row", "cell"} /\ tokens \in Nat
  BY BoundsNat DEF SeekInv, Kinds, InTheTable
<1>1. InStep /\ WordsSoFar /\ RowsSoFar /\ PageBody /\ BodyTypes
  BY DEF BodyInv, Follows
<1>2. ASSUME NEW mark \in BOOLEAN, WriteText(mark) PROVE Follows'
  <2>0. Read(Text(mark)) /\ UNCHANGED <<place, tidy>>
    BY <1>2 DEF WriteText, Write
  <2>1. /\ mode' = mode /\ TheTable' = TheTable
        /\ mode # "cell" => RowSoFar' = RowSoFar
        /\ mode = "cell" => RowSoFar' = Append(row, Append(cell, Word))
    BY <2>0, ReadWord
  <2>2. InStep'
    BY <1>1, <2>0, <2>1 DEF InStep, Reading
  <2>3. CASE place = "cell"
    <3>1. mode = "cell"
      BY <1>1, <2>3 DEF InStep
    <3>2. /\ written \in Seq(Rows) /\ written # <<>> /\ LastRow # <<>> /\ written' = WithWord
      BY <1>1, <1>2, <2>3 DEF PageBody, WriteText
    <3>3. /\ Front(written') = Front(written)
          /\ \A c \in Words, r \in Rows :
               LastRow = Append(r, c) => LastRow' = Append(r, Append(c, Word))
          /\ WordsOf(written') = Append(WordsOf(written), Word)
      BY <1>0, <3>2, WordWritten
    <3>4. RowSoFar = Append(row, cell) /\ cell \in Words /\ row \in Rows /\ Word \in Nat
      BY <1>0, <1>1, <3>1 DEF RowSoFar, BodyTypes, Word
    <3>5. FlattenSeq(RowSoFar') = Append(FlattenSeq(RowSoFar), Word)
      <4>1. /\ FlattenSeq(Append(row, cell)) = FlattenSeq(row) \o cell
            /\ FlattenSeq(Append(row, Append(cell, Word))) = Append(FlattenSeq(row) \o cell, Word)
        BY <3>4, WordsOfCell
      <4> QED
        BY <2>1, <3>1, <3>4, <4>1
    <3>6. WordsOf(TheTable) \o Append(FlattenSeq(RowSoFar), Word)
            = Append(WordsOf(TheTable) \o FlattenSeq(RowSoFar), Word)
      <4> DEFINE u == WordsOf(TheTable)
                 v == FlattenSeq(RowSoFar)
      <4>1. u \in Seq(Nat) /\ v \in Seq(Nat) /\ Word \in Nat
        BY <3>4, BodyFacts DEF Words
      <4> HIDE DEF u, v
      <4>2. u \o Append(v, Word) = Append(u \o v, Word)
        BY <4>1, ConcatAppend
      <4> QED
        BY <4>2 DEF u, v
    <3>7. WordsSoFar'
      <4>1. WordsOf(TheTable) \o FlattenSeq(RowSoFar) = WordsOf(written)
        BY <1>1 DEF WordsSoFar
      <4>2. WordsOf(TheTable') = WordsOf(TheTable)
        BY <2>1
      <4>3. WordsOf(TheTable') \o FlattenSeq(RowSoFar') = WordsOf(written')
        BY <3>3, <3>5, <3>6, <4>1, <4>2
      <4>4. mode' = "cell"
        BY <2>1, <3>1
      <4> QED
        BY <4>3, <4>4 DEF WordsSoFar
    <3>8. RowsSoFar'
      <4>1. ASSUME tidy PROVE TheTable' = WithCells(Front(written')) /\ RowSoFar' = LastRow'
        <5>1. TheTable = WithCells(Front(written)) /\ LastRow = Append(row, cell)
          BY <1>1, <3>1, <3>4, <4>1 DEF RowsSoFar
        <5>2. LastRow' = Append(row, Append(cell, Word))
          BY <3>3, <3>4, <5>1
        <5> QED
          BY <2>1, <3>1, <3>3, <5>1, <5>2
      <4>2. mode' = "cell" /\ tidy' = tidy
        BY <2>0, <2>1, <3>1
      <4> QED
        BY <4>1, <4>2 DEF RowsSoFar
    <3> QED
      BY <2>2, <3>7, <3>8 DEF Follows
  <2>4. CASE place # "cell"
    <3>1. place = "caption"
      BY <1>0, <1>2, <2>4 DEF WriteText
    <3>2. mode # "cell"
      BY <1>1, <3>1 DEF InStep
    <3>3. written' = written /\ Same
      BY <1>2, <2>1, <2>4, <3>2 DEF WriteText, Same
    <3> QED
      BY <1>1, <2>0, <2>1, <2>2, <3>3, FollowsSame DEF BodyInv
  <2> QED
    BY <2>3, <2>4
<1>3. CASE WriteBlank \/ WriteOther \/ OpenCaption \/ CloseCaption \/ OpenBody
  <2>0. PICK t : /\ Read(t)
                 /\ \/ t = Blank
                    \/ \E tag \in {"p", "caption", "tbody"} : t = Start(tag)
                    \/ t = End("caption")
    BY <1>3 DEF WriteBlank, WriteOther, OpenCaption, CloseCaption, OpenBody, Write
  <2>1. mode' = mode /\ Same
    BY <2>0, ReadNothing
  <2>2. UNCHANGED <<written, tidy>> /\ (place' = place \/ (place \in {"fresh", "caption"} /\ place' \in {"caption", "table"}))
    BY <1>3 DEF WriteBlank, WriteOther, OpenCaption, CloseCaption, OpenBody, Write
  <2>3. InStep'
    BY <1>1, <2>1, <2>2 DEF InStep, Reading
  <2> QED
    BY <1>1, <2>1, <2>2, <2>3, FollowsSame DEF BodyInv
<1>4. CASE OpenTable
  BY <1>0, <1>4 DEF OpenTable
<1>5. CASE OpenRow
  <2>0. Read(Start("tr")) /\ tidy' = tidy /\ place \in InTable /\ place' = "row" /\ written' = Append(written, <<>>)
    BY <1>5 DEF OpenRow, Write
  <2>1. RowSoFar' = RowSoFar /\ TheTable' = TheTable /\ mode' = IF mode = "table" THEN "row" ELSE mode
    BY <2>0, ReadTr DEF Same
  <2>2. mode' \in {"row", "cell"}
    BY <2>1 DEF Reading
  <2>3. /\ Front(written') = written /\ LastRow' = <<>> /\ WordsOf(written') = WordsOf(written)
    BY <1>1, <2>0, RowWritten DEF PageBody
  <2>4. tidy => mode = "table"
    BY <1>1, <2>0 DEF InStep, InTable
  <2>5. InStep'
    BY <2>0, <2>1, <2>2, <2>4 DEF InStep
  <2>6. WordsSoFar'
    BY <1>1, <2>1, <2>2, <2>3 DEF WordsSoFar
  <2>7. RowsSoFar'
    BY <1>1, <2>0, <2>1, <2>2, <2>3, <2>4 DEF RowsSoFar, RowSoFar
  <2> QED
    BY <2>5, <2>6, <2>7 DEF Follows
<1>6. CASE OpenCell
  <2>0. /\ Read(Start("td")) /\ tidy' = tidy /\ place \in {"row", "cell"} /\ (tidy => place = "row")
        /\ place' = "cell" /\ written' = WithCell
    BY <1>6 DEF OpenCell, Write
  <2>1. /\ Front(written') = Front(written) /\ LastRow' = Append(LastRow, <<>>)
        /\ WordsOf(written') = WordsOf(written)
    BY <1>1, <2>0, CellWritten DEF PageBody
  <2>2. mode \in {"row", "cell"} /\ (tidy => mode = "row")
    BY <1>1, <2>0 DEF InStep
  <2>3. mode' = "cell" /\ TheTable' = TheTable
    BY <2>0, <2>2, ReadTd DEF Same
  <2>4. (mode = "row" => RowSoFar' = Append(RowSoFar, <<>>)) /\ (mode = "cell" => RowSoFar' = RowSoFar)
    BY <2>0, ReadTd DEF Same
  <2>5. FlattenSeq(RowSoFar') = FlattenSeq(RowSoFar)
    <3>1. FlattenSeq(Append(RowSoFar, <<>>)) = FlattenSeq(RowSoFar)
      <4>1. RowSoFar \in Rows /\ <<>> \in Words /\ 0 \in Nat
        BY BodyFacts DEF Words
      <4> QED
        BY <4>1, WordsOfCell
    <3> QED
      BY <2>2, <2>4, <3>1
  <2>6. InStep'
    BY <2>0, <2>3 DEF InStep
  <2>7. WordsSoFar'
    BY <1>1, <2>1, <2>3, <2>5 DEF WordsSoFar
  <2>8. RowsSoFar'
    BY <1>1, <2>0, <2>1, <2>2, <2>3, <2>4 DEF RowsSoFar
  <2> QED
    BY <2>6, <2>7, <2>8 DEF Follows
<1>7. CASE CloseCell
  <2>0. Read(End("td")) /\ tidy' = tidy /\ place = "cell" /\ place' = "row" /\ written' = written
    BY <1>7 DEF CloseCell, Write
  <2>1. mode = "cell"
    BY <1>1, <2>0 DEF InStep
  <2>2. mode' = "row" /\ RowSoFar' = RowSoFar /\ TheTable' = TheTable
    BY <2>0, <2>1, ReadEndOfCell DEF Same
  <2>3. InStep'
    BY <2>0, <2>2 DEF InStep
  <2>4. WordsSoFar'
    BY <1>1, <2>0, <2>2 DEF WordsSoFar
  <2>5. RowsSoFar'
    BY <1>1, <2>0, <2>1, <2>2 DEF RowsSoFar, LastRow
  <2> QED
    BY <2>3, <2>4, <2>5 DEF Follows
<1>8. CASE CloseRow
  <2>0. /\ Read(End("tr")) /\ tidy' = tidy /\ place \in {"row", "cell"} /\ (tidy => place = "row")
        /\ place' = "table" /\ written' = written
    BY <1>8 DEF CloseRow, Write
  <2>1. mode \in {"row", "cell"} /\ (tidy => mode = "row")
    BY <1>1, <2>0 DEF InStep
  <2>2. CASE mode = "cell"
    <3>1. mode' = "row" /\ RowSoFar' = RowSoFar /\ TheTable' = TheTable /\ ~tidy
      BY <2>0, <2>1, <2>2, ReadEndOfCell DEF Same
    <3> QED
      BY <1>1, <2>0, <3>1 DEF Follows, InStep, WordsSoFar, RowsSoFar
  <2>3. CASE mode = "row"
    <3>1. mode' = "table" /\ RowSoFar' = <<>> /\ TheTable' = WithRow(TheTable, RowSoFar)
      BY <1>1, <2>0, <2>3, ReadEndOfRow
    <3>2. InStep'
      BY <2>0, <3>1 DEF InStep
    <3>3. WordsSoFar'
      <4>1. WordsOf(TheTable') = WordsOf(written)
        BY <1>1, <3>1, BodyFacts DEF WordsSoFar
      <4>2. FlattenSeq(RowSoFar') = <<>>
        BY <3>1 DEF FlattenSeq
      <4>3. WordsOf(written) \o <<>> = WordsOf(written)
        BY BodyFacts, ConcatEmptySeq DEF Words
      <4> QED
        BY <2>0, <3>1, <4>1, <4>2, <4>3 DEF WordsSoFar
    <3>4. RowsSoFar'
      <4>1. ASSUME tidy PROVE TheTable' = WithCells(written)
        <5>1. TheTable = WithCells(Front(written)) /\ RowSoFar = LastRow /\ written # <<>>
          BY <1>1, <2>0, <2>3, <4>1 DEF RowsSoFar, PageBody
        <5> QED
          BY <3>1, <5>1, BodyFacts
      <4> QED
        BY <2>0, <3>1, <4>1 DEF RowsSoFar
    <3> QED
      BY <3>2, <3>3, <3>4 DEF Follows
  <2> QED
    BY <2>1, <2>2, <2>3
<1>9. CASE CloseTable \/ EndPage
  <2>0. PICK t \in {End("table"), EOF} : Read(t) /\ UNCHANGED <<written, tidy>>
    BY <1>9 DEF CloseTable, EndPage, Write
  <2>1. mode' = "done" /\ TheTable' = WithRow(TheTable, RowSoFar)
    BY <1>1, <2>0, ReadEndOfTable
  <2> QED
    BY <1>0, <2>0, <2>1, FollowsToTheEnd
<1>10. CASE Returned
  BY <1>10 DEF Returned, Reading
<1> QED
  BY <1>2, <1>3, <1>4, <1>5, <1>6, <1>7, <1>8, <1>9, <1>10 DEF Next

-----------------------------------------------------------------------------
\* The inductive invariant: where the reader is, and what it has read.
TableInv == SeekInv /\ BodyInv

\* It holds at the start.
LEMMA InitTable == Init => TableInv
<1> SUFFICES ASSUME Init PROVE TableInv
  OBVIOUS
<1>1. SeekInv
  BY InitSeek
<1>2. PageBody /\ BodyTypes
  BY DEF Init, PageBody, BodyTypes, Rows, Words
<1>3. Follows
  BY DEF Init, Follows, InStep, WordsSoFar, RowsSoFar, Reading
<1> QED
  BY <1>1, <1>2, <1>3 DEF TableInv, BodyInv

\* Every step keeps it.
LEMMA NextTable == TableInv /\ [Next]_vars => TableInv'
<1> SUFFICES ASSUME TableInv, [Next]_vars PROVE TableInv'
  OBVIOUS
<1>1. SeekInv'
  BY NextSeek DEF TableInv
<1>2. tokens \in Nat
  BY BoundsNat DEF TableInv, SeekInv, Kinds
<1>3. PageBody' /\ BodyTypes'
  BY <1>2, PageStep, BodyTypesStep DEF TableInv, BodyInv
<1>4. Follows'
  <2>1. CASE Next /\ Reading
    BY <2>1, FollowsReading DEF TableInv
  <2>2. CASE Next /\ ~Reading /\ mode # "done"
    BY <2>2, FollowsBefore DEF TableInv
  <2>3. CASE UNCHANGED vars \/ (Next /\ mode = "done")
    <3>1. UNCHANGED vars
      BY <2>3 DEF Next, Returned, WriteText, WriteBlank, WriteOther, OpenTable, OpenCaption, CloseCaption,
         OpenBody, OpenRow, OpenCell, CloseCell, CloseRow, CloseTable, EndPage, Write
    <3>2. UNCHANGED <<mode, place, tidy, written, cell, row, header, rows>>
      BY <3>1 DEF vars, pageVars, readerVars
    <3>3. Follows
      BY DEF TableInv, BodyInv
    <3> QED
      BY <3>2, <3>3 DEF Follows, InStep, WordsSoFar, RowsSoFar, Reading, RowSoFar, TheTable, LastRow
  <2> QED
    BY <2>1, <2>2, <2>3
<1> QED
  BY <1>1, <1>3, <1>4 DEF TableInv, BodyInv

\* Every reachable state has the invariant.
THEOREM TableInvariance == Spec => []TableInv
BY InitTable, NextTable, PTL DEF Spec

\* The variables have their types; the tables passed over (xml.go, tablesFound) are
\* never more than skip, and the caption is looked for in at most Lookahead tokens.
THEOREM ReaderTypeCorrect == Spec => []TypeOK
<1>1. TableInv => TypeOK
  BY DEF TableInv, SeekInv, Kinds, TextSearch, CaptionSearch, InTheTable, TypeOK, Reading
<1> QED
  BY <1>1, TableInvariance, PTL

\* FindTokenizedNthTableByTextBeforeTable and FindTokenizedTableByTextInCaption take the
\* table the caller means and fail only when there is none, whatever skip and Lookahead.
THEOREM ReaderTakesRightTable == Spec => []RightTable
<1>1. TableInv => RightTable
  BY DEF TableInv, SeekInv, Kinds, TextSearch, CaptionInStep, RightTable, Reading
<1> QED
  BY <1>1, TableInvariance, PTL

\* ParseTable returns with the </table> of its table, in whatever row or cell that
\* finds it.
THEOREM ReaderStopsWithTable == Spec => []StopsWithTable
<1>1. TableInv => StopsWithTable
  BY DEF TableInv, SeekInv, InTheTable, StopsWithTable
<1> QED
  BY <1>1, TableInvariance, PTL

\* ParseTable returns a tidy table as it is written, cell by cell, cut off or whole.
THEOREM ReaderKeepsRows == Spec => []RowsAsWritten
<1>1. TableInv => RowsAsWritten
  BY DEF TableInv, BodyInv, Follows, RowsSoFar, RowsAsWritten
<1> QED
  BY <1>1, TableInvariance, PTL

\* ParseTable loses no word of a cell, and takes none from elsewhere, even where
\* end tags are left out.
THEOREM ReaderKeepsWords == Spec => []WordsKept
<1>1. TableInv => WordsKept
  BY DEF TableInv, BodyInv, Follows, WordsSoFar, WordsKept
<1> QED
  BY <1>1, TableInvariance, PTL
=============================================================================

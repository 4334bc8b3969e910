-------------------------- MODULE MC_AverageTables --------------------------
(* Small instances of AverageTables for TLC: headings of which one contains  *)
(* the digits of another, and for Nordax the months it alone can have.       *)
EXTENDS AverageTables

AllReaders  == DOMAIN Align
OnlyLF      == {"LF"}
SomePeriods == [n : {3, 36}, unit : {"months"}] \cup [n : {1, 10}, unit : {"years"}]
=============================================================================

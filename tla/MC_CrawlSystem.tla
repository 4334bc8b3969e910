--------------------------- MODULE MC_CrawlSystem ---------------------------
(* A small instance of CrawlSystem for TLC: two banks; the list rate of one  *)
(* is sent again with another rate, so that an upsert replaces an entry.     *)
EXTENDS CrawlSystem

CONSTANTS c1, c2

TwoCrawlers == {c1, c2}
OnePanicky  == {c2}
OnlyRace    == {"race"}

Rate(bank, type, r) ==
  [bank |-> bank, type |-> type, term |-> "1y", month |-> IF type = "averageRate" THEN "jan25" ELSE NoMonth,
   ratio |-> NoRatio, rate |-> r]

ThreeSets == {Rate("SEB", "listRate", 1), Rate("SEB", "listRate", 2), Rate("Avanza", "averageRate", 1)}
=============================================================================

--------------------------- MODULE MC_CrawlService ---------------------------
(* A small instance of CrawlService for TLC: nothing panics, no call fails. *)
EXTENDS CrawlService

CONSTANTS c1, c2, s1, s2

TwoCrawlers == {c1, c2}
TwoSets     == {s1, s2}
NoneOf      == {}
NoErrors    == {}
=============================================================================

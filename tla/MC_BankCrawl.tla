---------------------------- MODULE MC_BankCrawl ----------------------------
(* The service, with an arbitrary crawler and one of three real ones: one that *)
(* may panic, one that sends in two places and gives up behind the first, one *)
(* that needs two pages for its key.  Of a set only the type of its rate is   *)
(* kept.                                                                      *)
EXTENDS BankCrawl

CONSTANTS c1, c2

TwoCrawlers == {c1, c2}
OnePanicky  == {c1}
AnyError    == {"upsert", "get", "race"}
ThreeBanks  == {"Hypoteket", "Svea", "SEB"}
TwoTypes    == {"listRate", "averageRate"}
Finds       == [from : (1 .. 5) \X {1}, rate : [type : TwoTypes, row : Rows]]
TypeOf      == [f \in Finds |-> f.rate.type]
=============================================================================

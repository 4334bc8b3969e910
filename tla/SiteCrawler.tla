---------------------------- MODULE SiteCrawler ----------------------------
(***************************************************************************)
(* The interface SiteCrawler of internal/app/crawler/service.go, as the    *)
(* service relies on it: Crawl(result) sends sets, one after another, and  *)
(* then returns, or panics; when it is over it sends nothing more.         *)
(* Each of the 21 programs of SiteCrawlers is shown to do nothing else.    *)
(* What they do in the goroutines of the service is in BankCrawl.          *)
(***************************************************************************)
EXTENDS Naturals

VARIABLES
  crawl,    \* "running", "returned" or "panicked"
  sends,    \* how many sets it has sent
  risky     \* whether a page can make it panic

Init ==
  /\ crawl = "running"
  /\ sends = 0
  /\ risky \in BOOLEAN

Send   == crawl = "running" /\ sends' = sends + 1 /\ UNCHANGED <<crawl, risky>>
Return == crawl = "running" /\ crawl' = "returned" /\ UNCHANGED <<sends, risky>>
Panic  == crawl = "running" /\ risky /\ crawl' = "panicked" /\ UNCHANGED <<sends, risky>>

Next == Send \/ Return \/ Panic

Spec == Init /\ [][Next]_<<crawl, sends, risky>>
=============================================================================

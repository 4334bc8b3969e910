----------------------------- MODULE BankCrawl -----------------------------
(***************************************************************************)
(* One real crawler in the service: the goroutine of one of the crawlers   *)
(* of CrawlService runs a Crawl of SiteCrawlers, and the others are as     *)
(* arbitrary as they are there.  The crawler's send is the service's: it   *)
(* blocks until the receiver takes the set, and only then does its program *)
(* go on.  What the program found is followed to the store.                *)
(***************************************************************************)
EXTENDS CrawlService

CONSTANTS
  one,          \* the crawler whose program is run
  Crawled,      \* the banks of which it may be the crawler
  Rows,         \* the rows with a rate, in each table of a page
  SetOf         \* the interest set that is made of what an extraction finds

VARIABLES bank, step, pages, part, left, found, collected, broken, crawl,
          pushed        \* how many of collected went into the channel

programVars == <<bank, step, pages, part, left, found, collected, pushed, broken, crawl>>
bankVars    == <<vars, programVars>>

Program == INSTANCE SiteCrawlers WITH sent <- pushed

\* All that the extractions of a plan can find.
FindsOf(plan) ==
  UNION {UNION {{[from |-> <<k, i>>, rate |-> r] : r \in plan[k].parts[i].rates}
                  : i \in DOMAIN plan[k].parts} : k \in DOMAIN plan}

ASSUME OneCrawls == one \in Crawlers
ASSUME BanksCrawl == Crawled \subseteq Program!Banks
ASSUME FewRows == IsFiniteSet(Rows)
ASSUME FindsAreSets ==
  \A b \in Crawled : \A f \in FindsOf(Program!Plans[b]) : SetOf[f] \in InterestSets
ASSUME RiskyMayPanic == Crawled \cap {"DanskeBank", "Hypoteket"} # {} => one \in Panicky

BankInit == Init /\ Program!Init

-----------------------------------------------------------------------------
(* The goroutine of the crawler: defer wg.Done(); c.Crawl(objChan) *)

\* It is its turn: it was started, and no send of its holds it up.
Turn == Alive /\ crawler[one] = "running"

\* Requests, extractions and loops, up to the next send.
Works ==
  /\ Turn
  /\ Program!Next /\ pushed' = pushed /\ crawl' = crawl
  /\ UNCHANGED vars

\* Faulty variant: the set of the round before is sent.
PushesStale ==
  /\ Turn /\ Len(sent[one]) < MaxSends
  /\ Program!SendSet
  /\ sent' = [sent EXCEPT ![one] = Append(@, SetOf[collected[IF pushed = 0 THEN 1 ELSE pushed]])]
  /\ crawler' = [crawler EXCEPT ![one] = "sending"]
  /\ UNCHANGED <<wg, recvVars, mainVars>>

\* channel <- set
Pushes ==
  /\ Turn /\ Len(sent[one]) < MaxSends
  /\ Program!SendSet
  /\ sent' = [sent EXCEPT ![one] = Append(@, SetOf[collected[pushed']])]
  /\ crawler' = [crawler EXCEPT ![one] = "sending"]
  /\ UNCHANGED <<wg, recvVars, mainVars>>

\* Faulty variant: wg.Done() comes behind the call and is not deferred.
EndsWithoutDefer ==
  /\ Turn
  /\ Program!Next /\ crawl' # "running"
  /\ crawler' = [crawler EXCEPT ![one] = IF crawl' = "returned" THEN "returned" ELSE "panicking"]
  /\ wg' = IF crawl' = "returned" THEN wg - 1 ELSE wg
  /\ UNCHANGED <<sent, recvVars, mainVars>>

\* Crawl is over, by a return or a panic, and the deferred wg.Done() runs.
Ends ==
  /\ Turn
  /\ Program!Next /\ crawl' # "running"
  /\ crawler' = [crawler EXCEPT ![one] = IF crawl' = "returned" THEN "returned" ELSE "panicking"]
  /\ wg' = wg - 1
  /\ UNCHANGED <<sent, recvVars, mainVars>>

Goroutine == Works \/ Pushes \/ Ends

-----------------------------------------------------------------------------
BankNext ==
  \/ Goroutine
  \/ /\ MainStep \/ (\E c \in Crawlers \ {one} : CrawlerStep(c)) \/ ReceiverStep \/ Crash \/ Terminated
     /\ UNCHANGED programVars

\* The requests of the program end, its extractions too; the rest is as in CrawlService.
BankFairness ==
  /\ WF_bankVars(MainStep /\ UNCHANGED programVars)
  /\ WF_bankVars(Goroutine)
  /\ \A c \in Crawlers \ {one} : WF_bankVars(CrawlerStep(c) /\ UNCHANGED programVars)
  /\ WF_bankVars(ReceiverStep /\ UNCHANGED programVars)
  /\ WF_bankVars(Crash /\ UNCHANGED programVars)

BankSpec == BankInit /\ [][BankNext]_bankVars /\ BankFairness

-----------------------------------------------------------------------------
(* Properties *)

\* The service with a real crawler is the service that CrawlService describes, its
\* fairness included: the program sends sets, panics only where a crawler may, does
\* not keep the goroutine from its next send or from its end, and counts itself out
\* of the WaitGroup once.
AsCrawlService == INSTANCE CrawlService
BankImplementsCrawlService == AsCrawlService!FairSpec

\* From the page to the store: when Crawl returned and main builds the summary, every
\* rate that an extraction found has arrived as a set of that crawler, and is one that
\* main counts, unless its upsert failed or it was the last set to arrive.
FindsAreStored ==
  main = "summarising" /\ crawl = "returned" =>
    \A f \in Program!Elements(found) : \E i \in ArrivedFrom(one, Len(arrivals)) :
      /\ arrivals[i].set = SetOf[f]
      /\ i \in seen \cup failed \cup {Len(arrivals)}
=============================================================================

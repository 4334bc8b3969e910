---------------------------- MODULE SiteCrawlers ----------------------------
(***************************************************************************)
(* The Crawl methods of the 21 site crawlers: internal/app/crawler/<bank>. *)
(* Every one is a short program of the same few moves, so each is given    *)
(* as a plan, the sequence of its steps, and one state machine runs the    *)
(* plan against sites that answer or not, with the page the crawler was    *)
(* written for or with another one (http.client hands out the body of any  *)
(* answer, whatever its status).                                           *)
(*                                                                         *)
(* A part is one extraction.  A rate of a part is found, or it is skipped  *)
(* because its row does not parse.  What a row says is left open: two rows *)
(* may be of one term and month, and then both are sent, as no crawler     *)
(* looks for repeats.                                                      *)
(***************************************************************************)
EXTENDS Naturals, FiniteSets, Sequences

CONSTANTS
  Crawled,      \* the banks whose crawlers are run
  Rows          \* the rows (entries, buttons) with a rate, in each table of a page

-----------------------------------------------------------------------------
(* The vocabulary of the plans *)

Rate(type, row) == [type |-> type, row |-> row]

Rates(type)  == {Rate(type, row) : row \in Rows}
ListRates    == Rates("listRate")
AverageRates == Rates("averageRate")
TierRates    == Rates("ratioDiscountedRate")

\* An extraction; panics: a row or an index it does not expect panics.
Part(rates)      == [rates |-> rates, panics |-> FALSE]
PanicPart(rates) == [rates |-> rates, panics |-> TRUE]

\* A source: the pages it requests, each found on the one before; the pages of
\* earlier steps it reads; its extractions.  Its failure is logged, and Crawl
\* goes on with the next step ...
Source(gets, uses, parts) ==
  [kind |-> "source", gets |-> gets, uses |-> uses, parts |-> parts,
   onFail |-> "next", emptyFails |-> FALSE]

\* ... or returns.
LastSource(gets, parts) == [Source(gets, {}, parts) EXCEPT !.onFail = "return"]

\* It is a failure when nothing at all was found.
NonEmpty(source) == [source EXCEPT !.emptyFails = TRUE]

\* A page that Crawl requests itself, and returns when it gets none.
Page(p) == LastSource(<<p>>, <<>>)

\* for _, set := range interestSets { channel <- set }
Send == [Source(<<>>, {}, <<>>) EXCEPT !.kind = "send"]

-----------------------------------------------------------------------------
(* The crawlers: every bank's extractions, and its plan *)

AvanzaRates == Part(ListRates)
Avanza == << Source(<<"stabelo">>, {}, <<AvanzaRates>>),
             Source(<<"landshypotek">>, {}, <<AvanzaRates>>), Send >>

HandelsbankenListRates == Part(ListRates)
HandelsbankenAverageRates == Part(AverageRates)
Handelsbanken == << Source(<<"list">>, {}, <<HandelsbankenListRates>>),
                    Source(<<"average">>, {}, <<HandelsbankenAverageRates>>), Send >>

IkanoListRates == Part(ListRates)
IkanoAverageRates == Part(AverageRates)
Ikano == << Source(<<"list">>, {}, <<IkanoListRates>>),
            Source(<<"average">>, {}, <<IkanoAverageRates>>), Send >>

SBABListRates == Part(ListRates)
SBABAverageRates == Part(AverageRates)
SBAB == << Source(<<"list">>, {}, <<SBABListRates>>),
           Source(<<"average">>, {}, <<SBABAverageRates>>), Send >>

SkandiaListRates == Part(ListRates)
SkandiaAverageRates == Part(AverageRates)
Skandia == << NonEmpty(Source(<<"list">>, {}, <<SkandiaListRates>>)),
              Source(<<"average">>, {}, <<SkandiaAverageRates>>), Send >>

BluestepListRates == Part(ListRates)
BluestepAverageRates == Part(AverageRates)
Bluestep == << Source(<<"list">>, {}, <<BluestepListRates>>),
               Source(<<"average">>, {}, <<BluestepAverageRates>>), Send >>

SwedbankListRates == Part(ListRates)
SwedbankAverageRates == Part(AverageRates)
Swedbank == << Source(<<"list">>, {}, <<SwedbankListRates>>),
               Source(<<"historic">>, {}, <<SwedbankAverageRates>>), Send >>

\* The workbook has a row per day of change; several days share a month.
NordeaListRates == Part(ListRates)
NordeaHistoricRates == Part(AverageRates)
Nordea == << Source(<<"list">>, {}, <<NordeaListRates>>),
             Source(<<"historic", "xlsx">>, {}, <<NordeaHistoricRates>>), Send >>

DanskeListRates == PanicPart(ListRates)
DanskeAverageRates == PanicPart(AverageRates)
DanskeBank == << Page("page"),
                 Source(<<>>, {"page"}, <<DanskeListRates>>),
                 Source(<<>>, {"page"}, <<DanskeAverageRates>>), Send >>

ICAListRates == Part(ListRates)
ICAAverageRates == Part(AverageRates)
ICABanken == << Page("page"),
                Source(<<>>, {"page"}, <<ICAListRates>>),
                Source(<<>>, {"page"}, <<ICAAverageRates>>), Send >>

AlandsListRates == Part(ListRates)
AlandsAverageRates == Part(AverageRates)
Alandsbanken == << Page("page"),
                   Source(<<>>, {"page"}, <<AlandsListRates>>),
                   Source(<<>>, {"page"}, <<AlandsAverageRates>>), Send >>

HypoteketListRates == PanicPart(ListRates)
HypoteketAverageRates == PanicPart(AverageRates)
Hypoteket == << Page("payload"),
                Source(<<>>, {"payload"}, <<HypoteketListRates>>),
                Source(<<>>, {"payload"}, <<HypoteketAverageRates>>), Send >>

\* fetchRates has two extractions; it fails when neither finds a rate.
StabeloListRates == Part(ListRates)
StabeloTierRates == Part(TierRates)
StabeloAverageRates == Part(AverageRates)
Stabelo == << NonEmpty(Source(<<"table">>, {}, <<StabeloListRates, StabeloTierRates>>)), Send,
              Source(<<"page", "pdf">>, {}, <<StabeloAverageRates>>), Send >>

\* The two pages lead to the API key, which both requests need.
SEBKey == << LastSource(<<"html", "js">>, <<>>) >>
SEBListRates == Part(ListRates)
SEBAverageRates == Part(AverageRates)
SEB == SEBKey \o << Source(<<"list">>, {"html", "js"}, <<SEBListRates>>),
                    Source(<<"average">>, {"html", "js"}, <<SEBAverageRates>>), Send >>

\* A table for each of two terms: an average rate in every row, and a list rate in the first.
JAKTermRates == Part({Rate("listRate", 1)} \cup AverageRates)
JAK == << NonEmpty(LastSource(<<"page">>, <<JAKTermRates, JAKTermRates>>)), Send >>

SveaListRate == Part({Rate("listRate", 1)})
SveaAverageRates == Part(AverageRates)
Svea == << Source(<<"list">>, {}, <<SveaListRate>>), Send,
           NonEmpty(LastSource(<<"average">>, <<SveaAverageRates>>)), Send >>

\* The PDF has an address of its own, but the HTML page comes first.
LFListRates == Part(ListRates)
LFAverageRates == Part(AverageRates)
Lansforsakringar == << Page("page"),
                       Source(<<>>, {"page"}, <<LFListRates>>), Send,
                       NonEmpty(Source(<<"pdf">>, {}, <<LFAverageRates>>)), Send >>

NordnetListRates == Part(ListRates)
Nordnet == << LastSource(<<"rates">>, <<NordnetListRates>>), Send >>

NordaxAverageRates == Part(AverageRates)
Nordax == << LastSource(<<"average">>, <<NordaxAverageRates>>), Send >>

MarginalenAverageRates == Part(AverageRates)
Marginalen == << NonEmpty(LastSource(<<"api">>, <<MarginalenAverageRates>>)), Send >>

\* Two loan-to-value tiers, list rates, this month's averages and all of them.
LandshypotekTier == Part(TierRates)
LandshypotekListRates == Part(ListRates)
LandshypotekCurrent == Part(AverageRates)
LandshypotekHistorical == Part(AverageRates)
Landshypotek == << Page("page"),
                   Source(<<>>, {"page"}, <<LandshypotekTier>>),
                   Source(<<>>, {"page"}, <<LandshypotekTier>>),
                   Source(<<>>, {"page"}, <<LandshypotekListRates>>),
                   Source(<<>>, {"page"}, <<LandshypotekCurrent>>),
                   Source(<<>>, {"page"}, <<LandshypotekHistorical>>), Send >>

\* The crawlers that main() makes.
Banks ==
  {"DanskeBank", "SEB", "ICABanken", "Nordea", "Handelsbanken", "Hypoteket", "SBAB",
   "Skandia", "Swedbank", "Stabelo", "Bluestep", "Ikano", "Alandsbanken", "Nordax", "Nordnet",
   "Lansforsakringar", "Landshypotek", "JAK", "Svea", "Avanza", "Marginalen"}

Plans ==
  [b \in Banks |->
     CASE b = "DanskeBank" -> DanskeBank
       [] b = "SEB" -> SEB
       [] b = "ICABanken" -> ICABanken
       [] b = "Nordea" -> Nordea
       [] b = "Handelsbanken" -> Handelsbanken
       [] b = "Hypoteket" -> Hypoteket
       [] b = "SBAB" -> SBAB
       [] b = "Skandia" -> Skandia
       [] b = "Swedbank" -> Swedbank
       [] b = "Stabelo" -> Stabelo
       [] b = "Bluestep" -> Bluestep
       [] b = "Ikano" -> Ikano
       [] b = "Alandsbanken" -> Alandsbanken
       [] b = "Nordax" -> Nordax
       [] b = "Nordnet" -> Nordnet
       [] b = "Lansforsakringar" -> Lansforsakringar
       [] b = "Landshypotek" -> Landshypotek
       [] b = "JAK" -> JAK
       [] b = "Svea" -> Svea
       [] b = "Avanza" -> Avanza
       [] b = "Marginalen" -> Marginalen]

-----------------------------------------------------------------------------
(* Running a plan *)

ASSUME CrawledExist == Crawled \subseteq Banks
ASSUME RowsFinite == IsFiniteSet(Rows)

VARIABLES
  bank,       \* whose Crawl this is
  step,       \* the step of the plan it is at
  pages,      \* what became of each page: it is here, it failed, or it was not asked for
  part,       \* the extraction of the step that is running
  left,       \* the rates it has not come to
  found,      \* every set an extraction made: from which one, and of which rate
  collected,  \* interestSets: the sets of all steps before
  sent,       \* how many of them went into the channel
  broken,     \* the extractions <<step, part>> that failed on their page
  crawl       \* "running", "returned" or "panicked"

vars == <<bank, step, pages, part, left, found, collected, sent, broken, crawl>>

Plan == Plans[bank]
Here == Plan[step]              \* the step Crawl is at
Elements(s) == {s[i] : i \in DOMAIN s}
PagesOf(s) == Elements(s.gets) \cup s.uses
AllPages(plan) == UNION {PagesOf(plan[k]) : k \in DOMAIN plan}

RatesAt(plan, k, i) == IF k \in DOMAIN plan /\ i \in DOMAIN plan[k].parts
                       THEN plan[k].parts[i].rates ELSE {}

Init ==
  /\ bank \in Crawled
  /\ step = 1
  /\ pages = [p \in AllPages(Plan) |-> "unasked"]
  /\ part = 1
  /\ left = RatesAt(Plan, 1, 1)
  /\ found = <<>>
  /\ collected = <<>>
  /\ sent = 0
  /\ broken = {}
  /\ crawl = "running"

Running == crawl = "running" /\ step \in DOMAIN Plan

\* The pages of the step are requested one after the other.
Asked == Cardinality({i \in DOMAIN Here.gets : pages[Here.gets[i]] # "unasked"})
Fetched == Asked = Len(Here.gets)

GoTo(k) ==
  /\ step' = k
  /\ part' = 1
  /\ left' = RatesAt(Plan, k, 1)

Stay == UNCHANGED <<step, part, left>>

\* The sets that the extractions of this step made: those found last.
FoundHere ==
  LET earlier == {n \in DOMAIN found : found[n].from[1] # step}
  IN  SubSeq(found, Cardinality(earlier) + 1, Len(found))

\* Faulty variant: every failure ends the crawl.
FailForGood ==
  /\ crawl' = "returned"
  /\ Stay

\* Faulty variant: a source that failed is tried again at once.
FailAndRetry ==
  /\ GoTo(step)
  /\ UNCHANGED crawl

\* A step ends in failure, which is logged.
Fail ==
  \/ /\ Here.onFail = "next"
     /\ GoTo(step + 1)
     /\ UNCHANGED crawl
  \/ /\ Here.onFail = "return"
     /\ crawl' = "returned"
     /\ Stay

\* Fetch or FetchRaw returns a body.
Arrives ==
  /\ Running /\ ~Fetched
  /\ pages' = [pages EXCEPT ![Here.gets[Asked + 1]] = "here"]
  /\ Stay /\ UNCHANGED <<bank, found, collected, sent, broken, crawl>>

\* Fetch fails, or the page lacks the link or the key that leads on.
GetFails ==
  /\ Running /\ ~Fetched
  /\ pages' = [pages EXCEPT ![Here.gets[Asked + 1]] = "failed"]
  /\ Fail
  /\ UNCHANGED <<bank, found, collected, sent, broken>>

Extracting == Running /\ Fetched /\ part \in DOMAIN Here.parts

\* The extraction does not find its table, its JSON or its text.
PartFails ==
  /\ Extracting
  /\ left = Here.parts[part].rates
  /\ broken' = broken \cup {<<step, part>>}
  /\ part' = part + 1
  /\ left' = RatesAt(Plan, step, part + 1)
  /\ UNCHANGED <<bank, step, pages, found, collected, sent, crawl>>

\* A row yields a set, or is skipped; rows and map entries come in any order.
Row(rate) ==
  /\ Extracting /\ rate \in left
  /\ left' = left \ {rate}
  /\ \/ found' = Append(found, [from |-> <<step, part>>, rate |-> rate])
     \/ UNCHANGED found
  /\ UNCHANGED <<bank, step, pages, part, collected, sent, broken, crawl>>

\* Faulty variant: any extraction may index out of range.
RowPanicsAnywhere ==
  /\ Extracting /\ left # {}
  /\ crawl' = "panicked"
  /\ Stay /\ UNCHANGED <<bank, pages, found, collected, sent, broken>>

RowPanics ==
  /\ Extracting /\ left # {}
  /\ Here.parts[part].panics
  /\ crawl' = "panicked"
  /\ Stay /\ UNCHANGED <<bank, pages, found, collected, sent, broken>>

PartEnds ==
  /\ Extracting /\ left = {}
  /\ part' = part + 1
  /\ left' = RatesAt(Plan, step, part + 1)
  /\ UNCHANGED <<bank, step, pages, found, collected, sent, broken, crawl>>

\* An extraction that failed alone, and one that must not be empty, is the
\* failure of its source.
Failed == /\ Here.parts # <<>>
          /\ \/ \A i \in DOMAIN Here.parts : <<step, i>> \in broken
             \/ Here.emptyFails /\ FoundHere = <<>>

SourceEnds ==
  /\ Running /\ Here.kind = "source" /\ Fetched
  /\ part = Len(Here.parts) + 1
  /\ \/ Failed /\ Fail /\ UNCHANGED collected
     \/ /\ ~Failed
        /\ collected' = collected \o FoundHere
        /\ GoTo(step + 1)
        /\ UNCHANGED crawl
  /\ UNCHANGED <<bank, pages, found, sent, broken>>

\* Faulty variant: one index too many.
SendSetTooFar ==
  /\ Running /\ Here.kind = "send" /\ sent <= Len(collected)
  /\ sent' = sent + 1
  /\ Stay /\ UNCHANGED <<bank, pages, found, collected, broken, crawl>>

SendSet ==
  /\ Running /\ Here.kind = "send" /\ sent < Len(collected)
  /\ sent' = sent + 1
  /\ Stay /\ UNCHANGED <<bank, pages, found, collected, broken, crawl>>

SendEnds ==
  /\ Running /\ Here.kind = "send" /\ sent = Len(collected)
  /\ GoTo(step + 1)
  /\ UNCHANGED <<bank, pages, found, collected, sent, broken, crawl>>

Return ==
  /\ crawl = "running" /\ step = Len(Plan) + 1
  /\ crawl' = "returned"
  /\ Stay /\ UNCHANGED <<bank, pages, found, collected, sent, broken>>

Over == crawl # "running" /\ UNCHANGED vars

Next ==
  \/ Arrives
  \/ GetFails
  \/ PartFails
  \/ \E rate \in left : Row(rate)
  \/ RowPanics
  \/ PartEnds
  \/ SourceEnds
  \/ SendSet
  \/ SendEnds
  \/ Return
  \/ Over

\* Every request ends, by the 30 s of the client at the latest; every send is
\* taken (OfferIsTaken of CrawlService); the rest is the goroutine's own doing.
Spec == Init /\ [][Next]_vars /\ WF_vars(Next)

-----------------------------------------------------------------------------
(* Properties *)

\* Type invariant; what is sent was collected, and came from a page that is here.
TypeOK ==
  /\ bank \in Crawled
  /\ step \in 1 .. Len(Plan) + 1
  /\ \A p \in DOMAIN pages : pages[p] \in {"unasked", "here", "failed"}
  /\ sent \in 0 .. Len(collected)
  /\ crawl \in {"running", "returned", "panicked"}
  /\ \A n \in DOMAIN collected :
       /\ collected[n].from \notin broken
       /\ \A p \in PagesOf(Plan[collected[n].from[1]]) : pages[p] = "here"

\* The pages of a step could be had, for all that is known.
Reachable(k) == \A p \in PagesOf(Plan[k]) : pages[p] # "failed"

\* What goes wrong with one source costs no other source its rates: when Crawl
\* returns, it has asked for every page that could be had, and has sent every
\* set that any extraction made.  The PDF
\* of Lansforsakringar is the exception: it is not asked for when the HTML page,
\* which it does not need, fails.
FailuresAreIsolated ==
  crawl = "returned" =>
    /\ \A f \in Elements(found) : \E n \in 1 .. sent : collected[n] = f
    /\ bank # "Lansforsakringar" =>
         \A k \in DOMAIN Plan : Reachable(k) => \A p \in PagesOf(Plan[k]) : pages[p] = "here"

\* Each of the programs is a SiteCrawler: it sends until it is over and nothing
\* afterwards, and only Danske's and Hypoteket's can panic on a page.
Risky == bank \in {"DanskeBank", "Hypoteket"}
Interface == INSTANCE SiteCrawler WITH crawl <- crawl, sends <- sent, risky <- Risky
ImplementsSiteCrawler == Interface!Spec

\* Every Crawl ends: it returns or panics.
CrawlEnds == <>(crawl # "running")
=============================================================================

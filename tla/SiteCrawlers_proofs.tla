------------------------ MODULE SiteCrawlers_proofs ------------------------
(***************************************************************************)
(* Proofs about SiteCrawlers, for any of the banks and any number of rates *)
(* on a page.  The plans are looked at once: each is WellMade.  From there *)
(* on the proofs speak of any well-made plan.  Whether a failing source    *)
(* costs another its rates is told when Crawl returns, long after the      *)
(* failure; the invariant says of every step that is over what became of   *)
(* its pages, and of every set that is not sent that no send has passed it.*)
(***************************************************************************)
EXTENDS SiteCrawlers, FiniteSetTheorems, SequenceTheorems, TLAPS

-----------------------------------------------------------------------------
(* What the plans have in common, and all that the steps of a proof know of them *)

IsASequence(s) == Len(s) \in Nat /\ DOMAIN s = 1 .. Len(s) /\ (s = <<>> <=> Len(s) = 0)

\* A plan is a sequence of sources and sends; a send neither requests nor extracts.
Steps(plan) ==
  /\ IsASequence(plan)
  /\ \A k \in DOMAIN plan :
       /\ IsASequence(plan[k].gets) /\ IsASequence(plan[k].parts)
       /\ plan[k].kind = "send" => plan[k].gets = <<>> /\ plan[k].parts = <<>>

\* No page is requested twice.
AskedOnce(plan) ==
  \A k, m \in DOMAIN plan : \A i \in DOMAIN plan[k].gets, j \in DOMAIN plan[m].gets :
    plan[k].gets[i] = plan[m].gets[j] => k = m /\ i = j

\* A step reads pages of earlier steps without which Crawl has returned.
UsesEarlier(plan) ==
  \A k \in DOMAIN plan : \A p \in plan[k].uses : \E m \in 1 .. k - 1 :
    plan[m].onFail = "return" /\ p \in Elements(plan[m].gets)

\* Whatever has been extracted is sent before Crawl may return.
SendsBefore(plan, m) ==
  \A k \in 1 .. m - 1 : plan[k].parts # <<>> => \E j \in k + 1 .. m - 1 : plan[j].kind = "send"

SendsFirst(plan) ==
  /\ SendsBefore(plan, Len(plan) + 1)
  /\ \A m \in DOMAIN plan : plan[m].onFail = "return" => SendsBefore(plan, m)

\* A failure that returns leaves out only steps without pages, and, when it can be
\* that of a page, steps that read that page.
ReturnsWell(plan) ==
  \A k \in DOMAIN plan : plan[k].onFail = "return" =>
    \A m \in k + 1 .. Len(plan) :
      \/ PagesOf(plan[m]) = {}
      \/ plan[k].parts = <<>> /\ Elements(plan[k].gets) \subseteq PagesOf(plan[m])

\* No extraction panics.
Calm(plan) == \A k \in DOMAIN plan : \A i \in DOMAIN plan[k].parts : ~plan[k].parts[i].panics

\* The plans of all banks, with the exceptions that the properties name.
WellMade(b) ==
  /\ Steps(Plans[b])
  /\ AskedOnce(Plans[b])
  /\ UsesEarlier(Plans[b])
  /\ SendsFirst(Plans[b])
  /\ b # "Lansforsakringar" => ReturnsWell(Plans[b])
  /\ b \notin {"DanskeBank", "Hypoteket"} => Calm(Plans[b])

-----------------------------------------------------------------------------
(* The inductive invariant *)

\* The sets that the extractions of the plan can make.
SetsOf(k, i) == {[from |-> <<k, i>>, rate |-> rate] : rate \in RatesAt(Plan, k, i)}
Sets == UNION {UNION {SetsOf(k, i) : i \in DOMAIN Plan[k].parts} : k \in DOMAIN Plan}

\* What the variables hold.
Types ==
  /\ bank \in Crawled
  /\ step \in 1 .. Len(Plan) + 1
  /\ pages \in [AllPages(Plan) -> {"unasked", "here", "failed"}]
  /\ part \in Nat \ {0}
  /\ step \in DOMAIN Plan => part <= Len(Here.parts) + 1
  /\ left \subseteq RatesAt(Plan, step, part)
  /\ found \in Seq(Sets)
  /\ collected = SubSeq(found, 1, Len(collected))
  /\ sent \in 0 .. Len(collected)
  /\ Len(collected) <= Len(found)
  /\ crawl \in {"running", "returned", "panicked"}

\* A step that is over has its pages, or one of them failed.
PagesPassed ==
  \A k \in 1 .. step - 1 :
    \/ \A i \in DOMAIN Plan[k].gets : pages[Plan[k].gets[i]] = "here"
    \/ Plan[k].onFail = "next" /\ \E i \in DOMAIN Plan[k].gets : pages[Plan[k].gets[i]] = "failed"

\* The first n pages of the step are here, and the others were not asked for.
Had(n) == \A i \in DOMAIN Here.gets : pages[Here.gets[i]] = IF i <= n THEN "here" ELSE "unasked"

\* The pages of the step are requested in their order, and nothing is extracted
\* before the last is here.
PagesHere ==
  crawl = "running" /\ step \in DOMAIN Plan =>
    \E n \in 0 .. Len(Here.gets) :
      Had(n) /\ (n < Len(Here.gets) => part = 1 /\ left = RatesAt(Plan, step, 1))

\* Steps to come have not asked for their pages.
PagesAhead ==
  \A k \in step + 1 .. Len(Plan) : \A i \in DOMAIN Plan[k].gets : pages[Plan[k].gets[i]] = "unasked"

\* An extraction that failed is over.
BrokenBefore ==
  /\ broken \subseteq Nat \X (Nat \ {0})
  /\ \A e \in broken : e[1] < step \/ (e[1] = step /\ e[2] < part)

\* A set comes from an extraction that has begun and did not fail, from a rate that
\* it has come to, and from pages that are here.
FoundWell ==
  \A n \in DOMAIN found : LET k == found[n].from[1] IN
    /\ k < step \/ (k = step /\ found[n].from[2] <= part)
    /\ found[n].from = <<step, part>> =>
         found[n].rate \in RatesAt(Plan, step, part) \ left
    /\ found[n].from \notin broken
    /\ \A p \in PagesOf(Plan[k]) : pages[p] = "here"

\* The sets of earlier steps come first; they are the ones that are collected.
CollectedEarlier ==
  \A n \in DOMAIN found : n <= Len(collected) <=> found[n].from[1] < step

\* What is not sent yet was made after the last send.
UnsentIsNew ==
  \A n \in sent + 1 .. Len(collected) : \A j \in found[n].from[1] + 1 .. step - 1 :
    Plan[j].kind # "send"

\* The inductive invariant.
IInv ==
  /\ Types
  /\ PagesPassed /\ PagesHere /\ PagesAhead
  /\ BrokenBefore /\ FoundWell
  /\ CollectedEarlier /\ UnsentIsNew
  /\ FailuresAreIsolated

-----------------------------------------------------------------------------
\* What a step is made of.
Has(s, kind, gets, uses, parts, onFail) ==
  /\ s.kind = kind
  /\ s.gets = gets
  /\ s.uses = uses
  /\ s.parts = parts
  /\ s.onFail = onFail

\* What Source makes.
LEMMA SourceHas ==
  ASSUME NEW gets, NEW uses, NEW parts
  PROVE  /\ Has(Source(gets, uses, parts), "source", gets, uses, parts, "next")
         /\ Has(NonEmpty(Source(gets, uses, parts)), "source", gets, uses, parts, "next")
BY DEF Has, Source, NonEmpty

\* What LastSource makes.
LEMMA LastSourceHas ==
  ASSUME NEW gets, NEW parts
  PROVE  /\ Has(LastSource(gets, parts), "source", gets, {}, parts, "return")
         /\ Has(NonEmpty(LastSource(gets, parts)), "source", gets, {}, parts, "return")
BY DEF Has, Source, LastSource, NonEmpty

\* What Page makes.
LEMMA PageHas ==
  ASSUME NEW p
  PROVE  Has(Page(p), "source", <<p>>, {}, <<>>, "return")
BY LastSourceHas DEF Page

\* What Send is.
LEMMA SendHas == Has(Send, "send", <<>>, {}, <<>>, "next")
BY DEF Has, Source, Send

\* The order of a plan is right: all but what it says of returns and panics.
Ordered(plan) ==
  /\ Steps(plan)
  /\ AskedOnce(plan)
  /\ UsesEarlier(plan)
  /\ SendsFirst(plan)

\* Two sources with pages of their own.
LEMMA TwoSources ==
  ASSUME NEW s, NEW t, NEW p, NEW q, NEW r, NEW x, p # q,
         Has(s, "source", <<p>>, {}, <<Part(r)>>, "next"),
         Has(t, "source", <<q>>, {}, <<Part(x)>>, "next")
  PROVE  /\ Ordered(<<s, t, Send>>)
         /\ ReturnsWell(<<s, t, Send>>)
         /\ Calm(<<s, t, Send>>)
<1> DEFINE P == <<s, t, Send>>
<1>0. Has(Send, "send", <<>>, {}, <<>>, "next")
  BY SendHas
<1> HIDE DEF Send
<1>1. Len(P) = 3 /\ DOMAIN P = 1 .. 3 /\ IsASequence(P) /\ P[1] = s /\ P[2] = t /\ P[3] = Send
  BY DEF IsASequence
<1> HIDE DEF P
<1>2. Steps(P)
  BY <1>0, <1>1, SMTT(60) DEF Has, Steps, IsASequence
<1>3. AskedOnce(P)
  BY <1>0, <1>1 DEF Has, AskedOnce
<1>4. UsesEarlier(P)
  BY <1>0, <1>1 DEF Has, UsesEarlier
<1>5. SendsFirst(P)
  BY <1>0, <1>1 DEF Has, SendsFirst, SendsBefore
<1>6. ReturnsWell(P)
  BY <1>0, <1>1 DEF Has, ReturnsWell
<1>8. Calm(P)
  BY <1>0, <1>1 DEF Has, Calm, Part
<1> QED
  BY <1>2, <1>3, <1>4, <1>5, <1>6, <1>8 DEF P, Ordered

\* A page, and two sources that read it.
LEMMA PageOfTwo ==
  ASSUME NEW p, NEW r, NEW x
  PROVE  LET plan == <<Page(p), Source(<<>>, {p}, <<r>>), Source(<<>>, {p}, <<x>>), Send>>
         IN  /\ Ordered(plan)
             /\ ReturnsWell(plan)
             /\ ~r.panics /\ ~x.panics => Calm(plan)
<1> DEFINE P == <<Page(p), Source(<<>>, {p}, <<r>>), Source(<<>>, {p}, <<x>>), Send>>
<1>0. Len(P) = 4 /\ DOMAIN P = 1 .. 4 /\ IsASequence(P)
  BY DEF IsASequence
<1>1. /\ Has(P[1], "source", <<p>>, {}, <<>>, "return")
      /\ Has(P[2], "source", <<>>, {p}, <<r>>, "next")
      /\ Has(P[3], "source", <<>>, {p}, <<x>>, "next")
      /\ Has(P[4], "send", <<>>, {}, <<>>, "next")
  BY PageHas, SourceHas, SendHas
<1> HIDE DEF P
<1>2. Steps(P)
  BY <1>0, <1>1, SMTT(60) DEF Has, Steps, IsASequence
<1>3. AskedOnce(P)
  BY <1>0, <1>1 DEF Has, AskedOnce
<1>4. UsesEarlier(P)
  BY <1>0, <1>1 DEF Has, UsesEarlier, Elements
<1>5. SendsFirst(P)
  BY <1>0, <1>1 DEF Has, SendsFirst, SendsBefore
<1>6. ReturnsWell(P)
  BY <1>0, <1>1 DEF Has, ReturnsWell, Elements, PagesOf
<1>8. ~r.panics /\ ~x.panics => Calm(P)
  BY <1>0, <1>1 DEF Has, Calm
<1> QED
  BY <1>2, <1>3, <1>4, <1>5, <1>6, <1>8 DEF P, Ordered

\* One source, without which there is nothing.
LEMMA OneSource ==
  ASSUME NEW s, NEW p, NEW r, Has(s, "source", <<p>>, {}, <<Part(r)>>, "return")
  PROVE  /\ Ordered(<<s, Send>>)
         /\ ReturnsWell(<<s, Send>>)
         /\ Calm(<<s, Send>>)
<1> DEFINE P == <<s, Send>>
<1>0. Len(P) = 2 /\ DOMAIN P = 1 .. 2 /\ IsASequence(P)
  BY DEF IsASequence
<1>1. /\ Has(P[1], "source", <<p>>, {}, <<Part(r)>>, "return")
      /\ Has(P[2], "send", <<>>, {}, <<>>, "next")
  BY PageHas, SourceHas, LastSourceHas, SendHas
<1> HIDE DEF P
<1>2. Steps(P)
  BY <1>0, <1>1, SMTT(60) DEF Has, Steps, IsASequence
<1>3. AskedOnce(P)
  BY <1>0, <1>1 DEF Has, AskedOnce
<1>4. UsesEarlier(P)
  BY <1>0, <1>1 DEF Has, UsesEarlier, Elements
<1>5. SendsFirst(P)
  BY <1>0, <1>1 DEF Has, SendsFirst, SendsBefore
<1>6. ReturnsWell(P)
  BY <1>0, <1>1 DEF Has, ReturnsWell, Elements, PagesOf
<1>8. Calm(P)
  BY <1>0, <1>1 DEF Has, Calm, Part
<1> QED
  BY <1>2, <1>3, <1>4, <1>5, <1>6, <1>8 DEF P, Ordered

\* Nordea's second source has two pages.
LEMMA NordeaMade ==
  Ordered(Nordea) /\ ReturnsWell(Nordea) /\ Calm(Nordea)
<1> DEFINE P == Nordea
<1>0. Len(P) = 3 /\ DOMAIN P = 1 .. 3 /\ IsASequence(P)
  BY DEF IsASequence, Nordea, NordeaListRates
<1>1. /\ Has(P[1], "source", <<"list">>, {}, <<Part(ListRates)>>, "next")
      /\ Has(P[2], "source", <<"historic", "xlsx">>, {}, <<NordeaHistoricRates>>, "next")
      /\ Has(P[3], "send", <<>>, {}, <<>>, "next")
  BY PageHas, SourceHas, LastSourceHas, SendHas DEF Nordea, NordeaListRates
<1> HIDE DEF P
<1>2. Steps(P)
  BY <1>0, <1>1, SMTT(60) DEF Has, Steps, IsASequence
<1>3. AskedOnce(P)
  BY <1>0, <1>1 DEF Has, AskedOnce
<1>4. UsesEarlier(P)
  BY <1>0, <1>1 DEF Has, UsesEarlier, Elements
<1>5. SendsFirst(P)
  BY <1>0, <1>1 DEF Has, SendsFirst, SendsBefore
<1>6. ReturnsWell(P)
  BY <1>0, <1>1 DEF Has, ReturnsWell, Elements, PagesOf
<1>8. Calm(P)
  BY <1>0, <1>1 DEF Has, Calm, Part, NordeaHistoricRates
<1> QED
  BY <1>2, <1>3, <1>4, <1>5, <1>6, <1>8 DEF P, Ordered

\* Stabelo's first source has two extractions.
LEMMA StabeloMade ==
  Ordered(Stabelo) /\ ReturnsWell(Stabelo) /\ Calm(Stabelo)
<1> DEFINE P == Stabelo
<1>0. Len(P) = 4 /\ DOMAIN P = 1 .. 4 /\ IsASequence(P)
  BY DEF IsASequence, Stabelo, StabeloListRates, StabeloTierRates, StabeloAverageRates
<1>1. /\ Has(P[1], "source", <<"table">>, {}, <<Part(ListRates), Part(TierRates)>>, "next")
      /\ Has(P[2], "send", <<>>, {}, <<>>, "next")
      /\ Has(P[3], "source", <<"page", "pdf">>, {}, <<Part(AverageRates)>>, "next")
      /\ Has(P[4], "send", <<>>, {}, <<>>, "next")
  BY PageHas, SourceHas, LastSourceHas, SendHas DEF Stabelo, StabeloListRates, StabeloTierRates,
     StabeloAverageRates
<1> HIDE DEF P
<1>2. Steps(P)
  BY <1>0, <1>1, SMTT(60) DEF Has, Steps, IsASequence
<1>3. AskedOnce(P)
  BY <1>0, <1>1 DEF Has, AskedOnce
<1>4. UsesEarlier(P)
  BY <1>0, <1>1 DEF Has, UsesEarlier, Elements
<1>5. SendsFirst(P)
  BY <1>0, <1>1 DEF Has, SendsFirst, SendsBefore
<1>6. ReturnsWell(P)
  BY <1>0, <1>1 DEF Has, ReturnsWell, Elements, PagesOf
<1>8. Calm(P)
  BY <1>0, <1>1 DEF Has, Calm, Part
<1> QED
  BY <1>2, <1>3, <1>4, <1>5, <1>6, <1>8 DEF P, Ordered

\* SEB looks for its key first.
LEMMA SEBMade ==
  Ordered(SEB) /\ ReturnsWell(SEB) /\ Calm(SEB)
<1> DEFINE P == SEB
<1>0. Len(P) = 4 /\ DOMAIN P = 1 .. 4 /\ IsASequence(P)
  BY DEF IsASequence, SEB, SEBKey, SEBListRates, SEBAverageRates
<1>1. /\ Has(P[1], "source", <<"html", "js">>, {}, <<>>, "return")
      /\ Has(P[2], "source", <<"list">>, {"html", "js"}, <<Part(ListRates)>>, "next")
      /\ Has(P[3], "source", <<"average">>, {"html", "js"}, <<Part(AverageRates)>>, "next")
      /\ Has(P[4], "send", <<>>, {}, <<>>, "next")
  BY PageHas, SourceHas, LastSourceHas, SendHas DEF SEB, SEBKey, SEBListRates, SEBAverageRates
<1> HIDE DEF P
<1>2. Steps(P)
  BY <1>0, <1>1, SMTT(60) DEF Has, Steps, IsASequence
<1>3. AskedOnce(P)
  BY <1>0, <1>1 DEF Has, AskedOnce
<1>4. UsesEarlier(P)
  BY <1>0, <1>1 DEF Has, UsesEarlier, Elements
<1>5. SendsFirst(P)
  BY <1>0, <1>1 DEF Has, SendsFirst, SendsBefore
<1>6. ReturnsWell(P)
  BY <1>0, <1>1 DEF Has, ReturnsWell, Elements, PagesOf
<1>8. Calm(P)
  BY <1>0, <1>1 DEF Has, Calm, Part
<1> QED
  BY <1>2, <1>3, <1>4, <1>5, <1>6, <1>8 DEF P, Ordered

\* JAK has a table for each term.
LEMMA JAKMade ==
  Ordered(JAK) /\ ReturnsWell(JAK) /\ Calm(JAK)
<1> DEFINE P == JAK
<1>0. Len(P) = 2 /\ DOMAIN P = 1 .. 2 /\ IsASequence(P)
  BY DEF IsASequence, JAK
<1>1. /\ Has(P[1], "source", <<"page">>, {}, <<JAKTermRates, JAKTermRates>>, "return")
      /\ Has(P[2], "send", <<>>, {}, <<>>, "next")
  BY PageHas, SourceHas, LastSourceHas, SendHas DEF JAK
<1> HIDE DEF P
<1>2. Steps(P)
  BY <1>0, <1>1, SMTT(60) DEF Has, Steps, IsASequence
<1>3. AskedOnce(P)
  BY <1>0, <1>1 DEF Has, AskedOnce
<1>4. UsesEarlier(P)
  BY <1>0, <1>1 DEF Has, UsesEarlier, Elements
<1>5. SendsFirst(P)
  BY <1>0, <1>1 DEF Has, SendsFirst, SendsBefore
<1>6. ReturnsWell(P)
  BY <1>0, <1>1 DEF Has, ReturnsWell, Elements, PagesOf
<1>8. Calm(P)
  BY <1>0, <1>1 DEF Has, Calm, Part, JAKTermRates
<1> QED
  BY <1>2, <1>3, <1>4, <1>5, <1>6, <1>8 DEF P, Ordered

\* Svea sends its one list rate before it asks for the averages.
LEMMA SveaMade ==
  Ordered(Svea) /\ ReturnsWell(Svea) /\ Calm(Svea)
<1> DEFINE P == Svea
<1>0. Len(P) = 4 /\ DOMAIN P = 1 .. 4 /\ IsASequence(P)
  BY DEF IsASequence, Svea, SveaAverageRates
<1>1. /\ Has(P[1], "source", <<"list">>, {}, <<SveaListRate>>, "next")
      /\ Has(P[2], "send", <<>>, {}, <<>>, "next")
      /\ Has(P[3], "source", <<"average">>, {}, <<Part(AverageRates)>>, "return")
      /\ Has(P[4], "send", <<>>, {}, <<>>, "next")
  BY PageHas, SourceHas, LastSourceHas, SendHas DEF Svea, SveaAverageRates
<1> HIDE DEF P
<1>2. Steps(P)
  BY <1>0, <1>1, SMTT(60) DEF Has, Steps, IsASequence
<1>3. AskedOnce(P)
  BY <1>0, <1>1 DEF Has, AskedOnce
<1>4. UsesEarlier(P)
  BY <1>0, <1>1 DEF Has, UsesEarlier, Elements
<1>5. SendsFirst(P)
  BY <1>0, <1>1 DEF Has, SendsFirst, SendsBefore
<1>6. ReturnsWell(P)
  BY <1>0, <1>1 DEF Has, ReturnsWell, Elements, PagesOf
<1>8. Calm(P)
  BY <1>0, <1>1 DEF Has, Calm, Part, SveaListRate
<1> QED
  BY <1>2, <1>3, <1>4, <1>5, <1>6, <1>8 DEF P, Ordered

\* Lansforsakringar returns without its page, though the PDF does not need it.
LEMMA LansforsakringarMade ==
  Ordered(Lansforsakringar) /\ Calm(Lansforsakringar)
<1> DEFINE P == Lansforsakringar
<1>0. Len(P) = 5 /\ DOMAIN P = 1 .. 5 /\ IsASequence(P)
  BY DEF IsASequence, Lansforsakringar, LFListRates, LFAverageRates
<1>1. /\ Has(P[1], "source", <<"page">>, {}, <<>>, "return")
      /\ Has(P[2], "source", <<>>, {"page"}, <<Part(ListRates)>>, "next")
      /\ Has(P[3], "send", <<>>, {}, <<>>, "next")
      /\ Has(P[4], "source", <<"pdf">>, {}, <<Part(AverageRates)>>, "next")
      /\ Has(P[5], "send", <<>>, {}, <<>>, "next")
  BY PageHas, SourceHas, LastSourceHas, SendHas DEF Lansforsakringar, LFListRates, LFAverageRates
<1> HIDE DEF P
<1>2. Steps(P)
  BY <1>0, <1>1, SMTT(60) DEF Has, Steps, IsASequence
<1>3. AskedOnce(P)
  BY <1>0, <1>1 DEF Has, AskedOnce
<1>4. UsesEarlier(P)
  BY <1>0, <1>1 DEF Has, UsesEarlier, Elements
<1>5. SendsFirst(P)
  BY <1>0, <1>1 DEF Has, SendsFirst, SendsBefore
<1>8. Calm(P)
  BY <1>0, <1>1 DEF Has, Calm, Part
<1> QED
  BY <1>2, <1>3, <1>4, <1>5, <1>8 DEF P, Ordered

\* Landshypotek has five extractions of one page.
LEMMA LandshypotekMade ==
  Ordered(Landshypotek) /\ ReturnsWell(Landshypotek) /\ Calm(Landshypotek)
<1> DEFINE P == Landshypotek
<1>0. Len(P) = 7 /\ DOMAIN P = 1 .. 7 /\ IsASequence(P)
  BY DEF IsASequence, Landshypotek
<1>1. /\ Has(P[1], "source", <<"page">>, {}, <<>>, "return")
      /\ Has(P[2], "source", <<>>, {"page"}, <<LandshypotekTier>>, "next")
      /\ Has(P[3], "source", <<>>, {"page"}, <<LandshypotekTier>>, "next")
      /\ Has(P[4], "source", <<>>, {"page"}, <<LandshypotekListRates>>, "next")
      /\ Has(P[5], "source", <<>>, {"page"}, <<LandshypotekCurrent>>, "next")
      /\ Has(P[6], "source", <<>>, {"page"}, <<LandshypotekHistorical>>, "next")
      /\ Has(P[7], "send", <<>>, {}, <<>>, "next")
  BY PageHas, SourceHas, LastSourceHas, SendHas DEF Landshypotek
<1> HIDE DEF P
<1>2. Steps(P)
  BY <1>0, <1>1, SMTT(60) DEF Has, Steps, IsASequence
<1>3. AskedOnce(P)
  BY <1>0, <1>1 DEF Has, AskedOnce
<1>4. UsesEarlier(P)
  BY <1>0, <1>1 DEF Has, UsesEarlier, Elements
<1>5. SendsFirst(P)
  BY <1>0, <1>1 DEF Has, SendsFirst, SendsBefore
<1>6. ReturnsWell(P)
  BY <1>0, <1>1 DEF Has, ReturnsWell, Elements, PagesOf
<1>8. Calm(P)
  BY <1>0, <1>1 DEF Has, Calm, Part, LandshypotekTier, LandshypotekListRates,
     LandshypotekCurrent, LandshypotekHistorical
<1> QED
  BY <1>2, <1>3, <1>4, <1>5, <1>6, <1>8 DEF P, Ordered

\* The plan of each bank is its own.
LEMMA PlanOfBank ==
  /\ Plans["DanskeBank"] = DanskeBank
  /\ Plans["SEB"] = SEB
  /\ Plans["ICABanken"] = ICABanken
  /\ Plans["Nordea"] = Nordea
  /\ Plans["Handelsbanken"] = Handelsbanken
  /\ Plans["Hypoteket"] = Hypoteket
  /\ Plans["SBAB"] = SBAB
  /\ Plans["Skandia"] = Skandia
  /\ Plans["Swedbank"] = Swedbank
  /\ Plans["Stabelo"] = Stabelo
  /\ Plans["Bluestep"] = Bluestep
  /\ Plans["Ikano"] = Ikano
  /\ Plans["Alandsbanken"] = Alandsbanken
  /\ Plans["Nordax"] = Nordax
  /\ Plans["Nordnet"] = Nordnet
  /\ Plans["Lansforsakringar"] = Lansforsakringar
  /\ Plans["Landshypotek"] = Landshypotek
  /\ Plans["JAK"] = JAK
  /\ Plans["Svea"] = Svea
  /\ Plans["Avanza"] = Avanza
  /\ Plans["Marginalen"] = Marginalen
BY DEF Plans, Banks

-----------------------------------------------------------------------------
\* The plan of every crawler is well made.
LEMMA PlansWellMade == \A b \in Banks : WellMade(b)
<1>1. WellMade("DanskeBank")
  BY PlanOfBank, PageOfTwo DEF DanskeBank, DanskeListRates, DanskeAverageRates, PanicPart, WellMade,
     Ordered
<1>2. WellMade("SEB")
  BY PlanOfBank, SEBMade DEF WellMade, Ordered
<1>3. WellMade("ICABanken")
  BY PlanOfBank, PageOfTwo DEF ICABanken, ICAListRates, ICAAverageRates, Part, WellMade, Ordered
<1>4. WellMade("Nordea")
  BY PlanOfBank, NordeaMade DEF WellMade, Ordered
<1>5. WellMade("Handelsbanken")
  BY PlanOfBank, TwoSources, SourceHas DEF Handelsbanken, HandelsbankenListRates, HandelsbankenAverageRates,
     WellMade, Ordered
<1>6. WellMade("Hypoteket")
  BY PlanOfBank, PageOfTwo DEF Hypoteket, HypoteketListRates, HypoteketAverageRates, PanicPart, WellMade,
     Ordered
<1>7. WellMade("SBAB")
  BY PlanOfBank, TwoSources, SourceHas DEF SBAB, SBABListRates, SBABAverageRates, WellMade, Ordered
<1>8. WellMade("Skandia")
  BY PlanOfBank, TwoSources, SourceHas DEF Skandia, SkandiaListRates, SkandiaAverageRates, WellMade,
     Ordered
<1>9. WellMade("Swedbank")
  BY PlanOfBank, TwoSources, SourceHas DEF Swedbank, SwedbankListRates, SwedbankAverageRates, WellMade,
     Ordered
<1>10. WellMade("Stabelo")
  BY PlanOfBank, StabeloMade DEF WellMade, Ordered
<1>11. WellMade("Bluestep")
  BY PlanOfBank, TwoSources, SourceHas DEF Bluestep, BluestepListRates, BluestepAverageRates, WellMade,
     Ordered
<1>12. WellMade("Ikano")
  BY PlanOfBank, TwoSources, SourceHas DEF Ikano, IkanoListRates, IkanoAverageRates, WellMade, Ordered
<1>13. WellMade("Alandsbanken")
  BY PlanOfBank, PageOfTwo DEF Alandsbanken, AlandsListRates, AlandsAverageRates, Part, WellMade, Ordered
<1>14. WellMade("Nordax")
  BY PlanOfBank, OneSource, LastSourceHas DEF Nordax, NordaxAverageRates, WellMade, Ordered
<1>15. WellMade("Nordnet")
  BY PlanOfBank, OneSource, LastSourceHas DEF Nordnet, NordnetListRates, WellMade, Ordered
<1>16. WellMade("Lansforsakringar")
  BY PlanOfBank, LansforsakringarMade DEF WellMade, Ordered
<1>17. WellMade("Landshypotek")
  BY PlanOfBank, LandshypotekMade DEF WellMade, Ordered
<1>18. WellMade("JAK")
  BY PlanOfBank, JAKMade DEF WellMade, Ordered
<1>19. WellMade("Svea")
  BY PlanOfBank, SveaMade DEF WellMade, Ordered
<1>20. WellMade("Avanza")
  BY PlanOfBank, TwoSources, SourceHas DEF Avanza, AvanzaRates, WellMade, Ordered
<1>21. WellMade("Marginalen")
  BY PlanOfBank, OneSource, LastSourceHas DEF Marginalen, MarginalenAverageRates, WellMade, Ordered
<1>22. Banks = {"DanskeBank", "SEB", "ICABanken", "Nordea", "Handelsbanken", "Hypoteket", "SBAB",
   "Skandia", "Swedbank", "Stabelo", "Bluestep", "Ikano", "Alandsbanken", "Nordax", "Nordnet",
   "Lansforsakringar", "Landshypotek", "JAK", "Svea", "Avanza", "Marginalen"}
  BY DEF Banks
<1> QED
  BY <1>1, <1>2, <1>3, <1>4, <1>5, <1>6, <1>7, <1>8, <1>9, <1>10, <1>11, <1>12, <1>13, <1>14,
     <1>15, <1>16, <1>17, <1>18, <1>19, <1>20, <1>21, <1>22

-----------------------------------------------------------------------------
\* As many numbers as there are.
LEMMA CardinalityUpTo ==
  ASSUME NEW n \in Nat
  PROVE  Cardinality(1 .. n) = n
BY FS_Interval

\* A sequence is what its two halves make.
LEMMA Halves ==
  ASSUME NEW S, NEW s \in Seq(S), NEW n \in 0 .. Len(s)
  PROVE  /\ SubSeq(s, 1, n) \in Seq(S) /\ SubSeq(s, n + 1, Len(s)) \in Seq(S)
         /\ SubSeq(s, 1, n) \o SubSeq(s, n + 1, Len(s)) = s
         /\ Len(SubSeq(s, 1, n)) = n
         /\ \A i \in 1 .. n : SubSeq(s, 1, n)[i] = s[i]
         /\ SubSeq(s, n + 1, Len(s)) = <<>> <=> n = Len(s)
<1>1. Len(s) \in Nat /\ n \in Nat /\ \A i \in 1 .. Len(s) : s[i] \in S
  BY ElementOfSeq, LenProperties
<1> DEFINE a == SubSeq(s, 1, n)
           b == SubSeq(s, n + 1, Len(s))
<1>2. a \in Seq(S) /\ Len(a) = n /\ \A i \in 1 .. n : a[i] = s[i]
  BY <1>1, SubSeqProperties
<1>3. b \in Seq(S) /\ Len(b) = Len(s) - n /\ \A i \in 1 .. Len(s) - n : b[i] = s[n + i]
  <2>1. /\ n + 1 \in Int /\ Len(s) \in Int
        /\ \A i \in n + 1 .. Len(s) : s[i] \in S
    BY <1>1
  <2>2. /\ b \in Seq(S)
        /\ Len(b) = IF n + 1 <= Len(s) THEN Len(s) - (n + 1) + 1 ELSE 0
        /\ \A i \in 1 .. Len(s) - (n + 1) + 1 : b[i] = s[n + 1 + i - 1]
    BY <2>1, SubSeqProperties
  <2> QED
    BY <1>1, <2>2
<1> HIDE DEF a, b
<1>4. /\ a \o b \in Seq(S)
      /\ Len(a \o b) = Len(s)
      /\ \A i \in 1 .. Len(s) : (a \o b)[i] = s[i]
  <2>1. /\ a \o b \in Seq(S)
        /\ Len(a \o b) = Len(a) + Len(b)
        /\ \A i \in 1 .. Len(a) + Len(b) : (a \o b)[i] = IF i <= Len(a) THEN a[i] ELSE b[i - Len(a)]
    BY <1>2, <1>3, ConcatProperties
  <2>2. ASSUME NEW i \in 1 .. Len(s) PROVE (a \o b)[i] = s[i]
    <3>1. CASE i <= n
      BY <1>1, <1>2, <1>3, <2>1, <3>1
    <3>2. CASE i > n
      <4>1. i - n \in 1 .. Len(s) - n /\ n + (i - n) = i
        BY <1>1, <3>2
      <4>2. b[i - n] = s[i]
        BY <1>3, <4>1
      <4> QED
        BY <1>1, <1>2, <1>3, <2>1, <3>2, <4>2
    <3>3. i <= n \/ i > n
      BY <1>1
    <3> QED
      BY <3>1, <3>2, <3>3
  <2> QED
    BY <1>1, <1>2, <1>3, <2>1, <2>2
<1>5. a \o b = s
  BY <1>4, SeqEqual
<1>6. b = <<>> <=> Len(b) = 0
  BY <1>3, EmptySeq
<1>7. b = <<>> <=> n = Len(s)
  BY <1>1, <1>3, <1>6
<1> QED
  BY <1>2, <1>3, <1>5, <1>7 DEF a, b

-----------------------------------------------------------------------------
\* The plan of the crawler that runs is well made.
LEMMA PlanWellMade ==
  ASSUME bank \in Crawled
  PROVE  /\ Steps(Plan) /\ AskedOnce(Plan) /\ UsesEarlier(Plan) /\ SendsFirst(Plan)
         /\ bank # "Lansforsakringar" => ReturnsWell(Plan)
         /\ ~Risky => Calm(Plan)
BY PlansWellMade, CrawledExist DEF WellMade, Plan, Risky

\* A set is one of an extraction of the plan.
LEMMA SetsAreFound ==
  ASSUME Types, NEW n \in DOMAIN found
  PROVE  /\ found[n].from[1] \in DOMAIN Plan
         /\ found[n].from[2] \in DOMAIN Plan[found[n].from[1]].parts
         /\ found[n].from = <<found[n].from[1], found[n].from[2]>>
         /\ found[n].rate \in RatesAt(Plan, found[n].from[1], found[n].from[2])
<1>1. found[n] \in Sets
  BY DEF Types
<1>2. PICK k \in DOMAIN Plan : \E i \in DOMAIN Plan[k].parts : found[n] \in SetsOf(k, i)
  BY <1>1 DEF Sets
<1>3. PICK i \in DOMAIN Plan[k].parts : found[n] \in SetsOf(k, i)
  BY <1>2
<1>4. PICK rate \in RatesAt(Plan, k, i) : found[n] = [from |-> <<k, i>>, rate |-> rate]
  BY <1>3 DEF SetsOf
<1> QED
  BY <1>4

\* Conversely, a rate of an extraction makes a set.
LEMMA RatesMakeSets ==
  ASSUME NEW k \in DOMAIN Plan, NEW i \in DOMAIN Plan[k].parts,
         NEW rate \in RatesAt(Plan, k, i)
  PROVE  [from |-> <<k, i>>, rate |-> rate] \in Sets
<1>1. [from |-> <<k, i>>, rate |-> rate] \in SetsOf(k, i)
  BY DEF SetsOf
<1> QED
  BY <1>1 DEF Sets

\* While Crawl runs, the pages that were asked for are the first ones.
LEMMA AskedFirst ==
  ASSUME Types, PagesHere, Running
  PROVE  /\ Asked \in 0 .. Len(Here.gets)
         /\ DOMAIN Here.gets = 1 .. Len(Here.gets) /\ Len(Here.gets) \in Nat
         /\ Had(Asked)
         /\ ~Fetched => Asked < Len(Here.gets) /\ part = 1 /\ left = RatesAt(Plan, step, 1)
<1>1. DOMAIN Here.gets = 1 .. Len(Here.gets) /\ Len(Here.gets) \in Nat
  BY PlanWellMade DEF Types, Steps, IsASequence, Running, Here
<1>2. PICK n \in 0 .. Len(Here.gets) :
        Had(n) /\ (n < Len(Here.gets) => part = 1 /\ left = RatesAt(Plan, step, 1))
  BY DEF PagesHere, Running
<1>3. {i \in DOMAIN Here.gets : pages[Here.gets[i]] # "unasked"} = 1 .. n
  BY <1>1, <1>2 DEF Had
<1>4. Asked = n
  <2>1. n \in Nat
    BY <1>1, <1>2
  <2>2. Cardinality(1 .. n) = n
    BY <2>1, CardinalityUpTo
  <2> QED
    BY <1>3, <2>2 DEF Asked
<1> QED
  BY <1>1, <1>2, <1>4 DEF Fetched

\* An extraction that has not begun has found nothing.
LEMMA NothingFoundYet ==
  ASSUME Types, FoundWell, part = 1, left = RatesAt(Plan, step, 1)
  PROVE  \A n \in DOMAIN found : found[n].from[1] < step
<1> SUFFICES ASSUME NEW n \in DOMAIN found, found[n].from[1] >= step
             PROVE  FALSE
  <2>1. \A n \in DOMAIN found : found[n].from[1] \in Nat
    BY SetsAreFound, PlanWellMade DEF Types, Steps, IsASequence
  <2> QED
    BY <2>1 DEF Types
<1> DEFINE k == found[n].from[1]
           i == found[n].from[2]
<1>1. k \in DOMAIN Plan /\ i \in DOMAIN Plan[k].parts /\ found[n].from = <<k, i>>
  BY SetsAreFound
<1>2. k \in Nat /\ i \in Nat /\ i >= 1
  <2>1. IsASequence(Plan) /\ IsASequence(Plan[k].parts)
    BY <1>1, PlanWellMade DEF Types, Steps
  <2> HIDE DEF k, i
  <2> QED
    BY <1>1, <2>1 DEF IsASequence
<1>3. k = step /\ i = 1
  BY <1>2 DEF FoundWell, Types
<1>4. found[n].from = <<step, part>>
  BY <1>1, <1>3
<1>5. found[n].rate \in RatesAt(Plan, step, part) \ RatesAt(Plan, step, part)
  BY <1>4 DEF FoundWell
<1> QED
  BY <1>5

\* The sets of the step that runs are those that are not collected.
LEMMA FoundHereIsRest ==
  ASSUME Types, FoundWell, CollectedEarlier
  PROVE  /\ FoundHere = SubSeq(found, Len(collected) + 1, Len(found))
         /\ collected \o FoundHere = found
<1> DEFINE earlier == {n \in DOMAIN found : found[n].from[1] # step}
<1>1. DOMAIN found = 1 .. Len(found) /\ Len(found) \in Nat /\ Len(collected) \in 0 .. Len(found)
  BY DEF Types
<1>2. \A n \in DOMAIN found : found[n].from[1] \in Nat /\ found[n].from[1] <= step
  BY SetsAreFound, PlanWellMade DEF Types, Steps, IsASequence, FoundWell
<1>3. earlier = 1 .. Len(collected)
  BY <1>1, <1>2 DEF CollectedEarlier, Types
<1>4. Cardinality(earlier) = Len(collected)
  <2>1. Len(collected) \in Nat
    BY <1>1
  <2>2. Cardinality(1 .. Len(collected)) = Len(collected)
    BY <2>1, CardinalityUpTo
  <2> QED
    BY <1>3, <2>2
<1>5. FoundHere = SubSeq(found, Len(collected) + 1, Len(found))
  BY <1>4 DEF FoundHere
<1>6. collected = SubSeq(found, 1, Len(collected)) /\ found \in Seq(Sets)
  BY DEF Types
<1>7. SubSeq(found, 1, Len(collected)) \o SubSeq(found, Len(collected) + 1, Len(found)) = found
  BY <1>1, <1>6, Halves
<1> QED
  BY <1>5, <1>6, <1>7

\* A source that has its pages has those it shares, too.
LEMMA PagesOfFetched ==
  ASSUME Types, PagesPassed, PagesHere, Running, Fetched
  PROVE  \A p \in PagesOf(Here) : pages[p] = "here"
<1>1. \A i \in DOMAIN Here.gets : pages[Here.gets[i]] = "here"
  BY AskedFirst DEF Fetched, Had
<1>2. ASSUME NEW p \in Here.uses PROVE pages[p] = "here"
  <2>1. PICK m \in 1 .. step - 1 : Plan[m].onFail = "return" /\ p \in Elements(Plan[m].gets)
    BY PlanWellMade DEF UsesEarlier, Types, Running, Here
  <2> QED
    BY <2>1 DEF PagesPassed, Elements
<1> QED
  BY <1>1, <1>2 DEF PagesOf, Elements

-----------------------------------------------------------------------------
\* Every page of the plan has a state.
LEMMA PagesHaveState ==
  ASSUME NEW k \in DOMAIN Plan
  PROVE  /\ PagesOf(Plan[k]) \subseteq AllPages(Plan)
         /\ \A i \in DOMAIN Plan[k].gets : Plan[k].gets[i] \in PagesOf(Plan[k])
BY DEF AllPages, PagesOf, Elements

\* Initially nothing has been asked for.
LEMMA InitIInv == Init => IInv
<1> SUFFICES ASSUME Init PROVE IInv
  OBVIOUS
<1>1. bank \in Crawled /\ Steps(Plan)
  BY PlanWellMade DEF Init
<1>2. Types
  <2>1. collected = SubSeq(found, 1, Len(collected)) /\ found \in Seq(Sets)
    BY SubSeqEmpty, EmptySeq DEF Init
  <2> QED
    BY <1>1, <2>1, EmptySeq DEF Init, Types, Steps, IsASequence, Here, RatesAt
<1>3. \A k \in DOMAIN Plan : \A i \in DOMAIN Plan[k].gets : pages[Plan[k].gets[i]] = "unasked"
  BY PagesHaveState DEF Init
<1>4. PagesPassed /\ PagesAhead
  BY <1>1, <1>3 DEF Init, PagesPassed, PagesAhead, Steps, IsASequence
<1>5. PagesHere
  <2>1. step \in DOMAIN Plan => 0 \in 0 .. Len(Here.gets) /\ Had(0)
    BY <1>1, <1>3 DEF Init, Had, Here, Steps, IsASequence
  <2> QED
    BY <2>1 DEF Init, PagesHere
<1>6. DOMAIN found = {} /\ Len(collected) = 0
  BY DEF Init
<1>7. BrokenBefore /\ FoundWell /\ CollectedEarlier /\ UnsentIsNew
  BY <1>6 DEF Init, BrokenBefore, FoundWell, CollectedEarlier, UnsentIsNew
<1>8. FailuresAreIsolated
  BY DEF Init, FailuresAreIsolated
<1> QED
  BY <1>2, <1>4, <1>5, <1>7, <1>8 DEF IInv

\* Only the page that was asked for changes, and it was not asked for before.
LEMMA PageAsked ==
  ASSUME IInv, Running, ~Fetched, NEW v,
         pages' = [pages EXCEPT ![Here.gets[Asked + 1]] = v]
  PROVE  /\ Asked + 1 \in DOMAIN Here.gets
         /\ pages'[Here.gets[Asked + 1]] = v
         /\ pages[Here.gets[Asked + 1]] = "unasked"
         /\ \A p \in AllPages(Plan) : pages[p] = "here" => pages'[p] = "here"
         /\ \A k \in DOMAIN Plan : \A i \in DOMAIN Plan[k].gets :
              k # step \/ i # Asked + 1 => pages'[Plan[k].gets[i]] = pages[Plan[k].gets[i]]
         /\ v \in {"here", "failed"} => pages' \in [AllPages(Plan) -> {"unasked", "here", "failed"}]
<1> DEFINE a == Asked
           p == Here.gets[a + 1]
<1>1. a + 1 \in DOMAIN Here.gets /\ step \in DOMAIN Plan /\ Had(a) /\ a \in Nat
  BY AskedFirst DEF IInv, Running
<1>2. pages[p] = "unasked"
  BY <1>1 DEF Had
<1>3. p \in DOMAIN pages /\ DOMAIN pages = AllPages(Plan)
  BY <1>1, PagesHaveState DEF IInv, Types, Here
<1>4. pages'[p] = v /\ \A q \in DOMAIN pages : q # p => pages'[q] = pages[q]
  BY <1>3
<1>5. ASSUME NEW k \in DOMAIN Plan, NEW i \in DOMAIN Plan[k].gets, k # step \/ i # a + 1
      PROVE  pages'[Plan[k].gets[i]] = pages[Plan[k].gets[i]]
  <2>1. Plan[k].gets[i] # p
    BY <1>1, <1>5, PlanWellMade DEF IInv, Types, AskedOnce, Here
  <2> QED
    BY <1>3, <1>4, <2>1, PagesHaveState
<1> QED
  BY <1>1, <1>2, <1>3, <1>4, <1>5 DEF IInv, Types

\* What GoTo(step + 1) leads to.
LEMMA GoToNext ==
  ASSUME Types, Running, bank' = bank, GoTo(step + 1)
  PROVE  /\ Plan' = Plan
         /\ step' = step + 1 /\ part' = 1 /\ left' = RatesAt(Plan, step + 1, 1)
         /\ step' \in 1 .. Len(Plan) + 1
         /\ step' \in DOMAIN Plan => 1 <= Len(Plan[step'].parts) + 1
         /\ step \in Nat /\ Len(Plan) \in Nat /\ DOMAIN Plan = 1 .. Len(Plan)
         /\ step \in 1 .. Len(Plan)
<1>1. Steps(Plan) /\ step \in DOMAIN Plan
  BY PlanWellMade DEF Types, Running
<1>2. Plan' = Plan
  BY DEF Plan
<1>3. \A k \in DOMAIN Plan : Len(Plan[k].parts) \in Nat
  BY <1>1 DEF Steps, IsASequence
<1> QED
  BY <1>1, <1>2, <1>3 DEF GoTo, Steps, IsASequence

\* When the sets that are not sent were made after the last send, and a send
\* comes before a return, everything is sent.
LEMMA AllIsSent ==
  ASSUME IInv, SendsBefore(Plan, step), \A n \in DOMAIN found : found[n].from[1] < step
  PROVE  \A f \in Elements(found) : \E n \in 1 .. sent : collected[n] = f
<1> SUFFICES ASSUME NEW n \in DOMAIN found
             PROVE  n \in 1 .. sent /\ collected[n] = found[n]
  BY DEF Elements
<1> DEFINE k == found[n].from[1]
<1>1. k \in DOMAIN Plan /\ found[n].from[2] \in DOMAIN Plan[k].parts
  BY SetsAreFound DEF IInv
<1>2. k \in Nat /\ k >= 1 /\ Plan[k].parts # <<>>
  BY <1>1, PlanWellMade DEF IInv, Types, Steps, IsASequence
<1>3. k \in 1 .. step - 1 /\ step \in Nat
  BY <1>2, PlanWellMade DEF IInv, Types, Steps, IsASequence
<1>4. /\ n \in 1 .. Len(found) /\ Len(found) \in Nat
      /\ Len(collected) \in 0 .. Len(found) /\ sent \in 0 .. Len(collected)
  BY DEF IInv, Types
<1>5. n <= Len(collected)
  BY DEF IInv, CollectedEarlier
<1>6. collected[n] = found[n]
  BY <1>4, <1>5, Halves DEF IInv, Types
<1>7. PICK j \in k + 1 .. step - 1 : Plan[j].kind = "send"
  BY <1>2, <1>3 DEF SendsBefore
<1>8. n \notin sent + 1 .. Len(collected)
  BY <1>7 DEF IInv, UnsentIsNew
<1> QED
  BY <1>4, <1>5, <1>6, <1>8

\* A step that is over has all its pages, if none of them failed.
LEMMA PassedIsHere ==
  ASSUME Types, PagesPassed, NEW k \in DOMAIN Plan, k < step,
         \A p \in PagesOf(Plan[k]) : pages[p] # "failed"
  PROVE  \A p \in PagesOf(Plan[k]) : pages[p] = "here"
<1>1. Steps(Plan) /\ DOMAIN Plan = 1 .. Len(Plan) /\ Len(Plan) \in Nat /\ step \in Nat
  BY PlanWellMade DEF Types, Steps, IsASequence
<1>2. \A i \in DOMAIN Plan[k].gets : pages[Plan[k].gets[i]] = "here"
  BY <1>1, PagesHaveState DEF PagesPassed
<1>3. ASSUME NEW p \in Plan[k].uses PROVE pages[p] = "here"
  <2>1. PICK m \in 1 .. k - 1 : Plan[m].onFail = "return" /\ p \in Elements(Plan[m].gets)
    BY PlanWellMade DEF UsesEarlier, Types
  <2>2. m \in 1 .. step - 1
    BY <1>1
  <2> QED
    BY <2>1, <2>2 DEF PagesPassed, Elements
<1> QED
  BY <1>2, <1>3 DEF PagesOf, Elements

-----------------------------------------------------------------------------
\* A page arrives.
LEMMA ArrivesKeeps == IInv /\ Arrives => IInv'
<1> SUFFICES ASSUME IInv, Arrives PROVE IInv'
  OBVIOUS
<1> DEFINE a == Asked
<1>0. /\ UNCHANGED <<bank, step, part, left, found, collected, sent, broken, crawl>>
      /\ Running /\ ~Fetched /\ crawl = "running"
      /\ pages' = [pages EXCEPT ![Here.gets[Asked + 1]] = "here"]
  BY DEF Arrives, Stay, Running
<1>1. Plan' = Plan /\ Here' = Here /\ Sets' = Sets
  BY <1>0 DEF Plan, Here, Sets, SetsOf
<1>2. PICK b : b = a + 1
  OBVIOUS
<1>3. /\ b \in DOMAIN Here.gets
      /\ pages'[Here.gets[b]] = "here"
      /\ \A p \in AllPages(Plan) : pages[p] = "here" => pages'[p] = "here"
      /\ \A k \in DOMAIN Plan : \A i \in DOMAIN Plan[k].gets :
           k # step \/ i # b => pages'[Plan[k].gets[i]] = pages[Plan[k].gets[i]]
      /\ pages' \in [AllPages(Plan) -> {"unasked", "here", "failed"}]
  <2>1. /\ Asked + 1 \in DOMAIN Here.gets
        /\ pages'[Here.gets[Asked + 1]] = "here"
        /\ \A p \in AllPages(Plan) : pages[p] = "here" => pages'[p] = "here"
        /\ \A k \in DOMAIN Plan : \A i \in DOMAIN Plan[k].gets :
             k # step \/ i # Asked + 1 => pages'[Plan[k].gets[i]] = pages[Plan[k].gets[i]]
        /\ pages' \in [AllPages(Plan) -> {"unasked", "here", "failed"}]
    BY <1>0, PageAsked
  <2> QED
    BY <1>2, <2>1
<1>4. /\ Steps(Plan) /\ step \in DOMAIN Plan /\ DOMAIN Plan = 1 .. Len(Plan) /\ Len(Plan) \in Nat
      /\ step \in Nat
  BY <1>0, PlanWellMade DEF IInv, Types, Running, Steps, IsASequence
<1>5. Types'
  BY <1>0, <1>1, <1>3 DEF IInv, Types
<1>6. PagesPassed'
  BY <1>0, <1>1, <1>3, <1>4 DEF IInv, PagesPassed
<1>7. PagesHere'
  <2>1. /\ a \in Nat /\ a < Len(Here.gets) /\ Had(a) /\ part = 1 /\ left = RatesAt(Plan, step, 1)
        /\ DOMAIN Here.gets = 1 .. Len(Here.gets) /\ Len(Here.gets) \in Nat
    BY <1>0, AskedFirst DEF IInv
  <2>2. Had(b)'
    BY <1>0, <1>1, <1>2, <1>3, <1>4, <2>1 DEF Had, Here
  <2>3. b \in 0 .. Len(Here.gets)
    BY <1>2, <2>1
  <2> QED
    BY <1>0, <1>1, <2>1, <2>2, <2>3 DEF PagesHere
<1>8. PagesAhead'
  BY <1>0, <1>1, <1>3, <1>4 DEF IInv, PagesAhead
<1>9. BrokenBefore'
  BY <1>0 DEF IInv, BrokenBefore
<1>10. FoundWell'
  <2>1. ASSUME NEW n \in DOMAIN found, NEW p \in PagesOf(Plan[found[n].from[1]])
        PROVE  pages'[p] = "here"
    BY <1>3, SetsAreFound, PagesHaveState DEF IInv, FoundWell
  <2> QED
    BY <1>0, <1>1, <2>1 DEF IInv, FoundWell
<1>11. CollectedEarlier' /\ UnsentIsNew'
  BY <1>0, <1>1 DEF IInv, CollectedEarlier, UnsentIsNew
<1>12. FailuresAreIsolated'
  BY <1>0 DEF FailuresAreIsolated
<1> QED
  BY <1>5, <1>6, <1>7, <1>8, <1>9, <1>10, <1>11, <1>12 DEF IInv

\* A page fails.
LEMMA GetFailsKeeps == IInv /\ GetFails => IInv'
<1> SUFFICES ASSUME IInv, GetFails PROVE IInv'
  OBVIOUS
<1>0. /\ UNCHANGED <<bank, found, collected, sent, broken>>
      /\ Running /\ ~Fetched /\ crawl = "running"
      /\ pages' = [pages EXCEPT ![Here.gets[Asked + 1]] = "failed"]
      /\ Fail
  BY DEF GetFails, Running
<1>1. Plan' = Plan /\ Sets' = Sets
  BY <1>0 DEF Plan, Sets, SetsOf
<1>2. PICK b : b = Asked + 1
  OBVIOUS
<1>3. /\ b \in DOMAIN Here.gets
      /\ pages'[Here.gets[b]] = "failed"
      /\ \A p \in AllPages(Plan) : pages[p] = "here" => pages'[p] = "here"
      /\ \A k \in DOMAIN Plan : \A i \in DOMAIN Plan[k].gets :
           k # step \/ i # b => pages'[Plan[k].gets[i]] = pages[Plan[k].gets[i]]
      /\ pages' \in [AllPages(Plan) -> {"unasked", "here", "failed"}]
  <2>1. /\ Asked + 1 \in DOMAIN Here.gets
        /\ pages'[Here.gets[Asked + 1]] = "failed"
        /\ \A p \in AllPages(Plan) : pages[p] = "here" => pages'[p] = "here"
        /\ \A k \in DOMAIN Plan : \A i \in DOMAIN Plan[k].gets :
             k # step \/ i # Asked + 1 => pages'[Plan[k].gets[i]] = pages[Plan[k].gets[i]]
        /\ pages' \in [AllPages(Plan) -> {"unasked", "here", "failed"}]
    BY <1>0, PageAsked
  <2> QED
    BY <1>2, <2>1
<1>4. /\ Steps(Plan) /\ step \in DOMAIN Plan /\ DOMAIN Plan = 1 .. Len(Plan) /\ Len(Plan) \in Nat
      /\ step \in Nat /\ Here = Plan[step]
  BY <1>0, PlanWellMade DEF IInv, Types, Running, Steps, IsASequence, Here
<1>5. \A n \in DOMAIN found : found[n].from[1] < step
  BY <1>0, AskedFirst, NothingFoundYet DEF IInv
<1>6. \A n \in DOMAIN found : \A p \in PagesOf(Plan[found[n].from[1]]) : pages'[p] = "here"
  BY <1>3, SetsAreFound, PagesHaveState DEF IInv, FoundWell
<1>7. BrokenBefore /\ broken' = broken
  BY <1>0 DEF IInv
<1>9. CASE /\ Here.onFail = "next" /\ GoTo(step + 1) /\ UNCHANGED crawl
  <2>1. /\ step' = step + 1 /\ part' = 1 /\ left' = RatesAt(Plan, step + 1, 1)
        /\ step' \in 1 .. Len(Plan) + 1
        /\ step' \in DOMAIN Plan => 1 <= Len(Plan[step'].parts) + 1
    BY <1>0, <1>9, GoToNext DEF IInv
  <2>2. Types'
    BY <1>0, <1>1, <1>3, <1>9, <2>1 DEF IInv, Types, Here
  <2>3. PagesPassed'
    BY <1>0, <1>1, <1>3, <1>4, <1>9, <2>1 DEF IInv, PagesPassed
  <2>4. PagesHere'
    <3>1. ASSUME step + 1 \in DOMAIN Plan PROVE Had(0)' /\ 0 \in 0 .. Len(Here.gets)'
      <4>1. Here' = Plan[step + 1] /\ step + 1 # step /\ step + 1 \in step + 1 .. Len(Plan)
        BY <1>1, <1>4, <2>1, <3>1 DEF Here
      <4>2. /\ DOMAIN Here.gets' = 1 .. Len(Here.gets') /\ Len(Here.gets') \in Nat
        BY <1>4, <3>1, <4>1 DEF Steps, IsASequence
      <4>3. \A i \in DOMAIN Here.gets' : pages'[Here.gets'[i]] = "unasked"
        BY <1>3, <3>1, <4>1 DEF IInv, PagesAhead
      <4> QED
        BY <4>2, <4>3 DEF Had
    <3> QED
      BY <1>1, <2>1, <3>1 DEF PagesHere
  <2>5. PagesAhead'
    BY <1>1, <1>3, <1>4, <2>1 DEF IInv, PagesAhead
  <2>6. BrokenBefore'
    BY <1>4, <1>7, <2>1 DEF BrokenBefore
  <2>7. FoundWell'
    <3>1. ASSUME NEW n \in DOMAIN found
          PROVE  /\ found[n].from[1] < step' /\ found[n].from # <<step', part'>>
                 /\ found[n].from \notin broken
      BY <1>4, <1>5, <2>1, <3>1, SetsAreFound DEF IInv, FoundWell, Steps, IsASequence
    <3> QED
      BY <1>0, <1>1, <1>6, <3>1 DEF FoundWell
  <2>8. CollectedEarlier'
    BY <1>0, <1>4, <1>5, <2>1, SetsAreFound DEF IInv, CollectedEarlier
  <2>9. UnsentIsNew'
    <3>1. Here.kind # "send"
      BY <1>3, <1>4 DEF Steps, IsASequence
    <3> QED
      BY <1>0, <1>1, <1>4, <2>1, <3>1 DEF IInv, UnsentIsNew
  <2>10. FailuresAreIsolated'
    BY <1>0, <1>9 DEF FailuresAreIsolated
  <2> QED
    BY <2>2, <2>3, <2>4, <2>5, <2>6, <2>7, <2>8, <2>9, <2>10 DEF IInv
<1>10. CASE /\ Here.onFail = "return" /\ crawl' = "returned" /\ Stay
  <2>1. UNCHANGED <<step, part, left>> /\ Here' = Here
    BY <1>1, <1>10 DEF Stay, Here
  <2>2. Types'
    BY <1>0, <1>1, <1>3, <1>10, <2>1 DEF IInv, Types
  <2>3. PagesPassed' /\ PagesAhead'
    BY <1>0, <1>1, <1>3, <1>4, <2>1 DEF IInv, PagesPassed, PagesAhead
  <2>4. PagesHere'
    BY <1>10 DEF PagesHere
  <2>5. BrokenBefore'
    BY <1>7, <2>1 DEF BrokenBefore
  <2>6. FoundWell'
    BY <1>0, <1>1, <1>6, <2>1 DEF IInv, FoundWell
  <2>7. CollectedEarlier' /\ UnsentIsNew'
    BY <1>0, <1>1, <2>1 DEF IInv, CollectedEarlier, UnsentIsNew
  <2>8. FailuresAreIsolated'
    <3>1. \A f \in Elements(found) : \E n \in 1 .. sent : collected[n] = f
      BY <1>4, <1>5, <1>10, AllIsSent, PlanWellMade DEF SendsFirst, IInv, Types
    <3>2. ASSUME bank # "Lansforsakringar", NEW k \in DOMAIN Plan, Reachable(k)'
          PROVE  \A p \in PagesOf(Plan[k]) : pages'[p] = "here"
      <4>0. \A p \in PagesOf(Plan[k]) : pages'[p] # "failed"
        BY <1>1, <3>2 DEF Reachable
      <4>1. CASE k < step
        <5>1. \A i \in DOMAIN Plan[k].gets : pages'[Plan[k].gets[i]] = "here"
          BY <1>3, <1>4, <4>0, <4>1, PagesHaveState DEF IInv, PagesPassed
        <5>2. ASSUME NEW p \in Plan[k].uses PROVE pages'[p] = "here"
          <6>1. PICK m \in 1 .. k - 1 : Plan[m].onFail = "return" /\ p \in Elements(Plan[m].gets)
            BY PlanWellMade DEF UsesEarlier, IInv, Types
          <6>2. m \in DOMAIN Plan /\ m < step /\ m \in 1 .. step - 1
            BY <1>4, <4>1
          <6>3. pages[p] = "here"
            BY <6>1, <6>2 DEF IInv, PagesPassed, Elements
          <6> QED
            BY <1>3, <6>1, <6>2, <6>3, PagesHaveState DEF Elements
        <5> QED
          BY <5>1, <5>2 DEF PagesOf, Elements
      <4>2. k # step
        BY <1>3, <1>4, <4>0, PagesHaveState
      <4>3. CASE k > step
        <5>1. \/ PagesOf(Plan[k]) = {}
              \/ Elements(Here.gets) \subseteq PagesOf(Plan[k])
          <6>1. k \in step + 1 .. Len(Plan)
            BY <1>4, <4>3
          <6>2. ReturnsWell(Plan)
            BY <3>2, PlanWellMade DEF IInv, Types
          <6> QED
            BY <1>4, <1>10, <6>1, <6>2 DEF ReturnsWell
        <5>2. Here.gets[b] \in Elements(Here.gets)
          BY <1>3 DEF Elements
        <5> QED
          BY <1>3, <4>0, <5>1, <5>2
      <4> QED
        BY <1>4, <4>1, <4>2, <4>3
    <3> QED
      BY <1>0, <1>1, <3>1, <3>2 DEF FailuresAreIsolated
  <2> QED
    BY <2>2, <2>3, <2>4, <2>5, <2>6, <2>7, <2>8 DEF IInv
<1> QED
  BY <1>0, <1>9, <1>10 DEF Fail

-----------------------------------------------------------------------------
\* An extraction that is over makes way for the next one; one that failed has
\* found nothing.
LEMMA NextPartKeeps ==
  ASSUME IInv, Extracting,
         part' = part + 1, left' = RatesAt(Plan, step, part + 1),
         UNCHANGED <<bank, step, pages, found, collected, sent, crawl>>,
         \/ broken' = broken
         \/ broken' = broken \cup {<<step, part>>} /\ left = RatesAt(Plan, step, part)
  PROVE  IInv'
<1>1. Plan' = Plan /\ Here' = Here /\ Sets' = Sets
  BY DEF Plan, Here, Sets, SetsOf
<1>2. /\ Steps(Plan) /\ step \in DOMAIN Plan /\ step \in Nat /\ part \in Nat /\ part >= 1
      /\ part \in DOMAIN Here.parts /\ DOMAIN Here.parts = 1 .. Len(Here.parts)
      /\ Len(Here.parts) \in Nat /\ Running /\ crawl = "running"
  BY PlanWellMade DEF IInv, Types, Extracting, Running, Steps, IsASequence, Here
<1>3. Types'
  BY <1>1, <1>2 DEF IInv, Types
<1>4. PagesPassed' /\ PagesAhead'
  BY <1>1 DEF IInv, PagesPassed, PagesAhead
<1>5. PagesHere'
  <2>1. Had(Len(Here.gets)) /\ Len(Here.gets) \in Nat
    BY <1>2, AskedFirst DEF IInv, Extracting, Fetched
  <2>2. Had(Len(Here.gets))' /\ Len(Here.gets) \in 0 .. Len(Here.gets)
    BY <1>1, <2>1 DEF Had, Here
  <2> QED
    BY <1>1, <2>1, <2>2 DEF PagesHere
<1>6. BrokenBefore'
  <2>1. \A e \in broken : /\ e[1] \in Nat /\ e[2] \in Nat
                          /\ e[1] < step \/ (e[1] = step /\ e[2] < part)
    BY DEF IInv, BrokenBefore
  <2>2. broken' \subseteq Nat \X (Nat \ {0})
    BY <1>2 DEF IInv, BrokenBefore
  <2> QED
    BY <1>2, <2>1, <2>2 DEF BrokenBefore
<1>7. FoundWell'
  <2>1. ASSUME NEW n \in DOMAIN found
        PROVE  /\ found[n].from[1] < step' \/ (found[n].from[1] = step' /\ found[n].from[2] <= part')
               /\ found[n].from # <<step', part'>>
               /\ found[n].from \notin broken'
    <3> DEFINE k == found[n].from[1]
               i == found[n].from[2]
    <3>1. found[n].from = <<k, i>> /\ k \in Nat /\ i \in Nat
      BY SetsAreFound, <1>2 DEF IInv, Steps, IsASequence
    <3>2. k < step \/ (k = step /\ i <= part)
      BY DEF IInv, FoundWell
    <3>3. found[n].from \notin broken'
      <4>1. CASE broken' = broken
        BY <4>1 DEF IInv, FoundWell
      <4>2. CASE broken' = broken \cup {<<step, part>>} /\ left = RatesAt(Plan, step, part)
        <5>1. RatesAt(Plan, step, part) \ left = {}
          BY <4>2
        <5>2. found[n].from # <<step, part>>
          BY <5>1 DEF IInv, FoundWell
        <5> QED
          BY <4>2, <5>2 DEF IInv, FoundWell
      <4> QED
        BY <4>1, <4>2
    <3> QED
      BY <1>2, <3>1, <3>2, <3>3
  <2> QED
    BY <1>1, <2>1 DEF IInv, FoundWell
<1>8. CollectedEarlier' /\ UnsentIsNew'
  BY <1>1 DEF IInv, CollectedEarlier, UnsentIsNew
<1>9. FailuresAreIsolated'
  BY <1>2 DEF FailuresAreIsolated
<1> QED
  BY <1>3, <1>4, <1>5, <1>6, <1>7, <1>8, <1>9 DEF IInv

\* An extraction fails.
LEMMA PartFailsKeeps == IInv /\ PartFails => IInv'
<1>1. ASSUME Extracting PROVE Here.parts[part].rates = RatesAt(Plan, step, part)
  BY <1>1 DEF Extracting, Running, RatesAt, Here
<1> QED
  BY <1>1, NextPartKeeps DEF PartFails

\* An extraction has come to all its rates.
LEMMA PartEndsKeeps == IInv /\ PartEnds => IInv'
BY NextPartKeeps DEF PartEnds

\* A row is dealt with.
LEMMA RowKeeps == ASSUME IInv, NEW rate \in left, Row(rate) PROVE IInv'
<1> DEFINE set == [from |-> <<step, part>>, rate |-> rate]
<1>0. /\ Extracting /\ Running /\ crawl = "running" /\ left' = left \ {rate}
      /\ \/ found' = Append(found, set)
         \/ UNCHANGED found
      /\ UNCHANGED <<bank, step, pages, part, collected, sent, broken, crawl>>
  BY DEF Row, Extracting, Running
<1>1. Plan' = Plan /\ Here' = Here /\ Sets' = Sets
  BY <1>0 DEF Plan, Here, Sets, SetsOf
<1>2. /\ Steps(Plan) /\ step \in DOMAIN Plan /\ step \in Nat /\ part \in DOMAIN Here.parts
      /\ part \in Nat /\ rate \in RatesAt(Plan, step, part) /\ Here = Plan[step]
  BY <1>0, PlanWellMade DEF IInv, Types, Extracting, Running, Steps, IsASequence, Here
<1>3. set \in Sets
  BY <1>2, RatesMakeSets
<1>4. /\ found \in Seq(Sets) /\ Len(found) \in Nat /\ DOMAIN found = 1 .. Len(found)
      /\ Len(collected) \in 0 .. Len(found)
  BY DEF IInv, Types
<1>5. PagesPassed' /\ PagesAhead' /\ BrokenBefore'
  BY <1>0, <1>1 DEF IInv, PagesPassed, PagesAhead, BrokenBefore
<1>6. PagesHere'
  <2>1. Had(Len(Here.gets)) /\ Len(Here.gets) \in Nat
    BY <1>0, AskedFirst DEF IInv, Extracting, Fetched
  <2>2. Had(Len(Here.gets))' /\ Len(Here.gets) \in 0 .. Len(Here.gets)
    BY <1>0, <1>1, <2>1 DEF Had, Here
  <2> QED
    BY <1>1, <2>1, <2>2 DEF PagesHere
<1>7. FailuresAreIsolated'
  BY <1>0 DEF FailuresAreIsolated
<1>8. \A n \in DOMAIN found : found[n].from = <<step, part>> =>
        found[n].rate \in RatesAt(Plan, step, part) \ left'
  BY <1>0 DEF IInv, FoundWell
<1>9. CASE UNCHANGED found
  <2>1. Types' /\ CollectedEarlier' /\ UnsentIsNew'
    BY <1>0, <1>1, <1>9 DEF IInv, Types, CollectedEarlier, UnsentIsNew
  <2>2. FoundWell'
    BY <1>0, <1>1, <1>8, <1>9 DEF IInv, FoundWell
  <2> QED
    BY <1>5, <1>6, <1>7, <2>1, <2>2 DEF IInv
<1>10. CASE found' = Append(found, set)
  <2> DEFINE last == Len(found) + 1
  <2>1. /\ found' \in Seq(Sets) /\ Len(found') = last /\ DOMAIN found' = 1 .. last
        /\ \A n \in DOMAIN found : found'[n] = found[n]
        /\ found'[last] = set
    BY <1>3, <1>4, <1>10
  <2>2. \A n \in DOMAIN found' : n \in DOMAIN found \/ n = last
    BY <1>4, <2>1
  <2>3. /\ set.from = <<step, part>> /\ set.rate = rate
        /\ set.from[1] = step /\ set.from[2] = part
    OBVIOUS
  <2> HIDE DEF set, last
  <2>4. SubSeq(found', 1, Len(collected)) = SubSeq(found, 1, Len(collected))
    <3>1. Len(collected) \in 0 .. Len(found')
      BY <1>4, <2>1 DEF last
    <3>2. /\ SubSeq(found, 1, Len(collected)) \in Seq(Sets)
          /\ Len(SubSeq(found, 1, Len(collected))) = Len(collected)
          /\ \A i \in 1 .. Len(collected) : SubSeq(found, 1, Len(collected))[i] = found[i]
      BY <1>4, Halves
    <3>3. /\ SubSeq(found', 1, Len(collected)) \in Seq(Sets)
          /\ Len(SubSeq(found', 1, Len(collected))) = Len(collected)
          /\ \A i \in 1 .. Len(collected) : SubSeq(found', 1, Len(collected))[i] = found'[i]
      BY <2>1, <3>1, Halves
    <3>4. \A i \in 1 .. Len(collected) : found'[i] = found[i]
      BY <1>4, <2>1
    <3> QED
      BY <3>2, <3>3, <3>4, SeqEqual
  <2>5. Types'
    <3>1. Len(collected) <= Len(found')
      BY <1>4, <2>1 DEF last
    <3>2. left' \subseteq RatesAt(Plan, step, part)
      BY <1>0 DEF IInv, Types
    <3>3. collected' = SubSeq(found', 1, Len(collected'))
      BY <1>0, <2>4 DEF IInv, Types
    <3> QED
      BY <1>0, <1>1, <2>1, <3>1, <3>2, <3>3 DEF IInv, Types
  <2>6. FoundWell'
    <3>1. \A p \in PagesOf(Plan[step]) : pages[p] = "here"
      BY <1>0, <1>2, PagesOfFetched DEF IInv, Extracting
    <3>2. <<step, part>> \notin broken
      BY <1>2 DEF IInv, BrokenBefore
    <3>3. rate \in RatesAt(Plan, step, part) \ left'
      BY <1>0, <1>2
    <3>4. ASSUME NEW n \in DOMAIN found'
          PROVE  LET k == found'[n].from[1] IN
                 /\ k < step \/ (k = step /\ found'[n].from[2] <= part)
                 /\ found'[n].from = <<step, part>> =>
                      found'[n].rate \in RatesAt(Plan, step, part) \ left'
                 /\ found'[n].from \notin broken
                 /\ \A p \in PagesOf(Plan[k]) : pages[p] = "here"
      <4>1. CASE n \in DOMAIN found
        BY <1>8, <2>1, <4>1 DEF IInv, FoundWell
      <4>2. CASE n = last
        BY <1>2, <2>1, <2>3, <3>1, <3>2, <3>3, <4>2
      <4> QED
        BY <2>2, <4>1, <4>2
    <3> QED
      BY <1>0, <1>1, <3>4 DEF FoundWell
  <2>7. CollectedEarlier'
    <3>1. ~(last <= Len(collected)) /\ ~(step < step)
      BY <1>2, <1>4 DEF last
    <3>2. ASSUME NEW n \in DOMAIN found' PROVE n <= Len(collected) <=> found'[n].from[1] < step
      BY <2>1, <2>2, <2>3, <3>1 DEF IInv, CollectedEarlier
    <3> QED
      BY <1>0, <3>2 DEF CollectedEarlier
  <2>8. UnsentIsNew'
    <3>1. ASSUME NEW n \in sent + 1 .. Len(collected) PROVE found'[n] = found[n]
      <4>1. n \in DOMAIN found
        BY <1>4 DEF IInv, Types
      <4> QED
        BY <2>1, <4>1
    <3> QED
      BY <1>0, <1>1, <3>1 DEF IInv, UnsentIsNew
  <2> QED
    BY <1>5, <1>6, <1>7, <2>5, <2>6, <2>7, <2>8 DEF IInv
<1> QED
  BY <1>0, <1>9, <1>10

-----------------------------------------------------------------------------
\* A step that has its pages makes way for the next one.
LEMMA StepOver ==
  ASSUME IInv, Running, GoTo(step + 1), UNCHANGED <<bank, pages, found, broken, crawl>>,
         \A i \in DOMAIN Here.gets : pages[Here.gets[i]] = "here"
  PROVE  /\ PagesPassed' /\ PagesHere' /\ PagesAhead'
         /\ BrokenBefore' /\ FoundWell' /\ FailuresAreIsolated'
<1>1. /\ Plan' = Plan
      /\ step' = step + 1 /\ part' = 1 /\ left' = RatesAt(Plan, step + 1, 1)
      /\ step \in Nat /\ Len(Plan) \in Nat /\ DOMAIN Plan = 1 .. Len(Plan)
      /\ step \in 1 .. Len(Plan) /\ step \in DOMAIN Plan /\ Steps(Plan) /\ Here = Plan[step]
      /\ crawl = "running"
  BY GoToNext, PlanWellMade DEF IInv, Running, Types, Here
<1>2. PagesPassed'
  BY <1>1 DEF IInv, PagesPassed
<1>3. PagesHere'
  <2>1. ASSUME step + 1 \in DOMAIN Plan PROVE Had(0)' /\ 0 \in 0 .. Len(Here.gets)'
    BY <1>1, <2>1 DEF IInv, PagesAhead, Had, Here, Steps, IsASequence
  <2> QED
    BY <1>1, <2>1 DEF PagesHere
<1>4. PagesAhead'
  BY <1>1 DEF IInv, PagesAhead
<1>5. BrokenBefore'
  BY <1>1 DEF IInv, BrokenBefore
<1>6. FoundWell'
  <2>1. ASSUME NEW n \in DOMAIN found
        PROVE  found[n].from[1] < step' /\ found[n].from # <<step', part'>>
    BY <1>1, <2>1, SetsAreFound DEF IInv, FoundWell, Steps, IsASequence
  <2> QED
    BY <1>1, <2>1 DEF IInv, FoundWell
<1>7. FailuresAreIsolated'
  BY <1>1 DEF IInv, FailuresAreIsolated
<1> QED
  BY <1>2, <1>3, <1>4, <1>5, <1>6, <1>7

\* A source that fails has found nothing.
LEMMA FailedFoundNothing ==
  ASSUME IInv, Running, Failed
  PROVE  \A n \in DOMAIN found : found[n].from[1] < step
<1>1. /\ found \in Seq(Sets) /\ DOMAIN found = 1 .. Len(found) /\ Len(found) \in Nat
      /\ Len(collected) \in 0 .. Len(found) /\ step \in Nat
  BY PlanWellMade DEF IInv, Types, Steps, IsASequence
<1>2. \A n \in DOMAIN found : found[n].from[1] \in Nat /\ found[n].from[1] <= step
  BY SetsAreFound, PlanWellMade DEF IInv, Types, Steps, IsASequence, FoundWell
<1>3. CASE \A i \in DOMAIN Here.parts : <<step, i>> \in broken
  <2>1. ASSUME NEW n \in DOMAIN found, found[n].from[1] = step PROVE FALSE
    <3>1. found[n].from[2] \in DOMAIN Here.parts /\ found[n].from = <<step, found[n].from[2]>>
      BY <2>1, SetsAreFound DEF IInv, Here
    <3> QED
      BY <1>3, <3>1 DEF IInv, FoundWell
  <2> QED
    BY <1>1, <1>2, <2>1
<1>4. CASE FoundHere = <<>>
  <2>1. Len(collected) = Len(found)
    BY <1>1, <1>4, FoundHereIsRest, Halves DEF IInv
  <2> QED
    BY <1>1, <2>1 DEF IInv, CollectedEarlier
<1> QED
  BY <1>3, <1>4 DEF Failed

\* A source is over: its sets are collected, or it has failed.
LEMMA SourceEndsKeeps == IInv /\ SourceEnds => IInv'
<1> SUFFICES ASSUME IInv, SourceEnds PROVE IInv'
  OBVIOUS
<1>0. /\ Running /\ crawl = "running" /\ Here.kind = "source" /\ Fetched
      /\ UNCHANGED <<bank, pages, found, sent, broken>>
      /\ \/ Failed /\ Fail /\ UNCHANGED collected
         \/ /\ ~Failed /\ collected' = collected \o FoundHere
            /\ GoTo(step + 1) /\ UNCHANGED crawl
  BY DEF SourceEnds, Running
<1>1. Plan' = Plan /\ Sets' = Sets
  BY <1>0 DEF Plan, Sets, SetsOf
<1>2. \A i \in DOMAIN Here.gets : pages[Here.gets[i]] = "here"
  BY <1>0, AskedFirst DEF IInv, Fetched, Had
<1>3. /\ Steps(Plan) /\ step \in DOMAIN Plan /\ DOMAIN Plan = 1 .. Len(Plan) /\ Len(Plan) \in Nat
      /\ step \in Nat /\ Here = Plan[step] /\ bank \in Crawled
  BY <1>0, PlanWellMade DEF IInv, Types, Running, Steps, IsASequence, Here
<1>4. /\ found \in Seq(Sets) /\ DOMAIN found = 1 .. Len(found) /\ Len(found) \in Nat
      /\ Len(collected) \in 0 .. Len(found)
      /\ sent \in 0 .. Len(collected) /\ sent \in Nat
  BY DEF IInv, Types
<1>5. \A n \in DOMAIN found : found[n].from[1] \in Nat /\ found[n].from[1] <= step
  BY SetsAreFound, <1>3 DEF IInv, Types, Steps, IsASequence, FoundWell
<1>6. CASE ~Failed /\ collected' = collected \o FoundHere /\ GoTo(step + 1) /\ UNCHANGED crawl
  <2>1. /\ step' = step + 1 /\ part' = 1 /\ left' = RatesAt(Plan, step + 1, 1)
        /\ step' \in 1 .. Len(Plan) + 1
        /\ step' \in DOMAIN Plan => 1 <= Len(Plan[step'].parts) + 1
    BY <1>0, <1>6, GoToNext DEF IInv
  <2>2. collected' = found
    BY <1>6, FoundHereIsRest DEF IInv
  <2>3. found = SubSeq(found, 1, Len(found))
    <3>1. /\ SubSeq(found, 1, Len(found)) \in Seq(Sets)
          /\ Len(SubSeq(found, 1, Len(found))) = Len(found)
          /\ \A i \in 1 .. Len(found) : SubSeq(found, 1, Len(found))[i] = found[i]
      BY <1>4, Halves
    <3> QED
      BY <1>4, <3>1, SeqEqual
  <2>4. Types'
    <3>1. sent \in 0 .. Len(found) /\ Len(found) <= Len(found)
      BY <1>4
    <3> QED
      BY <1>0, <1>1, <1>6, <2>1, <2>2, <2>3, <3>1 DEF IInv, Types, Here
  <2>5. CollectedEarlier'
    <3>1. \A n \in DOMAIN found : n <= Len(found) /\ found[n].from[1] < step + 1
      BY <1>3, <1>4, <1>5
    <3> QED
      BY <1>0, <2>1, <2>2, <3>1 DEF CollectedEarlier
  <2>6. UnsentIsNew'
    <3>1. ASSUME NEW n \in sent + 1 .. Len(found), NEW j \in found[n].from[1] + 1 .. step
          PROVE  Plan[j].kind # "send"
      <4>1. n \in DOMAIN found
        BY <1>4
      <4>2. CASE j = step
        BY <1>0, <1>3, <4>2
      <4>3. CASE j # step
        <5>1. j \in found[n].from[1] + 1 .. step - 1 /\ found[n].from[1] < step
          BY <1>3, <1>5, <4>1, <4>3
        <5>2. n \in sent + 1 .. Len(collected)
          BY <1>4, <4>1, <5>1 DEF IInv, CollectedEarlier
        <5> QED
          BY <5>1, <5>2 DEF IInv, UnsentIsNew
      <4> QED
        BY <4>2, <4>3
    <3>2. step' - 1 = step
      BY <1>3, <2>1
    <3> QED
      BY <1>0, <1>1, <2>2, <3>1, <3>2 DEF UnsentIsNew
  <2> QED
    BY <1>0, <1>2, <1>6, <2>4, <2>5, <2>6, StepOver DEF IInv
<1>7. CASE Failed /\ UNCHANGED collected /\ Here.onFail = "next" /\ GoTo(step + 1) /\ UNCHANGED crawl
  <2>1. /\ step' = step + 1 /\ part' = 1 /\ left' = RatesAt(Plan, step + 1, 1)
        /\ step' \in 1 .. Len(Plan) + 1
        /\ step' \in DOMAIN Plan => 1 <= Len(Plan[step'].parts) + 1
    BY <1>0, <1>7, GoToNext DEF IInv
  <2>2. \A n \in DOMAIN found : found[n].from[1] < step
    BY <1>0, <1>7, FailedFoundNothing
  <2>3. Types'
    BY <1>0, <1>1, <1>7, <2>1 DEF IInv, Types, Here
  <2>4. CollectedEarlier'
    BY <1>0, <1>3, <1>5, <1>7, <2>1, <2>2 DEF IInv, CollectedEarlier
  <2>5. UnsentIsNew'
    BY <1>0, <1>1, <1>3, <1>7, <2>1 DEF IInv, UnsentIsNew
  <2> QED
    BY <1>0, <1>2, <1>7, <2>3, <2>4, <2>5, StepOver DEF IInv
<1>8. CASE Failed /\ UNCHANGED collected /\ Here.onFail = "return" /\ crawl' = "returned" /\ Stay
  <2>1. UNCHANGED <<step, part, left>> /\ Here' = Here
    BY <1>1, <1>8 DEF Stay, Here
  <2>2. \A n \in DOMAIN found : found[n].from[1] < step
    BY <1>0, <1>8, FailedFoundNothing
  <2>3. Types'
    BY <1>0, <1>1, <1>8, <2>1 DEF IInv, Types
  <2>4. PagesPassed' /\ PagesAhead' /\ BrokenBefore' /\ FoundWell'
    BY <1>0, <1>1, <2>1 DEF IInv, PagesPassed, PagesAhead, BrokenBefore, FoundWell
  <2>5. PagesHere'
    BY <1>8 DEF PagesHere
  <2>6. CollectedEarlier' /\ UnsentIsNew'
    BY <1>0, <1>1, <1>8, <2>1 DEF IInv, CollectedEarlier, UnsentIsNew
  <2>7. FailuresAreIsolated'
    <3>1. \A f \in Elements(found) : \E n \in 1 .. sent : collected[n] = f
      BY <1>3, <1>8, <2>2, AllIsSent, PlanWellMade DEF SendsFirst
    <3>2. ASSUME bank # "Lansforsakringar", NEW k \in DOMAIN Plan,
                 \A p \in PagesOf(Plan[k]) : pages[p] # "failed"
          PROVE  \A p \in PagesOf(Plan[k]) : pages[p] = "here"
      <4>1. CASE k < step
        BY <1>3, <3>2, <4>1, PassedIsHere DEF IInv
      <4>2. CASE k = step
        BY <1>0, <1>3, <4>2, PagesOfFetched DEF IInv
      <4>3. CASE k > step
        <5>1. k \in step + 1 .. Len(Plan)
          BY <1>3, <4>3
        <5>2. ReturnsWell(Plan) /\ Here.parts # <<>>
          BY <1>3, <1>8, <3>2, PlanWellMade DEF Failed
        <5> QED
          BY <1>3, <1>8, <5>1, <5>2 DEF ReturnsWell
      <4> QED
        BY <1>3, <4>1, <4>2, <4>3
    <3> QED
      BY <1>0, <1>1, <1>8, <3>1, <3>2 DEF FailuresAreIsolated, Reachable
  <2> QED
    BY <2>3, <2>4, <2>5, <2>6, <2>7 DEF IInv
<1> QED
  BY <1>0, <1>6, <1>7, <1>8 DEF Fail

\* A set is sent.
LEMMA SendSetKeeps == IInv /\ SendSet => IInv'
<1> SUFFICES ASSUME IInv, SendSet PROVE IInv'
  OBVIOUS
<1>0. /\ UNCHANGED <<bank, step, pages, part, left, found, collected, broken, crawl>>
      /\ sent' = sent + 1 /\ sent < Len(collected) /\ crawl = "running"
  BY DEF SendSet, Stay, Running
<1>1. Plan' = Plan /\ Here' = Here /\ Sets' = Sets
  BY <1>0 DEF Plan, Here, Sets, SetsOf
<1>2. Types'
  BY <1>0, <1>1 DEF IInv, Types
<1>3. PagesPassed' /\ PagesHere' /\ PagesAhead' /\ BrokenBefore' /\ FoundWell'
  BY <1>0, <1>1 DEF IInv, PagesPassed, PagesHere, Had, PagesAhead, BrokenBefore, FoundWell
<1>4. CollectedEarlier' /\ FailuresAreIsolated'
  BY <1>0 DEF IInv, CollectedEarlier, FailuresAreIsolated
<1>5. UnsentIsNew'
  <2>1. \A n \in sent' + 1 .. Len(collected) : n \in sent + 1 .. Len(collected)
    BY <1>0 DEF IInv, Types
  <2> QED
    BY <1>0, <1>1, <2>1 DEF IInv, UnsentIsNew
<1> QED
  BY <1>2, <1>3, <1>4, <1>5 DEF IInv

\* All the sets are sent.
LEMMA SendEndsKeeps == IInv /\ SendEnds => IInv'
<1> SUFFICES ASSUME IInv, SendEnds PROVE IInv'
  OBVIOUS
<1>0. /\ Running /\ Here.kind = "send" /\ sent = Len(collected) /\ GoTo(step + 1)
      /\ UNCHANGED <<bank, pages, found, collected, sent, broken, crawl>>
  BY DEF SendEnds
<1>1. Plan' = Plan /\ Sets' = Sets
  BY <1>0 DEF Plan, Sets, SetsOf
<1>2. /\ Steps(Plan) /\ step \in DOMAIN Plan /\ step \in Nat /\ Here = Plan[step]
      /\ Here.gets = <<>> /\ Here.parts = <<>>
  BY <1>0, PlanWellMade DEF IInv, Types, Running, Steps, IsASequence, Here
<1>3. /\ step' = step + 1 /\ part' = 1 /\ left' = RatesAt(Plan, step + 1, 1)
      /\ step' \in 1 .. Len(Plan) + 1
      /\ step' \in DOMAIN Plan => 1 <= Len(Plan[step'].parts) + 1
  BY <1>0, GoToNext DEF IInv
<1>4. \A n \in DOMAIN found : found[n].from[1] \in Nat /\ found[n].from[1] < step
  <2>1. ASSUME NEW n \in DOMAIN found PROVE found[n].from[1] # step /\ found[n].from[1] \in Nat
    BY <1>2, <2>1, SetsAreFound DEF IInv, Steps, IsASequence
  <2> QED
    BY <1>2, <2>1 DEF IInv, FoundWell
<1>5. Types'
  BY <1>0, <1>1, <1>3 DEF IInv, Types, Here
<1>6. CollectedEarlier'
  BY <1>0, <1>2, <1>3, <1>4 DEF IInv, CollectedEarlier
<1>7. UnsentIsNew'
  BY <1>0 DEF IInv, Types, UnsentIsNew
<1>8. \A i \in DOMAIN Here.gets : pages[Here.gets[i]] = "here"
  BY <1>2
<1> QED
  BY <1>0, <1>5, <1>6, <1>7, <1>8, StepOver DEF IInv

\* Crawl returns at the end of its plan.
LEMMA ReturnKeeps == IInv /\ Return => IInv'
<1> SUFFICES ASSUME IInv, Return PROVE IInv'
  OBVIOUS
<1>0. /\ UNCHANGED <<bank, step, pages, part, left, found, collected, sent, broken>>
      /\ crawl' = "returned" /\ step = Len(Plan) + 1
  BY DEF Return, Stay
<1>1. Plan' = Plan /\ Here' = Here /\ Sets' = Sets
  BY <1>0 DEF Plan, Here, Sets, SetsOf
<1>2. Steps(Plan) /\ DOMAIN Plan = 1 .. Len(Plan) /\ Len(Plan) \in Nat
  BY PlanWellMade DEF IInv, Types, Steps, IsASequence
<1>3. Types'
  BY <1>0, <1>1 DEF IInv, Types
<1>4. PagesPassed' /\ PagesHere' /\ PagesAhead' /\ BrokenBefore' /\ FoundWell'
  BY <1>0, <1>1 DEF IInv, PagesPassed, PagesHere, PagesAhead, BrokenBefore, FoundWell
<1>5. CollectedEarlier' /\ UnsentIsNew'
  BY <1>0, <1>1 DEF IInv, CollectedEarlier, UnsentIsNew
<1>6. FailuresAreIsolated'
  <2>1. \A n \in DOMAIN found : found[n].from[1] < step
    BY <1>0, <1>2, SetsAreFound DEF IInv
  <2>2. \A f \in Elements(found) : \E n \in 1 .. sent : collected[n] = f
    BY <1>0, <2>1, AllIsSent, PlanWellMade DEF SendsFirst, IInv, Types
  <2>3. \A k \in DOMAIN Plan : k < step
    BY <1>0, <1>2
  <2>4. ASSUME NEW k \in DOMAIN Plan, \A p \in PagesOf(Plan[k]) : pages[p] # "failed"
        PROVE  \A p \in PagesOf(Plan[k]) : pages[p] = "here"
    BY <2>3, <2>4, PassedIsHere DEF IInv
  <2> QED
    BY <1>0, <1>1, <2>2, <2>4 DEF FailuresAreIsolated, Reachable
<1> QED
  BY <1>3, <1>4, <1>5, <1>6 DEF IInv

\* An extraction panics.
LEMMA RowPanicsKeeps == IInv /\ RowPanics => IInv'
<1> SUFFICES ASSUME IInv, RowPanics PROVE IInv'
  OBVIOUS
<1>0. /\ UNCHANGED <<bank, step, pages, part, left, found, collected, sent, broken>>
      /\ crawl' = "panicked"
  BY DEF RowPanics, Stay
<1>1. Plan' = Plan /\ Here' = Here /\ Sets' = Sets
  BY <1>0 DEF Plan, Here, Sets, SetsOf
<1>2. Types'
  BY <1>0, <1>1 DEF IInv, Types
<1>3. PagesPassed' /\ PagesHere' /\ PagesAhead' /\ BrokenBefore' /\ FoundWell'
  BY <1>0, <1>1 DEF IInv, PagesPassed, PagesHere, PagesAhead, BrokenBefore, FoundWell
<1>4. CollectedEarlier' /\ UnsentIsNew' /\ FailuresAreIsolated'
  BY <1>0, <1>1 DEF IInv, CollectedEarlier, UnsentIsNew, FailuresAreIsolated
<1> QED
  BY <1>2, <1>3, <1>4 DEF IInv

-----------------------------------------------------------------------------
\* Every step keeps the invariant.
LEMMA NextKeeps == IInv /\ [Next]_vars => IInv'
<1> SUFFICES ASSUME IInv, [Next]_vars PROVE IInv'
  OBVIOUS
<1>1. CASE Arrives
  BY <1>1, ArrivesKeeps
<1>2. CASE GetFails
  BY <1>2, GetFailsKeeps
<1>3. CASE PartFails
  BY <1>3, PartFailsKeeps
<1>4. CASE \E rate \in left : Row(rate)
  BY <1>4, RowKeeps
<1>5. CASE RowPanics
  BY <1>5, RowPanicsKeeps
<1>6. CASE PartEnds
  BY <1>6, PartEndsKeeps
<1>7. CASE SourceEnds
  BY <1>7, SourceEndsKeeps
<1>8. CASE SendSet
  BY <1>8, SendSetKeeps
<1>9. CASE SendEnds
  BY <1>9, SendEndsKeeps
<1>10. CASE Return
  BY <1>10, ReturnKeeps
<1>11. CASE UNCHANGED vars
  <2>1. UNCHANGED <<bank, step, pages, part, left, found, collected, sent, broken, crawl>>
    BY <1>11 DEF vars
  <2>2. Plan' = Plan /\ Here' = Here /\ Sets' = Sets
    BY <2>1 DEF Plan, Here, Sets, SetsOf
  <2>3. Types' /\ PagesPassed' /\ PagesHere' /\ PagesAhead'
    BY <2>1, <2>2 DEF IInv, Types, PagesPassed, PagesHere, Had, PagesAhead
  <2>4. BrokenBefore' /\ FoundWell' /\ CollectedEarlier' /\ UnsentIsNew'
    BY <2>1, <2>2 DEF IInv, BrokenBefore, FoundWell, CollectedEarlier, UnsentIsNew
  <2>5. FailuresAreIsolated'
    BY <2>1, <2>2 DEF IInv, FailuresAreIsolated, Reachable
  <2> QED
    BY <2>3, <2>4, <2>5 DEF IInv
<1> QED
  BY <1>1, <1>2, <1>3, <1>4, <1>5, <1>6, <1>7, <1>8, <1>9, <1>10, <1>11 DEF Next, Over

\* The inductive invariant holds in every state of every crawl.
THEOREM SitesInvariance == Spec => []IInv
<1>1. Init => IInv
  BY InitIInv
<1>2. IInv /\ [Next]_vars => IInv'
  BY NextKeeps
<1> QED
  BY <1>1, <1>2, PTL DEF Spec

\* What is collected comes first of what was found.
LEMMA CollectedIsFound ==
  ASSUME IInv, NEW n \in 1 .. Len(collected)
  PROVE  n \in DOMAIN found /\ collected[n] = found[n]
<1>1. /\ found \in Seq(Sets) /\ DOMAIN found = 1 .. Len(found) /\ Len(found) \in Nat
      /\ Len(collected) \in 0 .. Len(found) /\ collected = SubSeq(found, 1, Len(collected))
  BY DEF IInv, Types
<1>2. \A i \in 1 .. Len(collected) : SubSeq(found, 1, Len(collected))[i] = found[i]
  BY <1>1, Halves
<1> QED
  BY <1>1, <1>2

\* The sets that are collected are ones that the extractions of the plan can make.
LEMMA CollectedAreSets ==
  ASSUME IInv, NEW n \in 1 .. Len(collected)
  PROVE  collected[n] \in Sets
BY CollectedIsFound, ElementOfSeq DEF IInv, Types

\* What is collected stays, and more comes behind it.
LEMMA CollectedStays ==
  ASSUME IInv, [Next]_vars
  PROVE  /\ Len(collected) \in Nat /\ Len(collected') \in Nat /\ Len(collected) <= Len(collected')
         /\ \A n \in 1 .. Len(collected) : collected'[n] = collected[n]
<1>1. Len(collected) \in Nat
  BY DEF IInv, Types
<1>2. IInv'
  BY NextKeeps
<1>3. CASE SourceEnds /\ collected' = collected \o FoundHere
  <2>1. collected' = found /\ found' = found
    BY <1>3, FoundHereIsRest DEF IInv, SourceEnds, Running
  <2>2. \A n \in 1 .. Len(collected) : collected[n] = found[n]
    BY CollectedIsFound
  <2> QED
    BY <1>1, <2>1, <2>2 DEF IInv, Types
<1>4. CASE UNCHANGED collected
  BY <1>1, <1>4
<1> QED
  BY <1>3, <1>4 DEF Next, Arrives, GetFails, PartFails, Row, RowPanics, PartEnds, SourceEnds,
     SendSet, SendEnds, Return, Over, vars

\* Only Danske's and Hypoteket's extractions panic.
LEMMA OnlyRiskyPanics == IInv /\ RowPanics => Risky
<1> SUFFICES ASSUME IInv, RowPanics PROVE Risky
  OBVIOUS
<1>1. step \in DOMAIN Plan /\ part \in DOMAIN Plan[step].parts /\ Plan[step].parts[part].panics
  BY DEF RowPanics, Extracting, Running, Here
<1>2. ~Calm(Plan)
  BY <1>1 DEF Calm
<1> QED
  BY <1>2, PlanWellMade DEF IInv, Types

\* What is sent was collected, from an extraction that did not fail and from pages
\* that are here, whatever the bank and however many rates a page has.
THEOREM SitesTypeCorrect == Spec => []TypeOK
<1>1. ASSUME IInv PROVE TypeOK
  <2>1. DOMAIN collected = 1 .. Len(collected)
    <3>1. SubSeq(found, 1, Len(collected)) \in Seq(Sets)
      BY <1>1, Halves DEF IInv, Types
    <3> QED
      BY <1>1, <3>1 DEF IInv, Types
  <2>2. ASSUME NEW n \in DOMAIN collected
        PROVE  /\ collected[n].from \notin broken
               /\ \A p \in PagesOf(Plan[collected[n].from[1]]) : pages[p] = "here"
    BY <1>1, <2>1, CollectedIsFound DEF IInv, FoundWell
  <2> QED
    BY <1>1, <2>2 DEF IInv, Types, TypeOK
<1> QED
  BY <1>1, SitesInvariance, PTL

\* A failing page, extraction or row costs no other source its rates: when Crawl
\* returns, it has asked for every page that could be had and sent every set found.
THEOREM SitesFailuresAreIsolated == Spec => []FailuresAreIsolated
<1>1. IInv => FailuresAreIsolated
  BY DEF IInv
<1> QED
  BY <1>1, SitesInvariance, PTL

\* Each Crawl does what the service expects of a SiteCrawler: it sends while it
\* runs, and only Danske's and Hypoteket's may panic.
THEOREM SitesImplementSiteCrawler == Spec => ImplementsSiteCrawler
<1>1. Init => Interface!Init
  BY DEF Init, Interface!Init, Risky
<1>2. ASSUME IInv, [Next]_vars PROVE [Interface!Next]_<<crawl, sent, Risky>>
  <2> USE DEF Interface!Next, Interface!Send, Interface!Return, Interface!Panic
  <2>1. CASE RowPanics
    BY <1>2, <2>1, OnlyRiskyPanics DEF RowPanics, Stay, Extracting, Running, Risky
  <2>2. CASE SendSet
    BY <2>2 DEF SendSet, Stay, Running, Risky
  <2>3. CASE GetFails
    BY <2>3 DEF GetFails, Fail, Running, Risky
  <2>4. CASE SourceEnds
    BY <2>4 DEF SourceEnds, Fail, Running, Risky
  <2>5. CASE Return
    BY <2>5 DEF Return, Stay, Risky
  <2>6. CASE Arrives \/ PartFails \/ (\E rate \in left : Row(rate)) \/ PartEnds \/ SendEnds
    BY <2>6 DEF Arrives, Stay, PartFails, Row, PartEnds, SendEnds, Risky
  <2>7. CASE UNCHANGED vars
    BY <2>7 DEF vars, Risky
  <2> QED
    BY <1>2, <2>1, <2>2, <2>3, <2>4, <2>5, <2>6, <2>7 DEF Next, Over
<1> QED
  BY <1>1, <1>2, SitesInvariance, PTL DEF Spec, ImplementsSiteCrawler, Interface!Spec
=============================================================================

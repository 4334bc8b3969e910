# TLA+ models of Bolån Compare

The program crawls 21 Swedish banks once, keeps their mortgage rates in memory,
logs a summary and exits. This directory holds specifications of it, the TLC
configurations that check them, and proofs checked by TLAPS.
`PROJECT.json` lists runs, findings, hazards and theorems, and maps every
definition to the lines it stands for.

## The system

    main ── NewService(store, crawlers) ── Crawl
                                             │  starts
             ┌────────────┬──────────┬───────┴──────┐
         crawler 1    crawler 2 ... crawler 21    recv
             │ fetches its pages      │             │
             └──── objChan (unbuffered) ───────────▶│ UpsertInterestSet
                                                    ▼
      main: Wait, GetInterestSets, summary ◀──── memoryStore.data

| component | state | operations | talks to | hard because |
|---|---|---|---|---|
| crawler service (`service.go`) | WaitGroup, channel, goroutines | `Crawl`, `recv` | crawlers and receiver over the channel, store by calls | 23 goroutines, nobody waits for the receiver, errors and panics half way |
| memory store (`memory.go`) | the slice `data` | `UpsertInterestSet`, `GetInterestSets` | receiver writes, main reads | no lock; the returned slice aliases the store, and main may find half a string in it |
| site crawlers (`crawler/<bank>`) | local variables of `Crawl` | `Crawl` | HTTP client, channel | several sources per bank, each can fail by itself or be another page |
| table reader (`utils/xml.go`) | a tokenizer position | find by text, by caption; parse | used by 12 crawlers | optional end tags, cut-off pages, tables to pass over |
| average-rate tables (ten crawlers) | header terms, rows | extraction | — | columns without a term, empty cells, split rows |
| term parser (`utils/strings.go`) | — | `ParseTerm`, `NormalizeSpaces` | all crawlers | substring matching |
| HTTP client (`http/client.go`) | — | `Fetch`, `FetchRaw` | sites | hands out the body of any answer |
| rate lists (19 crawlers) | rows, collected sets | extraction | — | sections to pass over, short rows, missing fields |
| rate and date parsers | — | `parse...Month`, `parse...Date`, `parse...Rate` of each bank | — | two-digit years, the year from the clock, impossible days, decimals |

What makes each correct:

* service: no set is lost, duplicated or reordered between a crawler and the
  receiver; nobody can send when the channel is closed; the run ends; the
  summary is of what was received;
* store: one entry for each rate, the latest; an upsert touches no other;
* crawlers: a failing source costs the others nothing; what was found is sent;
* table reader: the right table, its rows as written, and nothing from outside;
* tables: every rate under the term of its heading and the month of its row;
* rate lists: a set is made of its own row, its own columns and the month of its
  own section, and what is not understood costs only itself;
* parsers: the month, date and rate that are stored are those published.

## Modules

| module | models | state | actions |
|---|---|---|---|
| `CrawlService` | `Service.Crawl`, `Service.recv`, the end of `main` | where each goroutine stands, `wg`, the channel, what arrived and what was upserted | one for each step of a goroutine that another can observe: spawn, offer, rendezvous, upsert (or failed upsert), return, panic, wait, read, fault, close, exit |
| `BankCrawl` | `CrawlService` in which one of the crawlers runs a real `Crawl` of `SiteCrawlers` | both, and how much of what was collected went into the channel | the program works, pushes a set, or ends; all others as in `CrawlService` |
| `InterestModel` | `model.InterestSet`, `alreadyExists`, the scan | — | — |
| `RateStore` | what a store promises: a keyed table in which the latest set wins | what was asked, the table, the sets without a key | `Put`, `Add` |
| `MemoryStore` | `memory.go`, one caller at a time | the slice; the upserts as history | `UpsertInterestSet` = scan, then replace or append |
| `CrawlSystem` | `CrawlService` on the words of the slice | backing arrays, slice header, the write under way, main's copy | an upsert begins and ends; main reads pointer, length and entries between, and may fault at an entry |
| `SiteCrawlers` | the 21 `Crawl` methods | the step of the plan, pages, sets found, collected and sent | request, extraction, row, failure, send, return |
| `HtmlTable` | `xml.go` | the page and its author; mode and buffers of the reader | the author writes a token, the reader takes it in the same step |
| `AverageTables` | ten ways of reading a table with a column for each term, `ParseTerm` | header, rows, the row that is read, sets | write a row, read the header, read, skip or join a row, finish |
| `RateRows` | 28 lists in which a row is one rate: HTML tables, tables in CMS documents, JSON, Stabelo's buttons | the document, the place in it, the month read last, sets | write a section, decode, open, pass over or refuse a section, read a row, panic, close, finish |
| `Figures` | the parsers of months, dates and rates of 32 lists and tables | the clock, the row as published, the set made of it | publish a row, let a month go by, crawl an average or a list rate |
| `SiteCrawler` | the interface of that name, as the service relies on it | running, returned or panicked; how much was sent | `Send`, `Return`, `Panic` |

`MC_*.tla` give the small instances. `*_proofs.tla` hold the proofs, and `SequenceLemmas`
what they share. `CrawlSystem` extends `CrawlService` and instantiates it a second time as
the specification it implements; it also instantiates `MemoryStore`, whose slice and
history are what its words in memory and its receiver amount to. `MemoryStore` instantiates `RateStore`. `SiteCrawler` is
what the service asks of a crawler, and each of the 21 programs of `SiteCrawlers` is
shown to be one (`ImplementsSiteCrawler`); that alone does not say that the service's results hold
of these programs. `BankCrawl` is where the two meet: one crawler's goroutine runs the program, its `channel <- set` is
the service's send, its return or panic the deferred `wg.Done()`, and the other crawlers do whatever
`CrawlService` allows. It is shown to be a `CrawlService` (`BankImplementsCrawlService`). With one real
crawler among arbitrary ones this covers a run of all 21: take the first step of such a run
that `CrawlService` does not allow. It is a step of some crawler, since the rest is as in `CrawlService`; up to there every
other crawler did what `CrawlService` allows, so the run so far, with the programs of the others
forgotten, is a run of `BankCrawl` in which this crawler is the real one, and there the step is allowed. Operators marked "Faulty
variant" are not part of a specification: each is a plausible bug that the run's
property has to notice.

What the models rest on:

* A send and a receive on an unbuffered channel are one step. A crawler that has
  offered a set is blocked until then.
* In `CrawlService` a crawler is any program that sends some sets and returns,
  or panics. `SiteCrawlers` says which. Its
  sends are bounded by `MaxSends`, in `BankCrawl` too; the proofs are for every bound.
* In `SiteCrawlers` each bank has a *plan*, the data of its `Crawl`: the pages it
  requests, the extractions, whether a failure goes on or returns, and when it
  sends. One machine runs all plans. A page that arrives may be any page. `Rows` are the
  rows of a table with a rate. What they say is left open: two of them may be of one term and
  month, and then both are sent, since no crawler looks for repeats; the store keeps the later.
* In `CrawlSystem` the data race is made explicit, word by word. Between the begin and the
  end of an upsert the array's pointer, the slice's length and each word of the entry may read old
  or new, in any combination. A string is a pointer and a length. A slot that is appended to is
  zero before, so that half a string there has a length and no pointer: it is `Torn`, and
  counting it in the summary, which hashes it (`service.go:54-58`), ends the process. Memory past an
  array is `Garbage`, which may be counted or end the process. An entry is only replaced by one
  with the same bank and type, whose strings do not tear.
* On amd64 (`.build/Dockerfile:6`), where stores become visible in the order they are made, the
  entries copied to a larger array are there when the pointer to it is; on arm64, for which the
  `Makefile` builds as well (`Makefile:37`), they may still read as zero. It is assumed that one
  word is stored and loaded whole, and that the compiler loads each word of an entry once: the
  loop works on its own copy. Go promises neither of a program with a race.
* In `RateRows` a cell is only what its parser makes of it: understood, not
  understood, or not there. `Figures` is about the rest: what a parser makes of
  the numbers in a text. A month is a serial number, `12 * year + month - 1`, and
  a rate is in thousandths of a per cent.
* `Figures` lets the crawl come months after the publication, since the clock is
  part of what Landshypotek's crawler reads.
* In `HtmlTable` a text token is a word, `td` stands for `td` and `th`, and
  tables are not nested.
* In `PROJECT.json`, where one machine stands for many crawlers (the steps of `SiteCrawlers`, of
  `AverageTables` and of `RateRows`), `map` names the lines of one of them, marked "for example".

## Runs and what they show

| run | bounds | shows |
|---|---|---|
| `service` (`MC_BankCrawl`) | 2 crawlers, an arbitrary one with 2 sets and 2 sends, and that of Hypoteket, Svea or SEB with one row in each table; that one may panic, any store call may fail | `DeliveredInOrder`, `QuietAfterWait`, `AtMostOneUnstored`, `SummaryMissesOnlyLast`, `FindsAreStored`, `OfferIsTaken`, `RunEnds`; the real crawler is one of `CrawlService`, its fairness included |
| `stored_before_exit` | 2 arbitrary crawlers, 2 sets, 1 send each, no failures | **violated**: the last set may not be stored at exit |
| `memory_store` | 4 upserts out of 10 sets | `NoDuplicates`, `LatestWins`, implements `RateStore` |
| `store_tiers` | 3 upserts with two tiers | **violated**: a tier replaces the other |
| `crawl_system` | 2 arbitrary crawlers, 2 sends, 3 sets of 2 keys, capacity 2, amd64 and arm64 | `SystemTypeOK`, `SummaryOffByOneLine`, `FaultOnlyAtAppend`, implements `CrawlService` and `MemoryStore` |
| `site_crawlers` | all 21 plans, two `Rows` in each table | `FailuresAreIsolated`, `CrawlEnds`, each is a `SiteCrawler` |
| `html_table` | 12 tokens, 2 tables, skip 0 and 1, lookahead 3 | `RightTable`, `StopsWithTable`, `RowsAsWritten`, `WordsKept` |
| `average_tables` | 2 columns, 3 rows | `UnderItsHeading`, `NothingMissed` |
| `lf_gaps` | 2 columns, 2 rows | **violated**: an empty cell moves the rates behind it |
| `rate_rows` | 28 lists, 2 sections, 2 rows, one odd cell in a row | `RightColumn`, `NoInventedRate`, `RightSection`, `BadRowAlone` |
| `figures` | 32 lists, 2 starts, a wait of up to 13 months, 30 dates, 10 texts of rates | `MonthAsPublished`, `ChangeDateAsPublished`, `RateAsPublished`, `NoRowLost` |
| `nordnet_decimals` | Nordnet alone | **violated**: "2,05" is stored as 2.5 |

Why the bounds are enough. Two crawlers with two sends give every overlap of a
sender, another sender, the receiver and main, including one that panics while
the other is blocked. The three plans differ in what the service can notice: a panic; sends in two places, with a
return between them and the end; two pages for a key that the rest needs. With one row in each table they
send at most two sets, so that the bound on sends cuts nothing off. The safety properties of every run that passes
are proved for any bounds as well; what follows says what TLC sees
of them, and the mutants in `PROJECT.json`. Two rates of a kind are enough for one that is found and one
that is skipped, in either order, and for an extraction that fails or panics between them. Four upserts give a replacement
before and behind an entry of another key. A capacity of two makes the slice
grow once with an entry to copy and lets an append happen in place. Twelve tokens hold
two tables, of which one is passed over, with a row and a cell that is left open;
a lookahead of three instead of ten lets it run out within them. Two columns are enough for a shift by one, three
rows for a split row with a row after it. Two sections are enough for a set with the month of another
section, or of a heading that was not understood, two rows for a bad row before and after a good one, and every
kind of odd cell is tried at every place of a row; layouts with the columns in
another order are tried where the crawler goes by headings. A wait of 13 months
passes the turn of the year twice, once by less and once by more than the year after which
the name of a month is ambiguous. The dates lie at the ends of years, decades,
centuries and windows of two-digit years; 13 stands for a misprint.

`DeliveredInOrder` speaks of the channel; `AtMostOneUnstored` of the receiver; together
they say that the store sees, in order, what each crawler sent.

Exceptions are written into the properties, each with its reason: Länsförsäkringar does not ask
for its PDF when the HTML page fails (`FailuresAreIsolated`), a caption behind an
empty table can be overlooked (`RightTable`), and the tables that the compact and the text
readers, and Danske's row joining, are not made for, and headings of more than ten years, which
`model.Term` does not have (`MadeFor` in `AverageTables`); a number
missing from the JSON of Handelsbanken, SEB or Avanza, which is stored as 0
(`NoInventedRate`); a short row of Nordnet, of which the last tier is taken
(`RightColumn`); a row of Avanza without its discount (`RightSection`); the panics of
Danske and Hypoteket (`BadRowAlone`); SEB's years 2000 to 2009 (`NoRowLost`); the years a
two-digit number can tell, a page older than a year for Landshypotek's latest month, and
the misprinted months that ICA, Ikano and Nordea store (`MonthAsPublished`); impossible
days where `time.Date` moves them (`ChangeDateAsPublished`); Nordnet's zeros (`RateAsPublished`).
All are in the hazards of `PROJECT.json`.

### Fairness

`CrawlService` assumes weak fairness of main, of each crawler, of the receiver
and of the runtime's crash. The Go scheduler runs every runnable goroutine; a
crawler that is not blocked goes on, because each of its requests ends within the
client's 30 seconds and all else it does is finite. That a request ends is an assumption: the client's timer
is not modelled. No fairness is assumed
*among* the crawlers blocked in a send: the bound on sends is why each is
served. `BankCrawl` assumes the same, of the real crawler only that its program makes steps, and the run
`service` shows that this is as fair as `CrawlService` wants it: no program is busy for ever between two sends.
`SiteCrawlers` assumes weak fairness of its `Next`;
a send completes by `OfferIsTaken`. A panic or a fault ends a run as well, and `RunEnds`
counts it.

## What is proved

For all values of the constants, under the assumptions named in the modules
(crawlers are a finite set, bounds are naturals).

`CrawlSystem_proofs`, first the service by itself. The inductive invariant ties the WaitGroup's counter to
the number of crawlers that were started and have not returned. `QuietAfterWait`
alone is not inductive: that `wg = 0` means nobody is left needs the count, and
that main does not pass the spawn loop too early needs "no crawler is new after
it". From it follow `TypeCorrect`, `WaitIsABarrier`, `ReceiverOneBehind`,
`SummaryNearlyComplete` and `ArrivalsAreFinal`. The summary's theorem combines
the receiver's count (at most one set is not upserted) with the barrier (the
number of arrivals no longer changes). `ChannelKeepsOrder` is about the part of what
arrived that is of one crawler, and needs to know that an arrival adds to one crawler's
part and to no other's. `ArrivalsBounded` says that no more arrives than the crawlers may
send together, by giving each arrival the number of its crawler and its place among that crawler's sets.

`MemoryStore_proofs`. `SliceHasNoDuplicates` is the inductive core: as long as no two
entries are the same rate, the first match of the scan is the only one. With it
`UpsertIsLocal`, `LatestSetIsStored` and the refinement
`MemoryStoreImplementsRateStore` follow, the last by showing that replacing is
`Put`, and that appending is `Put` for a set with a key and `Add` for one without.
`StoreTypeCorrect` says that only sets that were upserted are in the slice.

`CrawlSystem_proofs`, then the service with its store, for any crawlers, rates and capacity. `SystemInv` has five parts:
the arrays in memory (`ArraysInv`), the write that is under way (`WriteInv`), what the slice
holds (`StoreIsSequential`), what main has of it (`ReaderInv`), and how the process ended, if it did (`FaultOnlyAtAppend`). They need each
other. That the stored data are those of a store used by one caller needs to know which
word the receiver is about to write; that main's array has every entry from before the last
set (`Covers`) needs to know that an append copies them before the header changes; and both
need, from the invariant of the service, that the receiver handles no more than one
set after the barrier. `SummaryNearlyExact` and `FaultsOnlyAtAppends` are the results: what main loads of an
entry is whole, or it is of the array and the place that the receiver is writing (`LoadsFacts`). Two refinements are proved as well, so
that the specifications form a chain: `CrawlSystem` implements `CrawlService`
(`SystemImplementsCrawlService`), with `SummaryFaults` for the faults of its summary; and it implements `MemoryStore`
(`SystemImplementsMemoryStore`), which implements `RateStore`. What is said of the
two holds of the system with its data race, as far as its outcomes are those listed above.

`CrawlSystem_proofs`, last the service with a real crawler, for each of the 21 banks, pages of any
size and any number of other crawlers. `BankRunsInService` says that `BankCrawl` is `CrawlService`
step by step, and `BankFindsAreStored` follows a rate from the page to the store. `BankInv` joins the
invariant of the programs, taken from `SiteCrawlers_proofs` by an instance in which what is sent is what was
pushed, to that of the service: the goroutine is over when its program is (`OnTurn`); it sent what its program has
collected, in that order (`Pushed`); and what it sent has arrived, but for the set
it is blocked on (`Taken`). `OnTurn` is why a set cannot be pushed after the deferred `Done`. The
program's own invariant says that only Danske's and Hypoteket's can panic, which the service allows to
none but the `Panicky`, and that at a return all that was found is sent. `SamePlans` says that the two
instances of `SiteCrawlers` have the same plans.

`SiteCrawlers_proofs`, for any of the 21 banks and any number of rates on a page. What
the proofs need of a plan is said by `WellMade`, and the 21 plans are looked at only there
(`PlansWellMade`): no page is requested twice; a step reads only earlier pages without which
`Crawl` has returned; between an extraction and a place where `Crawl` may return there is a
send; a failure that returns leaves out no step that could have had its pages;
nothing panics. Each exception that a property names is an exception of one of these
(Länsförsäkringar's to the fourth, Danske's and Hypoteket's to the last). That nothing else panics is about
the crawlers' own code: a panic inside the PDF or workbook library is not modelled, and would end the
process like any other.
All the rest holds of any well-made plan. None of the properties is inductive, as they speak of the
moment `Crawl` returns or of what is in the channel by then. `IInv` says of each step that is over
that its pages are here or one of them failed, where a failure goes on
(`PagesPassed`); of the step that runs, that it has asked for its first pages and has extracted nothing
until the last is here (`PagesHere`); of each set found, that it comes from pages that are here, from an
extraction that did not fail and from a rate that is not left (`FoundWell`); that `collected` is the part of `found`
from the steps that are over (`CollectedEarlier`), so that a source that fails must have found
nothing (`FailedFoundNothing`); and that no send lies behind a set
that is not sent (`UnsentIsNew`), which with the plan gives that at a return all is sent (`AllIsSent`). From
these follow `SitesFailuresAreIsolated`, `SitesTypeCorrect` and `SitesImplementSiteCrawler`, and what
`BankCrawl` needs.

`HtmlTable_proofs`, for pages of any length, any number of tables, any `skip` and any
positive `Lookahead`. `SeekInv` says where the reader stands in the page: how many tables are
behind the marker, which of them it has gone into, how far its lookahead is. `RightTable` and
`StopsWithTable` follow. `BodyInv` says what it has read there: the rows it
holds, together with the row and the cell that are open, are those the author has written so
far. For tidy tables this is equality, cell by cell (`RowsAsWritten`); for
untidy ones equality of the words alone (`WordsKept`), for which `FlattenSeq` has to be
known to take what is appended at its end.

`RateRows_proofs`, for any of the 28 lists and any document. The properties speak of sets,
from which it is no longer told how they were made. `Origins` says it: each was
taken by the function of its source from its own row, in a section that is read,
with that section's month. `Completeness` says that no whole row is missing among those passed, and
`Place` that the month at hand is the section's own once it is open. What a source's
function does with a row is not about steps: `SetsSayTheRow`, `WholeRowGivesSet` and
`PanicHasReason` go through the 28 sources once, and the steps of the invariant do not
mention them. From these follow `RatesFromTheirColumns`, `NoRateIsInvented`, `RatesOfTheirSection`,
`BadRowsAreAlone` and `RowsTypeCorrect`.

`AverageTables_proofs`, for any headings and any number of columns and rows. `UnderItsHeading`
is inductive once it is known what can be written (`Tables`: cells are at their places, and
the lower half of a split row is below a month alone); `NothingMissedSoFar` says the same of the
rows passed as `NothingMissed` does of all, and that Danske's reader never stops at a lower
half. The three ways of reading are shown to be one in `SetsOfRowAreRight`: the map
from columns, the count of cells and the count of numbers in a text all give `RatesOf`, each rate under its own
heading, in the tables they are made for. `TermIsMonths` is what
`ParseTerm` makes of a heading: its last digit is enough up to ten years, and not above.

`Figures_proofs`, for any dates of four digits in the year, any rates, any months of
publication and any wait. The properties speak of a set after its page is gone by, so the
inductive invariant says what the set is made of: `ReadFromPage`, the functions of the
crawler applied to the row that was published, with the clock of the crawl, and
`Published`, which bounds that clock by the month of publication. That these functions
give back what was written is arithmetic on their own, in lemmas: a serial number and a
two-digit year determine a month (`SerialParts`, `MonthOfSEB`, `MonthOfName`), a day in the
calendar is not moved (`TimeDateOfDate`), Nordnet's divisor is the right one when the first
decimal is not zero (`DecimalsOfNordnet`). From these follow `AveragesKeepTheirMonth`, `ChangesKeepTheirDate`,
`RatesKeepTheirValue`, `RowsAreKept` and `FiguresTypeOK`.

`SequenceLemmas`. The induction theorems of the library take an operator as a
parameter, which the provers cannot instantiate. Here a property is a set of numbers instead
(`LeastNatural`, `InductionUpTo`), and the step of a recursion a function (`RecursionHasSolution`).
From these follow what the modules need of `FlattenSeq`, which is a fold: appending, concatenation, and
that a selection of elements (`Selection`) has them all when all pass.

Each inductive invariant was an invariant of its component's run before it was proved. The
proof of `UnderItsHeading` showed a hypothesis the run had by its choice of headings: of eleven
years and more it does not hold, as "11 år" is read as one year.

`ArrivalsAreFinal` (`NoLateArrival`), `ArrivalsBounded`, `UpsertIsLocal` (`OthersUntouched`) and `UpsertsAreSequential`
(`StoreIsSequential`) are proved and not in a run of their own; the last is a part of `ImplementsMemoryStore`.

Only model-checked: what needs fairness (`OfferIsTaken`, `RunEnds`, `CrawlEnds`, and the fairness in
`BankImplementsCrawlService`), which is out of the prover's reach. Every other property of a run that passes has a theorem.

## Disagreements between code and text

1. `README.md:3-4` wants the rates stored; the process can exit before the last one is (`service.go:43`).
2. `README.md:4-5` wants loan-to-value discounts; the store's key ignores the tier (`memory.go:25`).
3. `lansforsakringar.go:402` promises -1 for empty rates; they are passed over (`lansforsakringar.go:416`).
4. `nordnet.go:174` returns the nominal rate; leading zeros of its decimals are lost (`nordnet.go:191`).

## Not modelled

* The names of months, the words of terms other than `ParseTerm`'s digits, and white space:
  a parser understands them or not.
* How a page is cut before its tables are read (the table below a heading in Svea's page, JAK's
  markers, SEB's key in a script, the link to Nordea's workbook, the JSON in
  Skandia's page): text search, of which only the outcome is a choice.
* Stabelo's list rates, which `findMaxRateForTerm` looks for in the stream of its page,
  beyond "a rate is found or skipped". (In the page kept in `testdata` all quotes of the
  stream are escaped, and the expression finds none.) The PDF and workbook libraries, their panics included.
* The effective rates of a page, which no crawler reads, are columns of `RateRows`;
  a heading "Effektiv ränta" on Länsförsäkringar's page, which would win over
  "Ränta", is not tried: its page has none.
* Logging, the headers of the HTTP client, the choice of a browser name:
  nothing reads them back.
* Mocks and test helpers: not part of the program.

## Plan

Done: the service, the store, the two together, the 21 crawlers, a real crawler in the
service, the table reader, average-rate tables, rate lists, and the parsers of
months, dates and rates; proofs about every component's safety.

Left: `RateRows` and `AverageTables` on what `HtmlTable` returns, in place of any rows.

## Running

    tlc -config BankCrawl.cfg MC_BankCrawl.tla
    tlapm CrawlSystem_proofs.tla

---------------------------- MODULE CrawlService ----------------------------
(***************************************************************************)
(* One run of the crawler program: Service.Crawl and Service.recv of       *)
(* internal/app/crawler/service.go, and the end of the process after       *)
(* cmd/crawler/main.go calls them.                                         *)
(*                                                                         *)
(* The processes are goroutines: main, one goroutine per SiteCrawler, and  *)
(* the receiver.  They share the unbuffered channel objChan (a send and a  *)
(* receive are one step, a rendezvous), the WaitGroup, and the store.      *)
(* A crawler is any program that sends up to MaxSends sets and then        *)
(* returns, or panics; BankCrawl.tla puts a real one there.  The store is  *)
(* seen through its interface: an upsert, and a read, return with or       *)
(* without an error.  CrawlSystem.tla puts MemoryStore there.              *)
(***************************************************************************)
EXTENDS Naturals, FiniteSets, Sequences

CONSTANTS
  Crawlers,       \* s.crawlers, the elements of the slice
  InterestSets,   \* values of model.InterestSet
  MaxSends,       \* bound on the sets one crawler sends in a run
  Panicky,        \* the crawlers with a panic on some page they can be served
  StoreErrors     \* what may go wrong with the store: a call may fail ("upsert",
                  \* "get"), and what "get" hands out may be written to ("race")

ASSUME CrawlersFinite == IsFiniteSet(Crawlers)
ASSUME MaxSendsNat    == MaxSends \in Nat
ASSUME PanickyCrawls  == Panicky \subseteq Crawlers
ASSUME ErrorsKnown    == StoreErrors \subseteq {"upsert", "get", "race"}

VARIABLES
  crawler,   \* where the goroutine of a crawler stands
  sent,      \* the sets it offered so far; the last one may still be blocked
  wg,        \* the WaitGroup's counter
  recv,      \* where the receiver stands
  arrivals,  \* the sets received from objChan, in order, with their sender
  handled,   \* how many of them have been upserted (or logged as failed)
  failed,    \* positions in arrivals whose upsert returned an error
  channel,   \* objChan
  main,      \* where Service.Crawl stands
  seen,      \* what was upserted when GetInterestSets returned (positions)
  process    \* the whole program

crawlerVars == <<crawler, sent, wg>>
recvVars    == <<recv, arrivals, handled, failed>>
mainVars    == <<channel, main, seen, process>>
vars        == <<crawlerVars, recvVars, mainVars>>

Active  == {c \in Crawlers : crawler[c] \in {"running", "sending"}}
Alive   == process = "alive"
InStore == (1 .. handled) \ failed          \* positions whose set is stored

Init ==
  /\ crawler = [c \in Crawlers |-> "new"]
  /\ sent = [c \in Crawlers |-> <<>>]
  /\ wg = 0
  /\ recv = "new"
  /\ arrivals = <<>>
  /\ handled = 0
  /\ failed = {}
  /\ channel = "open"
  /\ main = "spawning"
  /\ seen = {}
  /\ process = "alive"

-----------------------------------------------------------------------------
(* Service.Crawl *)

\* Faulty variant: wg.Add(1) is forgotten.
SpawnWithoutAdd(c) ==
  /\ Alive /\ main = "spawning"
  /\ crawler[c] = "new"
  /\ crawler' = [crawler EXCEPT ![c] = "running"]
  /\ UNCHANGED <<sent, wg, recvVars, mainVars>>

\* wg.Add(1); go func(c) ... : main counts the crawler before it starts it.
SpawnCrawler(c) ==
  /\ Alive /\ main = "spawning"
  /\ crawler[c] = "new"
  /\ wg' = wg + 1
  /\ crawler' = [crawler EXCEPT ![c] = "running"]
  /\ UNCHANGED <<sent, recvVars, mainVars>>

\* go s.recv(objChan), after the loop over the crawlers.
SpawnReceiver ==
  /\ Alive /\ main = "spawning"
  /\ \A c \in Crawlers : crawler[c] # "new"
  /\ recv' = "waiting"
  /\ main' = "waiting"
  /\ UNCHANGED <<crawlerVars, arrivals, handled, failed, channel, seen, process>>

\* Faulty variant: Crawl does not wait.
WaitSkipped ==
  /\ Alive /\ main = "waiting"
  /\ main' = "reading"
  /\ UNCHANGED <<crawlerVars, recvVars, channel, seen, process>>

\* wg.Wait() returns.
WaitReturns ==
  /\ Alive /\ main = "waiting"
  /\ wg = 0
  /\ main' = "reading"
  /\ UNCHANGED <<crawlerVars, recvVars, channel, seen, process>>

\* interestSets, err := s.store.GetInterestSets(), err == nil: the summary is
\* built from what the store holds at this moment.
GetInterestSets ==
  /\ Alive /\ main = "reading"
  /\ seen' = InStore
  /\ main' = "summarising"
  /\ UNCHANGED <<crawlerVars, recvVars, channel, process>>

\* err != nil: log and return, past the close at the end of the function.
GetInterestSetsFails ==
  /\ Alive /\ main = "reading"
  /\ "get" \in StoreErrors
  /\ main' = "returned"
  /\ UNCHANGED <<crawlerVars, recvVars, channel, seen, process>>

\* The sets that main counts are those that the receiver may still be writing: a
\* string of which main gets only half faults, and the process ends.
SummaryFaults ==
  /\ Alive /\ main = "summarising"
  /\ "race" \in StoreErrors
  /\ arrivals # <<>>
  /\ process' = "crashed"
  /\ UNCHANGED <<crawlerVars, recvVars, channel, main, seen>>

\* The summary is logged; close(objChan) is the last statement.
CloseChannel ==
  /\ Alive /\ main = "summarising"
  /\ channel' = "closed"
  /\ main' = "returned"
  /\ UNCHANGED <<crawlerVars, recvVars, seen, process>>

\* main() ends right after svc.Crawl(): the runtime stops every goroutine.
Exit ==
  /\ Alive /\ main = "returned"
  /\ process' = "exited"
  /\ UNCHANGED <<crawlerVars, recvVars, channel, main, seen>>

-----------------------------------------------------------------------------
(* the goroutine of a crawler *)

\* Faulty variant: a send with a default branch, which drops the set.
OfferOrDrop(c, s) ==
  /\ Alive /\ crawler[c] = "running"
  /\ Len(sent[c]) < MaxSends
  /\ sent' = [sent EXCEPT ![c] = Append(@, s)]
  /\ UNCHANGED <<crawler, wg, recvVars, mainVars>>

\* The crawler reaches  result <- set  and blocks there.
OfferSet(c, s) ==
  /\ Alive /\ crawler[c] = "running"
  /\ Len(sent[c]) < MaxSends
  /\ sent' = [sent EXCEPT ![c] = Append(@, s)]
  /\ crawler' = [crawler EXCEPT ![c] = "sending"]
  /\ UNCHANGED <<wg, recvVars, mainVars>>

\* Faulty variant: wg.Done() is not reached.
ReturnWithoutDone(c) ==
  /\ Alive /\ crawler[c] = "running"
  /\ crawler' = [crawler EXCEPT ![c] = "returned"]
  /\ UNCHANGED <<sent, wg, recvVars, mainVars>>

\* c.Crawl returns; the deferred wg.Done() runs.
Return(c) ==
  /\ Alive /\ crawler[c] = "running"
  /\ crawler' = [crawler EXCEPT ![c] = "returned"]
  /\ wg' = wg - 1
  /\ UNCHANGED <<sent, recvVars, mainVars>>

\* c.Crawl panics: the deferred wg.Done() runs while the stack unwinds ...
Panic(c) ==
  /\ Alive /\ crawler[c] = "running"
  /\ c \in Panicky
  /\ crawler' = [crawler EXCEPT ![c] = "panicking"]
  /\ wg' = wg - 1
  /\ UNCHANGED <<sent, recvVars, mainVars>>

\* ... and nothing recovers: the runtime ends the process.
Crash ==
  /\ Alive
  /\ \E c \in Crawlers : crawler[c] = "panicking"
  /\ process' = "crashed"
  /\ UNCHANGED <<crawlerVars, recvVars, channel, main, seen>>

-----------------------------------------------------------------------------
(* the channel and the receiver *)

\* Faulty variant: the receiver takes the next set before it upserts this one.
RendezvousAhead(c) ==
  /\ Alive /\ channel = "open"
  /\ crawler[c] = "sending"
  /\ recv \in {"waiting", "upserting"}
  /\ arrivals' = Append(arrivals, [from |-> c, set |-> sent[c][Len(sent[c])]])
  /\ crawler' = [crawler EXCEPT ![c] = "running"]
  /\ recv' = "upserting"
  /\ UNCHANGED <<sent, wg, handled, failed, mainVars>>

\* An unbuffered send completes together with its receive.
Rendezvous(c) ==
  /\ Alive /\ channel = "open"
  /\ crawler[c] = "sending"
  /\ recv = "waiting"
  /\ arrivals' = Append(arrivals, [from |-> c, set |-> sent[c][Len(sent[c])]])
  /\ crawler' = [crawler EXCEPT ![c] = "running"]
  /\ recv' = "upserting"
  /\ UNCHANGED <<sent, wg, handled, failed, mainVars>>

\* UpsertInterestSet(set) returns nil ...
UpsertReturns ==
  /\ Alive /\ recv = "upserting"
  /\ handled' = handled + 1
  /\ recv' = "waiting"
  /\ UNCHANGED <<crawlerVars, arrivals, failed, mainVars>>

\* Faulty variant: recv returns when an upsert fails.
UpsertFailsForGood ==
  /\ Alive /\ recv = "upserting"
  /\ "upsert" \in StoreErrors
  /\ handled' = handled + 1
  /\ failed' = failed \cup {handled + 1}
  /\ recv' = "returned"
  /\ UNCHANGED <<crawlerVars, arrivals, mainVars>>

\* ... or an error, which is only logged: the set is gone.
UpsertFails ==
  /\ Alive /\ recv = "upserting"
  /\ "upsert" \in StoreErrors
  /\ handled' = handled + 1
  /\ failed' = failed \cup {handled + 1}
  /\ recv' = "waiting"
  /\ UNCHANGED <<crawlerVars, arrivals, mainVars>>

\* The range over a closed channel ends and recv returns.
RangeEnds ==
  /\ Alive /\ recv = "waiting"
  /\ channel = "closed"
  /\ recv' = "returned"
  /\ UNCHANGED <<crawlerVars, arrivals, handled, failed, mainVars>>

\* The process is gone.
Terminated ==
  /\ ~Alive
  /\ UNCHANGED vars

-----------------------------------------------------------------------------
MainStep ==
  \/ \E c \in Crawlers : SpawnCrawler(c)
  \/ SpawnReceiver
  \/ WaitReturns
  \/ GetInterestSets
  \/ GetInterestSetsFails
  \/ SummaryFaults
  \/ CloseChannel
  \/ Exit

CrawlerStep(c) ==
  \/ \E s \in InterestSets : OfferSet(c, s)
  \/ Return(c)
  \/ Panic(c)

ReceiverStep ==
  \/ \E c \in Crawlers : Rendezvous(c)
  \/ UpsertReturns
  \/ UpsertFails
  \/ RangeEnds

Next ==
  \/ MainStep
  \/ \E c \in Crawlers : CrawlerStep(c)
  \/ ReceiverStep
  \/ Crash
  \/ Terminated

Spec == Init /\ [][Next]_vars

\* The Go scheduler runs every runnable goroutine; a crawler that is running
\* makes its next send or returns (its fetches end within the 30 s timeout),
\* and the runtime does not stop half way through a panic.
Fairness ==
  /\ WF_vars(MainStep)
  /\ \A c \in Crawlers : WF_vars(CrawlerStep(c))
  /\ WF_vars(ReceiverStep)
  /\ WF_vars(Crash)

FairSpec == Spec /\ Fairness

-----------------------------------------------------------------------------
(* Properties *)

\* Type invariant.
TypeOK ==
  /\ crawler \in [Crawlers -> {"new", "running", "sending", "returned", "panicking"}]
  /\ sent \in [Crawlers -> Seq(InterestSets)]
  /\ wg \in Nat
  /\ recv \in {"new", "waiting", "upserting", "returned"}
  /\ arrivals \in Seq([from : Crawlers, set : InterestSets])
  /\ handled \in Nat
  /\ failed \subseteq Nat
  /\ channel \in {"open", "closed"}
  /\ main \in {"spawning", "waiting", "reading", "summarising", "returned"}
  /\ seen \subseteq Nat
  /\ process \in {"alive", "exited", "crashed"}

\* Once Wait has returned no crawler is left that could send: closing objChan
\* then cannot make a later send panic, and no sender is left blocked.
QuietAfterWait ==
  main \notin {"spawning", "waiting"} => \A c \in Crawlers : crawler[c] \in {"returned", "panicking"}

\* The sets a crawler offered, without the one it is still blocked on.
Delivered(c) == IF crawler[c] = "sending"
                THEN SubSeq(sent[c], 1, Len(sent[c]) - 1) ELSE sent[c]

\* The positions of the crawler's sets among the first n arrivals.
ArrivedFrom(c, n) == {i \in 1 .. n : arrivals[i].from = c}

\* The channel loses, duplicates and reorders nothing: the receiver got from a
\* crawler as many sets as that crawler sent, and the n-th of them is the n-th
\* that it sent.
DeliveredInOrder ==
  \A c \in Crawlers :
    /\ Cardinality(ArrivedFrom(c, Len(arrivals))) = Len(Delivered(c))
    /\ \A i \in DOMAIN arrivals :
         arrivals[i].from = c => arrivals[i].set = Delivered(c)[Cardinality(ArrivedFrom(c, i))]

\* The receiver is never more than one set behind the crawlers: a set that has
\* arrived is upserted before the next one is taken.
AtMostOneUnstored ==
  /\ handled \in {Len(arrivals), Len(arrivals) - 1}
  /\ recv = "waiting" => handled = Len(arrivals)

\* Whatever the summary misses is either a set whose upsert failed or the very
\* last set that arrived, still in the receiver's hands.
SummaryMissesOnlyLast ==
  main = "summarising" =>
    (1 .. Len(arrivals)) \ (seen \cup failed) \subseteq {Len(arrivals)}

\* A step property: after Wait has returned nothing more arrives.
NoLateArrival ==
  [][main \notin {"spawning", "waiting"} => UNCHANGED arrivals]_vars

\* Every set a crawler offers is taken, unless another crawler's panic ends
\* the process first: no crawler stays blocked in its send.
OfferIsTaken ==
  \A c \in Crawlers : crawler[c] = "sending" ~> crawler[c] # "sending" \/ process = "crashed"

\* The run ends: main returns, or a panic or a fault ends the process.
RunEnds ==
  <>(process = "exited" \/ process = "crashed")

-----------------------------------------------------------------------------
(* What the repository says of the program, and the code does not keep *)

\* README.md:3: the crawler fetches the latest rates "and store[s] them": a run
\* that exits has every set it received in the store (upserts do not fail).
StoredBeforeExit ==
  process = "exited" => InStore = 1 .. Len(arrivals)
=============================================================================

------------------------- MODULE CrawlSystem_proofs -------------------------
(***************************************************************************)
(* Proofs about the crawler service, by itself and with the store in       *)
(* memory, for any finite set of crawlers, any sets and any number of      *)
(* sends, and for any capacity.  First CrawlService: the key is the        *)
(* WaitGroup, whose counter is the number of crawlers that can still send, *)
(* so that Wait returns only when none can, and everything that main does  *)
(* afterwards meets a quiet channel.  Then CrawlSystem, where the slice    *)
(* moves in memory while main reads it.  Last BankCrawl, where the         *)
(* invariants of the service and of the programs meet.                     *)
(***************************************************************************)
EXTENDS CrawlSystem, BankCrawl, SequenceLemmas, FunctionTheorems, FiniteSetTheorems, SequenceTheorems, TLAPS

-----------------------------------------------------------------------------
(* The service *)

\* The counter of the WaitGroup is the number of crawlers that can still send.
CounterIsActive == wg = Cardinality(Active)

\* Before the receiver exists main is spawning, and spawning ends only when
\* every crawler has been started.
SpawnOrder ==
  /\ recv = "new" <=> main = "spawning"
  /\ main # "spawning" => \A c \in Crawlers : crawler[c] # "new"

\* Main closes the channel as its last act.
ClosedLast == channel = "closed" => main = "returned"

\* A blocked crawler has something to send.
BlockedOnASet == \A c \in Crawlers : crawler[c] = "sending" => sent[c] # <<>>

\* What the receiver has dealt with and what it holds are what arrived.
ReceiverKeepsUp ==
  /\ recv = "upserting" => handled = Len(arrivals) - 1
  /\ recv # "upserting" => handled = Len(arrivals)

\* The inductive invariant.
IInv ==
  /\ TypeOK
  /\ CounterIsActive
  /\ SpawnOrder
  /\ ClosedLast
  /\ BlockedOnASet
  /\ ReceiverKeepsUp
  /\ QuietAfterWait
  /\ SummaryMissesOnlyLast

-----------------------------------------------------------------------------
\* The crawlers that can send are finitely many.
LEMMA ActiveFinite == IsFiniteSet(Active)
<1>1. Active \subseteq Crawlers
  BY DEF Active
<1> QED
  BY <1>1, CrawlersFinite, FS_Subset

\* Initially nothing runs.
LEMMA InitIInv == Init => IInv
<1> SUFFICES ASSUME Init PROVE IInv
  OBVIOUS
<1>1. TypeOK
  <2>1. <<>> \in Seq(InterestSets) /\ <<>> \in Seq([from : Crawlers, set : InterestSets])
    BY EmptySeq
  <2> QED
    BY <2>1 DEF Init, TypeOK
<1>2. CounterIsActive
  <2>1. Active = {}
    BY DEF Init, Active
  <2> QED
    BY <2>1, FS_EmptySet DEF Init, CounterIsActive
<1> QED
  BY <1>1, <1>2, EmptySeq DEF Init, IInv, SpawnOrder, ClosedLast, BlockedOnASet, ReceiverKeepsUp,
     QuietAfterWait, SummaryMissesOnlyLast

-----------------------------------------------------------------------------
\* Every step keeps the types; the counter cannot go below zero because it
\* counts the crawler that is about to call Done.
LEMMA NextTypeOK == IInv /\ [Next]_vars => TypeOK'
<1> SUFFICES ASSUME IInv, [Next]_vars PROVE TypeOK'
  OBVIOUS
<1> USE DEF IInv, TypeOK, crawlerVars, recvVars, mainVars, vars
<1>0. \A c \in Crawlers : crawler[c] \in {"running", "sending"} => wg - 1 \in Nat
  <2> SUFFICES ASSUME NEW c \in Crawlers, crawler[c] \in {"running", "sending"} PROVE wg - 1 \in Nat
    OBVIOUS
  <2>1. c \in Active
    BY DEF Active
  <2>2. Cardinality(Active) # 0
    BY <2>1, ActiveFinite, FS_EmptySet
  <2> QED
    BY <2>2 DEF CounterIsActive
<1>1. ASSUME NEW c \in Crawlers, SpawnCrawler(c) PROVE TypeOK'
  BY <1>1 DEF SpawnCrawler
<1>2. CASE SpawnReceiver
  BY <1>2 DEF SpawnReceiver
<1>3. CASE WaitReturns
  BY <1>3 DEF WaitReturns
<1>4. CASE GetInterestSets
  BY <1>4 DEF GetInterestSets, InStore
<1>5. CASE GetInterestSetsFails
  BY <1>5 DEF GetInterestSetsFails
<1>6. CASE CloseChannel
  BY <1>6 DEF CloseChannel
<1>7. CASE Exit
  BY <1>7 DEF Exit
<1>8. ASSUME NEW c \in Crawlers, NEW s \in InterestSets, OfferSet(c, s) PROVE TypeOK'
  <2>1. Append(sent[c], s) \in Seq(InterestSets)
    BY AppendProperties
  <2> QED
    BY <1>8, <2>1 DEF OfferSet
<1>9. ASSUME NEW c \in Crawlers, Return(c) PROVE TypeOK'
  BY <1>0, <1>9 DEF Return
<1>10. ASSUME NEW c \in Crawlers, Panic(c) PROVE TypeOK'
  BY <1>0, <1>10 DEF Panic
<1>11. CASE SummaryFaults \/ Crash
  BY <1>11 DEF SummaryFaults, Crash
<1>12. ASSUME NEW c \in Crawlers, Rendezvous(c) PROVE TypeOK'
  <2>1. sent[c] \in Seq(InterestSets) /\ sent[c] # <<>>
    BY <1>12 DEF Rendezvous, BlockedOnASet
  <2>2. sent[c][Len(sent[c])] \in InterestSets
    BY <2>1, ElementOfSeq, EmptySeq
  <2>3. arrivals' \in Seq([from : Crawlers, set : InterestSets])
    BY <1>12, <2>2, AppendProperties DEF Rendezvous
  <2> QED
    BY <1>12, <2>3 DEF Rendezvous
<1>13. CASE UpsertReturns
  BY <1>13 DEF UpsertReturns
<1>14. CASE UpsertFails
  BY <1>14 DEF UpsertFails
<1>15. CASE RangeEnds
  BY <1>15 DEF RangeEnds
<1>16. CASE Terminated \/ UNCHANGED vars
  BY <1>16 DEF Terminated
<1> QED
  BY <1>1, <1>2, <1>3, <1>4, <1>5, <1>6, <1>7, <1>8, <1>9, <1>10, <1>11, <1>12, <1>13, <1>14,
     <1>15, <1>16 DEF Next, MainStep, CrawlerStep, ReceiverStep
-----------------------------------------------------------------------------
\* The counter follows the crawlers that can send: a crawler is counted when it
\* is spawned, stays counted while it goes back and forth between running and
\* sending, and leaves once, on return or on a panic.
LEMMA NextCounter == IInv /\ [Next]_vars => CounterIsActive'
<1> SUFFICES ASSUME IInv, [Next]_vars PROVE CounterIsActive'
  OBVIOUS
<1> USE DEF IInv, CounterIsActive
<1>1. ASSUME NEW c \in Crawlers, SpawnCrawler(c) PROVE CounterIsActive'
  <2>1. c \notin Active /\ Active' = Active \cup {c}
    BY <1>1 DEF SpawnCrawler, Active, TypeOK
  <2> QED
    BY <1>1, <2>1, ActiveFinite, FS_AddElement DEF SpawnCrawler
<1>2. ASSUME NEW c \in Crawlers, Return(c) \/ Panic(c) PROVE CounterIsActive'
  <2>1. c \in Active /\ Active' = Active \ {c}
    BY <1>2 DEF Return, Panic, Active, TypeOK
  <2>2. Cardinality(Active \ {c}) = Cardinality(Active) - 1
    BY <2>1, ActiveFinite, FS_RemoveElement
  <2> QED
    BY <1>2, <2>1, <2>2 DEF Return, Panic
<1>3. ASSUME NEW c \in Crawlers, (\E s \in InterestSets : OfferSet(c, s)) \/ Rendezvous(c)
      PROVE CounterIsActive'
  <2>1. Active' = Active
    BY <1>3 DEF OfferSet, Rendezvous, Active, TypeOK
  <2> QED
    BY <1>3, <2>1 DEF OfferSet, Rendezvous
<1>4. ASSUME UNCHANGED <<crawler, wg>> PROVE CounterIsActive'
  BY <1>4 DEF Active
<1> USE DEF crawlerVars, recvVars, mainVars, vars
<1>5. CASE SpawnReceiver \/ WaitReturns \/ GetInterestSets \/ GetInterestSetsFails
  BY <1>4, <1>5 DEF SpawnReceiver, WaitReturns, GetInterestSets, GetInterestSetsFails
<1>6. CASE CloseChannel \/ Exit \/ SummaryFaults \/ Crash \/ Terminated \/ UNCHANGED vars
  BY <1>4, <1>6 DEF CloseChannel, Exit, SummaryFaults, Crash, Terminated
<1>7. CASE UpsertReturns \/ UpsertFails \/ RangeEnds
  BY <1>4, <1>7 DEF UpsertReturns, UpsertFails, RangeEnds
<1> QED
  BY <1>1, <1>2, <1>3, <1>5, <1>6, <1>7 DEF Next, MainStep, CrawlerStep, ReceiverStep

\* The order in which main starts goroutines and closes the channel.
LEMMA NextSpawnOrder == IInv /\ [Next]_vars => SpawnOrder' /\ ClosedLast'
<1> SUFFICES ASSUME IInv, [Next]_vars PROVE SpawnOrder' /\ ClosedLast'
  OBVIOUS
<1> USE DEF IInv, TypeOK, SpawnOrder, ClosedLast, crawlerVars, recvVars, mainVars, vars
<1>1. CASE MainStep
  BY <1>1 DEF MainStep, SpawnCrawler, SpawnReceiver, WaitReturns, GetInterestSets,
     GetInterestSetsFails, SummaryFaults, CloseChannel, Exit
<1>2. ASSUME NEW c \in Crawlers, CrawlerStep(c) PROVE SpawnOrder' /\ ClosedLast'
  BY <1>2 DEF CrawlerStep, OfferSet, Return, Panic
<1>3. CASE ReceiverStep
  BY <1>3 DEF ReceiverStep, Rendezvous, UpsertReturns, UpsertFails, RangeEnds
<1>4. CASE Crash \/ Terminated \/ UNCHANGED vars
  BY <1>4 DEF Crash, Terminated
<1> QED
  BY <1>1, <1>2, <1>3, <1>4 DEF Next

\* A crawler blocks only after it has put a set on the channel.
LEMMA NextBlocked == IInv /\ [Next]_vars => BlockedOnASet'
<1> SUFFICES ASSUME IInv, [Next]_vars PROVE BlockedOnASet'
  OBVIOUS
<1> USE DEF IInv, TypeOK, BlockedOnASet, crawlerVars, recvVars, mainVars, vars
<1>1. CASE MainStep
  BY <1>1 DEF MainStep, SpawnCrawler, SpawnReceiver, WaitReturns, GetInterestSets,
     GetInterestSetsFails, SummaryFaults, CloseChannel, Exit
<1>2. ASSUME NEW c \in Crawlers, NEW s \in InterestSets, OfferSet(c, s) PROVE BlockedOnASet'
  <2>1. sent[c] \in Seq(InterestSets)
    OBVIOUS
  <2>2. Append(sent[c], s) # <<>>
    <3> HIDE DEF IInv, TypeOK, BlockedOnASet
    <3> QED
      BY <2>1, AppendProperties
  <2> QED
    BY <1>2, <2>2 DEF OfferSet
<1>3. ASSUME NEW c \in Crawlers, Return(c) \/ Panic(c) PROVE BlockedOnASet'
  BY <1>3 DEF Return, Panic
<1>4. CASE ReceiverStep
  BY <1>4 DEF ReceiverStep, Rendezvous, UpsertReturns, UpsertFails, RangeEnds
<1>5. CASE Crash \/ Terminated \/ UNCHANGED vars
  BY <1>5 DEF Crash, Terminated
<1> QED
  BY <1>1, <1>2, <1>3, <1>4, <1>5 DEF Next, CrawlerStep

\* The receiver takes the next set only after it is done with the last one.
LEMMA NextKeepsUp == IInv /\ [Next]_vars => ReceiverKeepsUp'
<1> SUFFICES ASSUME IInv, [Next]_vars PROVE ReceiverKeepsUp'
  OBVIOUS
<1> USE DEF IInv, TypeOK, ReceiverKeepsUp, crawlerVars, recvVars, mainVars, vars
<1>1. CASE MainStep
  BY <1>1 DEF MainStep, SpawnCrawler, SpawnReceiver, WaitReturns, GetInterestSets,
     GetInterestSetsFails, SummaryFaults, CloseChannel, Exit, SpawnOrder
<1>2. ASSUME NEW c \in Crawlers, CrawlerStep(c) PROVE ReceiverKeepsUp'
  BY <1>2 DEF CrawlerStep, OfferSet, Return, Panic
<1>3. ASSUME NEW c \in Crawlers, Rendezvous(c) PROVE ReceiverKeepsUp'
  <2>1. Len(arrivals') = Len(arrivals) + 1
    BY <1>3, AppendProperties, NextTypeOK DEF Rendezvous
  <2> QED
    BY <1>3, <2>1, LenProperties DEF Rendezvous
<1>4. CASE UpsertReturns \/ UpsertFails \/ RangeEnds
  BY <1>4, LenProperties DEF UpsertReturns, UpsertFails, RangeEnds
<1>5. CASE Crash \/ Terminated \/ UNCHANGED vars
  BY <1>5 DEF Crash, Terminated
<1> QED
  BY <1>1, <1>2, <1>3, <1>4, <1>5 DEF Next, ReceiverStep

\* Wait returns at zero, that is when no crawler can send; a crawler that has
\* ended never starts again.
LEMMA NextQuiet == IInv /\ [Next]_vars => QuietAfterWait'
<1> SUFFICES ASSUME IInv, [Next]_vars PROVE QuietAfterWait'
  OBVIOUS
<1> USE DEF IInv, TypeOK, QuietAfterWait, crawlerVars, recvVars, mainVars, vars
<1>1. CASE WaitReturns
  <2>1. Cardinality(Active) = 0
    BY <1>1 DEF WaitReturns, CounterIsActive
  <2>2. Active = {}
    BY <2>1, ActiveFinite, FS_EmptySet
  <2>3. \A c \in Crawlers : crawler[c] \in {"returned", "panicking"}
    BY <1>1, <2>2 DEF WaitReturns, Active, SpawnOrder
  <2> QED
    BY <1>1, <2>3 DEF WaitReturns
<1>2. CASE MainStep /\ ~WaitReturns
  BY <1>2 DEF MainStep, SpawnCrawler, SpawnReceiver, GetInterestSets, GetInterestSetsFails,
     SummaryFaults, CloseChannel, Exit
<1>3. ASSUME NEW c \in Crawlers, CrawlerStep(c) PROVE QuietAfterWait'
  BY <1>3 DEF CrawlerStep, OfferSet, Return, Panic
<1>4. CASE ReceiverStep
  BY <1>4 DEF ReceiverStep, Rendezvous, UpsertReturns, UpsertFails, RangeEnds
<1>5. CASE Crash \/ Terminated \/ UNCHANGED vars
  BY <1>5 DEF Crash, Terminated
<1> QED
  BY <1>1, <1>2, <1>3, <1>4, <1>5 DEF Next

\* What main reads can miss the set in the receiver's hands, and no other.
LEMMA NextSummary == IInv /\ [Next]_vars => SummaryMissesOnlyLast'
<1> SUFFICES ASSUME IInv, [Next]_vars PROVE SummaryMissesOnlyLast'
  OBVIOUS
<1> USE DEF IInv, TypeOK, SummaryMissesOnlyLast, crawlerVars, recvVars, mainVars, vars
<1>1. CASE GetInterestSets
  <2>1. Len(arrivals) \in Nat /\ handled \in {Len(arrivals), Len(arrivals) - 1}
    BY LenProperties DEF ReceiverKeepsUp
  <2>2. seen' = (1 .. handled) \ failed /\ UNCHANGED <<arrivals, failed>>
    BY <1>1 DEF GetInterestSets, InStore
  <2> QED
    BY <2>1, <2>2
<1>2. CASE MainStep /\ ~GetInterestSets
  BY <1>2 DEF MainStep, SpawnCrawler, SpawnReceiver, WaitReturns, GetInterestSetsFails,
     SummaryFaults, CloseChannel, Exit
<1>3. ASSUME NEW c \in Crawlers, CrawlerStep(c) PROVE SummaryMissesOnlyLast'
  BY <1>3 DEF CrawlerStep, OfferSet, Return, Panic
<1>4. ASSUME NEW c \in Crawlers, Rendezvous(c) PROVE SummaryMissesOnlyLast'
  <2>1. main \in {"spawning", "waiting"}
    BY <1>4 DEF Rendezvous, QuietAfterWait
  <2> QED
    BY <1>4, <2>1 DEF Rendezvous
<1>5. CASE UpsertReturns \/ UpsertFails \/ RangeEnds
  BY <1>5 DEF UpsertReturns, UpsertFails, RangeEnds
<1>6. CASE Crash \/ Terminated \/ UNCHANGED vars
  BY <1>6 DEF Crash, Terminated
<1> QED
  BY <1>1, <1>2, <1>3, <1>4, <1>5, <1>6 DEF Next, ReceiverStep

-----------------------------------------------------------------------------
\* Every step keeps the invariant.
LEMMA NextIInv == IInv /\ [Next]_vars => IInv'
BY NextTypeOK, NextCounter, NextSpawnOrder, NextBlocked, NextKeepsUp, NextQuiet, NextSummary DEF IInv

\* The invariant holds throughout every run.
THEOREM Invariance == Spec => []IInv
BY InitIInv, NextIInv, PTL DEF Spec

\* The variables keep their types; in particular wg never goes below zero, which
\* would make wg.Done panic.
THEOREM TypeCorrect == Spec => []TypeOK
<1>1. IInv => TypeOK
  BY DEF IInv
<1> QED
  BY Invariance, <1>1, PTL

\* After wg.Wait every crawler has ended: closing objChan cannot break a send.
THEOREM WaitIsABarrier == Spec => []QuietAfterWait
<1>1. IInv => QuietAfterWait
  BY DEF IInv
<1> QED
  BY Invariance, <1>1, PTL

\* The receiver is at most one set behind the crawlers.
THEOREM ReceiverOneBehind == Spec => []AtMostOneUnstored
<1>1. IInv => AtMostOneUnstored
  BY LenProperties DEF IInv, TypeOK, ReceiverKeepsUp, AtMostOneUnstored
<1> QED
  BY Invariance, <1>1, PTL

\* The summary misses at most the last set that arrived and those whose upsert
\* failed.
THEOREM SummaryNearlyComplete == Spec => []SummaryMissesOnlyLast
<1>1. IInv => SummaryMissesOnlyLast
  BY DEF IInv
<1> QED
  BY Invariance, <1>1, PTL

\* After wg.Wait nothing arrives any more.
THEOREM ArrivalsAreFinal == Spec => NoLateArrival
<1>1. IInv /\ [Next]_vars => [main \notin {"spawning", "waiting"} => UNCHANGED arrivals]_vars
  <2> SUFFICES ASSUME IInv, Next, main \notin {"spawning", "waiting"} PROVE UNCHANGED arrivals
    BY DEF vars
  <2> USE DEF crawlerVars, recvVars, mainVars, vars
  <2>1. CASE MainStep
    BY <2>1 DEF MainStep, SpawnCrawler, SpawnReceiver, WaitReturns, GetInterestSets,
       GetInterestSetsFails, SummaryFaults, CloseChannel, Exit
  <2>2. ASSUME NEW c \in Crawlers, CrawlerStep(c) PROVE UNCHANGED arrivals
    BY <2>2 DEF CrawlerStep, OfferSet, Return, Panic
  <2>3. ASSUME NEW c \in Crawlers PROVE ~Rendezvous(c)
    BY DEF IInv, QuietAfterWait, Rendezvous
  <2>4. CASE ReceiverStep
    BY <2>3, <2>4 DEF ReceiverStep, UpsertReturns, UpsertFails, RangeEnds
  <2>5. CASE Crash \/ Terminated
    BY <2>5 DEF Crash, Terminated
  <2> QED
    BY <2>1, <2>2, <2>4, <2>5 DEF Next
<1> QED
  BY Invariance, <1>1, PTL DEF Spec, NoLateArrival

-----------------------------------------------------------------------------
\* No crawler sends more than it may.
SendsWithinBound == \A c \in Crawlers : Len(sent[c]) <= MaxSends

DeliveryInv == DeliveredInOrder /\ SendsWithinBound

\* The set a crawler is blocked on is the only one it has not delivered.
LEMMA DeliveredSets ==
  ASSUME TypeOK, BlockedOnASet, NEW c \in Crawlers
  PROVE  /\ Len(sent[c]) \in Nat
         /\ Len(Delivered(c)) = IF crawler[c] = "sending" THEN Len(sent[c]) - 1 ELSE Len(sent[c])
         /\ Len(Delivered(c)) \in Nat
         /\ \A i \in 1 .. Len(Delivered(c)) : Delivered(c)[i] = sent[c][i]
<1>1. /\ sent[c] \in Seq(InterestSets) /\ Len(sent[c]) \in Nat
      /\ \A i \in 1 .. Len(sent[c]) : sent[c][i] \in InterestSets
  BY LenProperties, ElementOfSeq DEF TypeOK
<1>2. CASE crawler[c] = "sending"
  <2>1. Len(sent[c]) \in Nat \ {0}
    BY <1>1, <1>2, EmptySeq DEF BlockedOnASet
  <2>2. /\ Len(SubSeq(sent[c], 1, Len(sent[c]) - 1)) = Len(sent[c]) - 1
        /\ \A i \in 1 .. Len(sent[c]) - 1 : SubSeq(sent[c], 1, Len(sent[c]) - 1)[i] = sent[c][i]
    BY <1>1, <2>1
  <2> QED
    BY <1>2, <2>1, <2>2 DEF Delivered
<1>3. CASE crawler[c] # "sending"
  BY <1>1, <1>3 DEF Delivered
<1> QED
  BY <1>2, <1>3

\* Positions are finitely many.
LEMMA ArrivedFinite ==
  ASSUME NEW c, NEW n \in Nat
  PROVE  IsFiniteSet(ArrivedFrom(c, n)) /\ Cardinality(ArrivedFrom(c, n)) \in 0 .. n
<1>1. ArrivedFrom(c, n) \subseteq 1 .. n
  BY DEF ArrivedFrom
<1>2. IsFiniteSet(1 .. n) /\ Cardinality(1 .. n) = n
  BY FS_Interval
<1> QED
  BY <1>1, <1>2, FS_Subset, FS_CardinalityType

\* The k-th arrival from a crawler was preceded by k - 1 others.
LEMMA ArrivedGrows ==
  ASSUME NEW c, NEW n \in Nat, NEW m \in 1 .. n
  PROVE  /\ arrivals[m].from = c =>
              Cardinality(ArrivedFrom(c, m)) = Cardinality(ArrivedFrom(c, m - 1)) + 1
         /\ arrivals[m].from # c => ArrivedFrom(c, m) = ArrivedFrom(c, m - 1)
         /\ Cardinality(ArrivedFrom(c, m)) <= Cardinality(ArrivedFrom(c, n))
<1>1. ASSUME arrivals[m].from = c
      PROVE  Cardinality(ArrivedFrom(c, m)) = Cardinality(ArrivedFrom(c, m - 1)) + 1
  <2>1. ArrivedFrom(c, m) = ArrivedFrom(c, m - 1) \cup {m} /\ m \notin ArrivedFrom(c, m - 1)
    BY <1>1 DEF ArrivedFrom
  <2>2. m - 1 \in Nat
    OBVIOUS
  <2>3. IsFiniteSet(ArrivedFrom(c, m - 1))
    BY <2>2, ArrivedFinite
  <2> QED
    BY <2>1, <2>3, FS_AddElement
<1>2. ASSUME arrivals[m].from # c PROVE ArrivedFrom(c, m) = ArrivedFrom(c, m - 1)
  BY <1>2 DEF ArrivedFrom
<1>3. ArrivedFrom(c, m) \subseteq ArrivedFrom(c, n)
  BY DEF ArrivedFrom
<1> QED
  BY <1>1, <1>2, <1>3, ArrivedFinite, FS_Subset

\* Nothing arrived and nothing was sent yet.
LEMMA InitDelivery == Init => DeliveryInv
<1> SUFFICES ASSUME Init PROVE DeliveryInv
  OBVIOUS
<1>1. ASSUME NEW c \in Crawlers
      PROVE  Cardinality(ArrivedFrom(c, Len(arrivals))) = 0 /\ Delivered(c) = <<>> /\ Len(sent[c]) = 0
  BY FS_EmptySet DEF Init, ArrivedFrom, Delivered
<1> QED
  BY <1>1, MaxSendsNat DEF Init, DeliveryInv, DeliveredInOrder, SendsWithinBound

\* A crawler delivers a set in the step in which the receiver takes it: the two
\* counts grow together, and the set is the one the crawler was blocked on.
LEMMA RendezvousDelivers ==
  ASSUME IInv, DeliveredInOrder, NEW d \in Crawlers, Rendezvous(d), TypeOK', BlockedOnASet'
  PROVE  DeliveredInOrder'
<1>0. PICK n \in Nat : n = Len(arrivals)
  BY LenProperties DEF IInv, TypeOK
<1> DEFINE a == [from |-> d, set |-> sent[d][Len(sent[d])]]
<1>1. /\ arrivals \in Seq([from : Crawlers, set : InterestSets])
      /\ n = Len(arrivals) /\ DOMAIN arrivals = 1 .. n
      /\ crawler \in [Crawlers -> {"new", "running", "sending", "returned", "panicking"}]
  BY <1>0, LenProperties DEF IInv, TypeOK
<1>2. /\ crawler[d] = "sending" /\ sent' = sent
      /\ crawler' = [crawler EXCEPT ![d] = "running"]
      /\ arrivals' = Append(arrivals, a)
  BY DEF Rendezvous
<1>3. a \in [from : Crawlers, set : InterestSets]
  <2>1. sent[d] \in Seq(InterestSets) /\ Len(sent[d]) \in 1 .. Len(sent[d])
    BY <1>2, EmptySeq DEF IInv, TypeOK, BlockedOnASet
  <2> QED
    BY <2>1, ElementOfSeq
<1>4. /\ Len(arrivals') = n + 1 /\ DOMAIN arrivals' = 1 .. n + 1
      /\ arrivals'[n + 1] = a
      /\ \A i \in 1 .. n : arrivals'[i] = arrivals[i]
  <2>1. Append(arrivals, a) \in Seq([from : Crawlers, set : InterestSets])
    BY <1>1, <1>3, AppendProperties
  <2> QED
    BY <1>1, <1>2, <1>3, <2>1, AppendProperties, LenProperties
<1>5. ASSUME NEW c \in Crawlers, NEW m \in 0 .. n PROVE ArrivedFrom(c, m)' = ArrivedFrom(c, m)
  BY <1>1, <1>4 DEF ArrivedFrom
<1>6. ASSUME NEW c \in Crawlers, c # d
      PROVE  /\ Delivered(c)' = Delivered(c)
             /\ ArrivedFrom(c, n + 1)' = ArrivedFrom(c, n)
  <2>1. Delivered(c)' = Delivered(c)
    BY <1>1, <1>2, <1>6 DEF Delivered
  <2>2. ArrivedFrom(c, n + 1)' = ArrivedFrom(c, n)
    BY <1>1, <1>4, <1>6 DEF ArrivedFrom
  <2> QED
    BY <2>1, <2>2
<1>7. /\ ArrivedFrom(d, n + 1)' = ArrivedFrom(d, n) \cup {n + 1}
      /\ Cardinality(ArrivedFrom(d, n + 1)') = Cardinality(ArrivedFrom(d, n)) + 1
  <2>1. ArrivedFrom(d, n + 1)' = ArrivedFrom(d, n) \cup {n + 1} /\ n + 1 \notin ArrivedFrom(d, n)
    BY <1>1, <1>4 DEF ArrivedFrom
  <2> QED
    BY <1>1, <2>1, ArrivedFinite, FS_AddElement
<1>8. /\ Len(Delivered(d)) = Len(sent[d]) - 1 /\ Len(sent[d]) \in Nat
      /\ Cardinality(ArrivedFrom(d, n)) = Len(Delivered(d))
      /\ \A i \in 1 .. Len(Delivered(d)) : Delivered(d)[i] = sent[d][i]
      /\ Delivered(d)' = sent[d]
  BY <1>1, <1>2, DeliveredSets DEF IInv, DeliveredInOrder, Delivered
<1>9. ASSUME NEW c \in Crawlers
      PROVE  Cardinality(ArrivedFrom(c, Len(arrivals)))' = Len(Delivered(c))'
  <2>1. CASE c = d
    BY <1>4, <1>7, <1>8, <2>1
  <2>2. CASE c # d
    BY <1>1, <1>4, <1>6, <2>2 DEF DeliveredInOrder
  <2> QED
    BY <2>1, <2>2
<1>10. ASSUME NEW c \in Crawlers, NEW i \in 1 .. n + 1, arrivals'[i].from = c
       PROVE  arrivals'[i].set = Delivered(c)'[Cardinality(ArrivedFrom(c, i)')]
  <2>1. CASE i = n + 1
    BY <1>4, <1>7, <1>8, <1>10, <2>1
  <2>2. CASE i # n + 1
    <3>1. i \in 1 .. n /\ arrivals'[i] = arrivals[i] /\ ArrivedFrom(c, i)' = ArrivedFrom(c, i)
      BY <1>1, <1>4, <1>5, <2>2
    <3>2. arrivals[i].set = Delivered(c)[Cardinality(ArrivedFrom(c, i))]
      BY <1>1, <1>10, <3>1 DEF DeliveredInOrder
    <3>3. CASE c # d
      BY <1>6, <3>1, <3>2, <3>3
    <3>4. CASE c = d
      <4>1. Cardinality(ArrivedFrom(d, i)) \in 1 .. Len(Delivered(d))
        <5>1. i - 1 \in Nat
          BY <3>1
        <5> QED
          BY <1>1, <1>8, <1>10, <3>1, <3>4, <5>1, ArrivedGrows, ArrivedFinite
      <4> QED
        BY <1>8, <3>1, <3>2, <3>4, <4>1
    <3> QED
      BY <3>3, <3>4
  <2> QED
    BY <2>1, <2>2
<1> QED
  BY <1>4, <1>9, <1>10 DEF DeliveredInOrder

\* No other step delivers: a crawler that offers a set has not delivered it yet.
LEMMA NextDelivery == IInv /\ IInv' /\ DeliveryInv /\ [Next]_vars => DeliveryInv'
<1> SUFFICES ASSUME IInv, IInv', DeliveryInv, [Next]_vars PROVE DeliveryInv'
  OBVIOUS
<1>0. /\ crawler \in [Crawlers -> {"new", "running", "sending", "returned", "panicking"}]
      /\ sent \in [Crawlers -> Seq(InterestSets)]
  BY DEF IInv, TypeOK
<1>1. ASSUME UNCHANGED arrivals, \A c \in Crawlers : Delivered(c)' = Delivered(c)
      PROVE  DeliveredInOrder'
  <2>1. \A c : ArrivedFrom(c, Len(arrivals))' = ArrivedFrom(c, Len(arrivals))
    BY <1>1 DEF ArrivedFrom
  <2>2. \A c, i : ArrivedFrom(c, i)' = ArrivedFrom(c, i)
    BY <1>1 DEF ArrivedFrom
  <2> QED
    BY <1>1, <2>1, <2>2 DEF DeliveryInv, DeliveredInOrder
<1>2. ASSUME NEW d \in Crawlers, NEW s \in InterestSets, OfferSet(d, s) PROVE DeliveryInv'
  <2>1. /\ sent' = [sent EXCEPT ![d] = Append(@, s)] /\ UNCHANGED arrivals
        /\ crawler[d] = "running" /\ crawler' = [crawler EXCEPT ![d] = "sending"]
        /\ Len(sent[d]) < MaxSends
    BY <1>2 DEF OfferSet, recvVars
  <2>2. sent'[d] = Append(sent[d], s) /\ Len(Append(sent[d], s)) = Len(sent[d]) + 1
    BY <1>0, <2>1, AppendProperties
  <2>3. SubSeq(Append(sent[d], s), 1, Len(sent[d])) = sent[d]
    BY <1>0
  <2>4. Delivered(d)' = Delivered(d)
    <3>1. Len(sent[d]) \in Nat
      BY <1>0, LenProperties
    <3>2. Delivered(d)' = SubSeq(Append(sent[d], s), 1, Len(sent[d]))
      BY <1>0, <2>1, <2>2, <3>1 DEF Delivered
    <3> QED
      BY <2>1, <2>3, <3>2 DEF Delivered
  <2>5. \A c \in Crawlers \ {d} : Delivered(c)' = Delivered(c)
    BY <1>0, <2>1 DEF Delivered
  <2>6. SendsWithinBound'
    <3>1. Len(sent[d]) \in Nat
      BY <1>0, LenProperties
    <3> QED
      BY <1>0, <2>1, <2>2, <3>1, MaxSendsNat DEF DeliveryInv, SendsWithinBound
  <2> QED
    BY <1>1, <2>1, <2>4, <2>5, <2>6 DEF DeliveryInv
<1>3. ASSUME NEW d \in Crawlers, Rendezvous(d) PROVE DeliveryInv'
  <2>1. DeliveredInOrder'
    BY <1>3, RendezvousDelivers DEF DeliveryInv, IInv
  <2> QED
    BY <1>3, <2>1 DEF DeliveryInv, SendsWithinBound, Rendezvous
<1>4. ASSUME UNCHANGED <<sent, arrivals>>,
             \A c \in Crawlers : crawler[c] = "sending" <=> crawler'[c] = "sending"
      PROVE  DeliveryInv'
  <2>1. \A c \in Crawlers : Delivered(c)' = Delivered(c)
    BY <1>4 DEF Delivered
  <2> QED
    BY <1>1, <1>4, <2>1 DEF DeliveryInv, SendsWithinBound
<1> USE DEF crawlerVars, recvVars, mainVars, vars
<1>5. ASSUME NEW d \in Crawlers, SpawnCrawler(d) \/ Return(d) \/ Panic(d)
      PROVE  DeliveryInv'
  BY <1>0, <1>4, <1>5 DEF SpawnCrawler, Return, Panic
<1>6. CASE SpawnReceiver \/ WaitReturns \/ GetInterestSets \/ GetInterestSetsFails
  BY <1>4, <1>6 DEF SpawnReceiver, WaitReturns, GetInterestSets, GetInterestSetsFails
<1>7. CASE CloseChannel \/ Exit \/ SummaryFaults \/ Crash \/ Terminated \/ UNCHANGED vars
  BY <1>4, <1>7 DEF CloseChannel, Exit, SummaryFaults, Crash, Terminated
<1>8. CASE UpsertReturns \/ UpsertFails \/ RangeEnds
  BY <1>4, <1>8 DEF UpsertReturns, UpsertFails, RangeEnds
<1> QED
  BY <1>2, <1>3, <1>5, <1>6, <1>7, <1>8 DEF Next, MainStep, CrawlerStep, ReceiverStep

\* Delivery goes well throughout every run.
THEOREM DeliveryInvariance == Spec => []DeliveryInv
BY Invariance, InitDelivery, NextDelivery, PTL DEF Spec

\* The channel loses, duplicates and reorders no set, whoever else sends and
\* whatever the store answers.
THEOREM ChannelKeepsOrder == Spec => []DeliveredInOrder
<1>1. DeliveryInv => DeliveredInOrder
  BY DEF DeliveryInv
<1> QED
  BY DeliveryInvariance, <1>1, PTL

-----------------------------------------------------------------------------
\* No more sets arrive than the crawlers may send together: an arrival is known
\* by its sender and its number among that sender's.
LEMMA ArrivalsBounded ==
  ASSUME IInv, DeliveryInv
  PROVE  Len(arrivals) <= Cardinality(Crawlers) * MaxSends
<1> DEFINE n == Len(arrivals)
           nth == [i \in 1 .. n |-> <<arrivals[i].from, Cardinality(ArrivedFrom(arrivals[i].from, i))>>]
<1>1. n \in Nat /\ \A i \in 1 .. n : arrivals[i].from \in Crawlers
  <2>1. arrivals \in Seq([from : Crawlers, set : InterestSets])
    BY DEF IInv, TypeOK
  <2>2. \A i \in 1 .. n : arrivals[i] \in [from : Crawlers, set : InterestSets]
    BY <2>1, ElementOfSeq
  <2> QED
    BY <2>1, <2>2, LenProperties
<1>2. ASSUME NEW i \in 1 .. n, NEW c \in Crawlers, arrivals[i].from = c
      PROVE  Cardinality(ArrivedFrom(c, i)) \in 1 .. MaxSends
  <2>1. i \in Nat /\ i - 1 \in Nat
    BY <1>1
  <2>2. /\ Cardinality(ArrivedFrom(c, i)) \in Nat \ {0}
        /\ Cardinality(ArrivedFrom(c, i)) <= Cardinality(ArrivedFrom(c, n))
    BY <1>1, <1>2, <2>1, ArrivedFinite, ArrivedGrows
  <2>3. Cardinality(ArrivedFrom(c, n)) = Len(Delivered(c))
    BY DEF DeliveryInv, DeliveredInOrder
  <2>4. Len(Delivered(c)) <= MaxSends /\ Len(Delivered(c)) \in Nat
    BY DeliveredSets, MaxSendsNat DEF IInv, DeliveryInv, SendsWithinBound
  <2> QED
    BY <2>2, <2>3, <2>4, MaxSendsNat
<1>3. nth \in [1 .. n -> Crawlers \X (1 .. MaxSends)]
  BY <1>1, <1>2
<1>4. ASSUME NEW i \in 1 .. n, NEW j \in 1 .. n, i < j PROVE nth[i] # nth[j]
  <2> DEFINE c == arrivals[j].from
  <2>1. CASE arrivals[i].from # c
    BY <2>1
  <2>2. CASE arrivals[i].from = c
    <3>1. i \in Nat /\ j \in Nat /\ j - 1 \in Nat /\ i \in 1 .. j - 1
      BY <1>1, <1>4
    <3>2. Cardinality(ArrivedFrom(c, j)) = Cardinality(ArrivedFrom(c, j - 1)) + 1
      BY <1>1, ArrivedGrows
    <3>3. Cardinality(ArrivedFrom(c, i)) <= Cardinality(ArrivedFrom(c, j - 1))
      BY <3>1, ArrivedGrows
    <3>4. Cardinality(ArrivedFrom(c, i)) \in Nat /\ Cardinality(ArrivedFrom(c, j - 1)) \in Nat
      BY <3>1, ArrivedFinite
    <3> QED
      BY <2>2, <3>2, <3>3, <3>4
  <2> QED
    BY <2>1, <2>2
<1>5. nth \in Injection(1 .. n, Crawlers \X (1 .. MaxSends))
  <2>1. \A i, j \in 1 .. n : nth[i] = nth[j] => i = j
    BY <1>1, <1>4
  <2> QED
    BY <1>3, <2>1, Fun_IsInj
<1>6. /\ IsFiniteSet(Crawlers \X (1 .. MaxSends))
      /\ Cardinality(Crawlers \X (1 .. MaxSends)) = Cardinality(Crawlers) * MaxSends
  <2>1. IsFiniteSet(1 .. MaxSends) /\ Cardinality(1 .. MaxSends) = MaxSends
    BY MaxSendsNat, FS_Interval
  <2> QED
    BY <2>1, CrawlersFinite, FS_Product
<1>7. Cardinality(1 .. n) = n
  <2>1. ASSUME NEW m \in Nat PROVE Cardinality(1 .. m) = m
    BY FS_Interval
  <2> QED
    BY <1>1, <2>1
<1> QED
  BY <1>5, <1>6, <1>7, FS_Injection

-----------------------------------------------------------------------------
(* The service with the store in memory *)

\* One step of the recursion.
NextSlice(d, arrived, n) == IF n = 0 THEN <<>> ELSE Upserted(d[n - 1], arrived[n].set)

\* The recursion that defines Slices has a solution.
LEMMA SlicesExist ==
  ASSUME NEW arrived, NEW N \in Nat
  PROVE  \E d : d = [n \in 0 .. N |-> IF n = 0 THEN <<>> ELSE Upserted(d[n - 1], arrived[n].set)]
<1> DEFINE Solves(d, m) == /\ d = [n \in 0 .. m |-> d[n]]
                           /\ \A n \in 0 .. m : d[n] = NextSlice(d, arrived, n)
           T == {m \in 0 .. N : \E d : Solves(d, m)}
<1>1. 0 \in T
  <2>1. Solves([n \in 0 .. 0 |-> <<>>], 0)
    BY DEF NextSlice
  <2> QED
    BY <2>1
<1>2. ASSUME NEW m \in 0 .. N - 1, m \in T PROVE m + 1 \in T
  <2>1. PICK d : Solves(d, m)
    BY <1>2
  <2> DEFINE e == [n \in 0 .. m + 1 |-> IF n = m + 1 THEN Upserted(d[m], arrived[m + 1].set) ELSE d[n]]
  <2>2. ASSUME NEW n \in 0 .. m + 1 PROVE e[n] = NextSlice(e, arrived, n)
    <3>1. CASE n = m + 1
      BY <3>1 DEF NextSlice
    <3>2. CASE n # m + 1
      <4>1. n \in 0 .. m /\ (n # 0 => n - 1 \in 0 .. m) /\ \A k \in 0 .. m : e[k] = d[k]
        BY <3>2
      <4>2. d[n] = NextSlice(d, arrived, n)
        BY <2>1, <4>1
      <4> HIDE DEF e
      <4>3. e[n] = d[n] /\ (n # 0 => e[n - 1] = d[n - 1])
        BY <4>1
      <4> QED
        BY <4>2, <4>3 DEF NextSlice
    <3> QED
      BY <3>1, <3>2
  <2>3. Solves(e, m + 1)
    BY <2>2
  <2>4. m + 1 \in 0 .. N
    OBVIOUS
  <2> HIDE DEF Solves, e
  <2> QED
    BY <2>3, <2>4
<1>3. N \in T
  <2> HIDE DEF T
  <2>1. 0 .. N \subseteq T
    BY <1>1, <1>2, InductionUpTo
  <2> QED
    BY <2>1
<1>4. PICK d : Solves(d, N)
  BY <1>3
<1>5. d = [n \in 0 .. N |-> NextSlice(d, arrived, n)]
  BY <1>4
<1> QED
  BY <1>5 DEF NextSlice

\* Slices begins with the empty slice, and each next one is an upsert away.
LEMMA SlicesDef ==
  ASSUME NEW arrived, Len(arrived) \in Nat, NEW n \in 0 .. Len(arrived)
  PROVE  Slices(arrived)[n] = IF n = 0 THEN <<>> ELSE Upserted(Slices(arrived)[n - 1], arrived[n].set)
<1> DEFINE F(d) == [k \in 0 .. Len(arrived) |-> IF k = 0 THEN <<>> ELSE Upserted(d[k - 1], arrived[k].set)]
           D == Slices(arrived)
<1>1. D = CHOOSE d : d = F(d)
  BY DEF Slices
<1>2. \E d : d = F(d)
  BY SlicesExist
<1>3. D = F(D)
  <2> HIDE DEF D, F
  <2> QED
    BY <1>1, <1>2
<1> HIDE DEF D
<1>4. D[n] = IF n = 0 THEN <<>> ELSE Upserted(D[n - 1], arrived[n].set)
  BY <1>3
<1> QED
  BY <1>4 DEF D
-----------------------------------------------------------------------------
\* The scan, when something matches, stops at an entry that does.
LEMMA FirstMatchIsMatch ==
  ASSUME NEW d \in Seq(InterestSets), NEW set, MatchesOf(d, set) # {}
  PROVE  /\ FirstMatch(d, set) \in 1 .. Len(d)
         /\ AlreadyExists(d[FirstMatch(d, set)], set)
<1> DEFINE M == MatchesOf(d, set)
<1>1. M \in SUBSET Nat /\ \A i \in M : i \in 1 .. Len(d) /\ AlreadyExists(d[i], set)
  <2>1. DOMAIN d = 1 .. Len(d)
    BY LenProperties
  <2> QED
    BY <2>1 DEF MatchesOf
<1>2. \E n \in M : \A m \in M : n <= m
  BY <1>1, LeastNatural
<1>3. FirstMatch(d, set) \in M
  BY <1>2 DEF FirstMatch
<1> QED
  BY <1>1, <1>3

\* An upsert keeps the lines of the slice, in their places, and adds at most one:
\* one when there is no entry of the same rate.
LEMMA UpsertedKeepsLines ==
  ASSUME NEW d \in Seq(InterestSets), NEW set \in InterestSets
  PROVE  /\ Upserted(d, set) \in Seq(InterestSets)
         /\ Len(Upserted(d, set)) \in {Len(d), Len(d) + 1}
         /\ Len(Upserted(d, set)) = Len(d) + 1 => MatchesOf(d, set) = {}
         /\ \A i \in 1 .. Len(d) : LineOf(Upserted(d, set)[i]) = LineOf(d[i])
<1>0. DOMAIN d = 1 .. Len(d) /\ Len(d) \in Nat
  BY LenProperties
<1>1. CASE MatchesOf(d, set) # {}
  <2> DEFINE k == FirstMatch(d, set)
  <2>1. k \in 1 .. Len(d) /\ AlreadyExists(d[k], set)
    BY <1>1, FirstMatchIsMatch
  <2>2. Upserted(d, set) = [d EXCEPT ![k] = set]
    BY <1>1 DEF Upserted
  <2> HIDE DEF k
  <2>3. Upserted(d, set) \in Seq(InterestSets) /\ Len(Upserted(d, set)) = Len(d)
    BY <2>1, <2>2, ExceptSeq
  <2>4. LineOf(set) = LineOf(d[k])
    BY <2>1 DEF AlreadyExists, LineOf
  <2>5. ASSUME NEW i \in 1 .. Len(d) PROVE LineOf(Upserted(d, set)[i]) = LineOf(d[i])
    BY <1>0, <2>2, <2>4
  <2>6. Len(Upserted(d, set)) # Len(d) + 1
    <3>1. \A n \in Nat : n # n + 1
      OBVIOUS
    <3>2. Len(d) # Len(d) + 1
      BY <1>0, <3>1, Zenon
    <3> QED
      BY <2>3, <3>2, Zenon
  <2> QED
    BY <2>3, <2>5, <2>6
<1>2. CASE MatchesOf(d, set) = {}
  <2>1. Upserted(d, set) = Append(d, set)
    BY <1>2 DEF Upserted
  <2> QED
    BY <1>2, <2>1, AppendProperties
<1> QED
  BY <1>1, <1>2

\* The slices on the way are sequences of rates.
LEMMA SlicesTyped ==
  ASSUME NEW arrived \in Seq([from : Crawlers, set : InterestSets]), NEW n \in 0 .. Len(arrived)
  PROVE  Slices(arrived)[n] \in Seq(InterestSets)
<1> DEFINE T == {k \in 0 .. Len(arrived) : Slices(arrived)[k] \in Seq(InterestSets)}
<1>0. Len(arrived) \in Nat /\ \A k \in 1 .. Len(arrived) : arrived[k].set \in InterestSets
  <2>1. \A k \in 1 .. Len(arrived) : arrived[k] \in [from : Crawlers, set : InterestSets]
    BY ElementOfSeq
  <2>2. Len(arrived) \in Nat
    BY LenProperties
  <2> QED
    BY <2>1, <2>2
<1>1. 0 \in T
  <2>1. 0 \in 0 .. Len(arrived) /\ <<>> \in Seq(InterestSets)
    BY <1>0, EmptySeq
  <2> QED
    BY <1>0, <2>1, SlicesDef
<1>2. ASSUME NEW k \in 0 .. Len(arrived) - 1, k \in T PROVE k + 1 \in T
  <2>1. k + 1 \in 0 .. Len(arrived) /\ k + 1 # 0 /\ k + 1 \in 1 .. Len(arrived) /\ (k + 1) - 1 = k
    BY <1>0
  <2>2. Slices(arrived)[k + 1] = Upserted(Slices(arrived)[k], arrived[k + 1].set)
    BY <1>0, <2>1, SlicesDef
  <2>3. Slices(arrived)[k + 1] \in Seq(InterestSets)
    BY <1>0, <1>2, <2>1, <2>2, UpsertedKeepsLines
  <2> QED
    BY <2>1, <2>3
<1> HIDE DEF T
<1>3. 0 .. Len(arrived) \subseteq T
  BY <1>0, <1>1, <1>2, InductionUpTo
<1>4. n \in T
  BY <1>3
<1> QED
  BY <1>4 DEF T

\* A set that arrives later changes nothing about the slices before.
LEMMA SlicesStable ==
  ASSUME NEW arrived \in Seq([from : Crawlers, set : InterestSets]), 
         NEW a \in [from : Crawlers, set : InterestSets], NEW n \in 0 .. Len(arrived)
  PROVE  Slices(Append(arrived, a))[n] = Slices(arrived)[n]
<1> DEFINE longer == Append(arrived, a)
           T == {k \in 0 .. Len(arrived) : Slices(longer)[k] = Slices(arrived)[k]}
<1>0. /\ Len(arrived) \in Nat /\ Len(longer) = Len(arrived) + 1
      /\ \A k \in 1 .. Len(arrived) : longer[k] = arrived[k]
  BY LenProperties, AppendProperties
<1> HIDE DEF longer
<1>1. 0 \in T
  <2>1. 0 \in 0 .. Len(arrived) /\ 0 \in 0 .. Len(longer)
    BY <1>0
  <2>2. Len(longer) \in Nat
    BY <1>0
  <2>3. Slices(longer)[0] = <<>> /\ Slices(arrived)[0] = <<>>
    BY <1>0, <2>1, <2>2, SlicesDef
  <2> QED
    BY <2>1, <2>3
<1>2. ASSUME NEW k \in 0 .. Len(arrived) - 1, k \in T PROVE k + 1 \in T
  <2>1. /\ k + 1 \in 0 .. Len(arrived) /\ k + 1 # 0 /\ k + 1 \in 1 .. Len(arrived) /\ (k + 1) - 1 = k
        /\ k + 1 \in 0 .. Len(longer) /\ Len(longer) \in Nat
    BY <1>0
  <2>2. Slices(arrived)[k + 1] = Upserted(Slices(arrived)[k], arrived[k + 1].set)
    BY <1>0, <2>1, SlicesDef
  <2>3. Slices(longer)[k + 1] = Upserted(Slices(longer)[k], longer[k + 1].set)
    BY <1>0, <2>1, SlicesDef
  <2>4. Slices(longer)[k] = Slices(arrived)[k] /\ longer[k + 1] = arrived[k + 1]
    BY <1>0, <1>2, <2>1
  <2> QED
    BY <2>1, <2>2, <2>3, <2>4
<1> HIDE DEF T
<1>3. 0 .. Len(arrived) \subseteq T
  BY <1>0, <1>1, <1>2, InductionUpTo
<1>4. n \in T
  BY <1>3
<1> QED
  BY <1>4 DEF T, longer

-----------------------------------------------------------------------------
(* The inductive invariant *)

\* The backing arrays hold rates and zeroes, and the slice lies within one.
ArraysInv ==
  /\ arrays \in Seq(Seq(InterestSets \cup {Zero}))
  /\ \A a \in DOMAIN arrays : Len(arrays[a]) <= MaxCap
  /\ header \in [array : DOMAIN arrays, len : Nat]
  /\ header.len <= Len(arrays[header.array])
  /\ \A i \in 1 .. header.len : arrays[header.array][i] \in InterestSets

\* The store under way is what the receiver's set asks for: it replaces the first
\* entry of the same rate, or goes behind the entries, in the array of the slice
\* or in a copy of it.
WriteInv ==
  /\ write \in [array : Nat, at : Nat]
  /\ Writing =>
       /\ recv = "upserting"
       /\ write.array \in DOMAIN arrays /\ write.at \in DOMAIN arrays[write.array]
       /\ header.len <= Len(arrays[write.array])
       /\ \A i \in 1 .. header.len : arrays[write.array][i] = arrays[header.array][i]
       /\ \/ MatchesOf(Data, InHand) # {} /\ write.array = header.array
             /\ write.at = FirstMatch(Data, InHand)
          \/ MatchesOf(Data, InHand) = {} /\ write.at = header.len + 1

\* The array starts with the lines of the slice as it was before the last set.
Covers(array) ==
  /\ Len(Before) <= Len(array)
  /\ \A i \in 1 .. Len(Before) : LineOf(array[i]) = LineOf(Before[i])

\* The last set that arrived.
LastSet == arrivals[Len(arrivals)].set

\* What a line of the summary can be made of, and what it is for an entry from
\* before the last set.
Line == [bank : {e.bank : e \in InterestSets \cup {Zero, Garbage}} \cup {Torn},
         type : {e.type : e \in InterestSets \cup {Zero, Garbage}} \cup {Torn}]

Counts(line, e) ==
  \/ line = LineOf(e)
  \/ /\ machine = "arm64"
     /\ line \in [bank : {e.bank, Zero.bank}, type : {e.type, Zero.type}]

\* Whatever main has loaded covers the slice as it was before the last set, and
\* is longer only when that set was a new entry.
ReaderInv ==
  /\ slice \in [array : Nat, len : 0 .. MaxCap]
  /\ summary \in Seq(Line)
  /\ main \in {"spawning", "waiting"} => slice.array = 0
  /\ main \in {"spawning", "waiting", "reading"} => slice.len = 0
  /\ main \in {"summarising", "returned"} =>
       /\ slice.array # 0 /\ slice.len \in {Len(Before), Len(Before) + 1}
       /\ slice.len = Len(Before) + 1 => arrivals # <<>> /\ MatchesOf(Before, LastSet) = {}
  /\ slice.array # 0 => slice.array \in DOMAIN arrays /\ Covers(arrays[slice.array])
  /\ Len(summary) <= slice.len
  /\ \A i \in 1 .. Len(summary) : i <= Len(Before) => Counts(summary[i], Before[i])
  /\ main = "returned" => Len(summary) = slice.len
  /\ machine \in {"amd64", "arm64"}

SystemInv == ArraysInv /\ WriteInv /\ StoreIsSequential /\ ReaderInv /\ FaultOnlyAtAppend

-----------------------------------------------------------------------------
\* The front of an array that holds rates is a sequence of rates.
LEMMA FrontOfArray ==
  ASSUME NEW array, NEW n \in Nat, \A i \in 1 .. n : array[i] \in InterestSets
  PROVE  /\ SubSeq(array, 1, n) \in Seq(InterestSets) /\ Len(SubSeq(array, 1, n)) = n
         /\ DOMAIN SubSeq(array, 1, n) = 1 .. n
         /\ \A i \in 1 .. n : SubSeq(array, 1, n)[i] = array[i]
<1> DEFINE d == SubSeq(array, 1, n)
<1>1. /\ d \in Seq(InterestSets)
      /\ Len(d) = IF 1 <= n THEN n - 1 + 1 ELSE 0
      /\ \A i \in 1 .. n - 1 + 1 : d[i] = array[1 + i - 1]
  BY SubSeqProperties
<1> HIDE DEF d
<1>2. Len(d) = n
  BY <1>1
<1>3. ASSUME NEW i \in 1 .. n PROVE d[i] = array[i]
  <2>1. i \in 1 .. n - 1 + 1 /\ 1 + i - 1 = i
    OBVIOUS
  <2> QED
    BY <1>1, <2>1
<1>4. DOMAIN d = 1 .. n
  BY <1>1, <1>2, LenProperties
<1> QED
  BY <1>1, <1>2, <1>3, <1>4 DEF d

\* The slice is one.
LEMMA DataFacts ==
  ASSUME ArraysInv
  PROVE  /\ Data \in Seq(InterestSets) /\ Len(Data) = header.len /\ DOMAIN Data = 1 .. header.len
         /\ \A i \in 1 .. header.len : Data[i] = arrays[header.array][i]
<1>1. header.len \in Nat /\ \A i \in 1 .. header.len : arrays[header.array][i] \in InterestSets
  BY DEF ArraysInv
<1> QED
  BY <1>1, FrontOfArray DEF Data

\* The set in the receiver's hands is a rate.
LEMMA InHandIsRate ==
  ASSUME TypeOK, recv = "upserting", ReceiverKeepsUp
  PROVE  /\ InHand \in InterestSets
         /\ handled + 1 = Len(arrivals) /\ Len(arrivals) \in Nat /\ handled \in Nat
<1>1. arrivals \in Seq([from : Crawlers, set : InterestSets]) /\ handled \in Nat
  BY DEF TypeOK
<1>2. handled + 1 = Len(arrivals) /\ Len(arrivals) \in Nat
  BY <1>1, LenProperties DEF ReceiverKeepsUp
<1>3. arrivals[handled + 1] \in [from : Crawlers, set : InterestSets]
  <2>1. handled + 1 \in 1 .. Len(arrivals)
    BY <1>1, <1>2
  <2> QED
    BY <1>1, <2>1, ElementOfSeq
<1>4. InHand \in InterestSets
  BY <1>3 DEF InHand
<1> QED
  BY <1>1, <1>2, <1>4

\* Before the last set the slice held the lines it holds now, but perhaps one;
\* while the receiver is in its upsert, it is exactly that slice.
LEMMA BeforeFacts ==
  ASSUME TypeOK, ReceiverKeepsUp, ArraysInv, StoreIsSequential
  PROVE  /\ Before \in Seq(InterestSets)
         /\ recv = "upserting" => Before = Data
         /\ Len(Data) \in {Len(Before), Len(Before) + 1}
         /\ Len(Data) = Len(Before) + 1 => arrivals # <<>> /\ MatchesOf(Before, LastSet) = {}
         /\ \A i \in 1 .. Len(Before) : LineOf(Data[i]) = LineOf(Before[i])
<1>1. arrivals \in Seq([from : Crawlers, set : InterestSets]) /\ handled \in Nat /\ Len(arrivals) \in Nat
  BY LenProperties DEF TypeOK
<1>2. CASE arrivals = <<>>
  <2>1. Len(arrivals) = 0 /\ recv # "upserting" /\ handled = 0
    BY <1>1, <1>2, EmptySeq DEF ReceiverKeepsUp
  <2>2. Before = Data
    BY <1>2, <2>1 DEF Before, StoreIsSequential
  <2>3. Len(Data) # Len(Before) + 1
    BY <2>2, DataFacts, LenProperties
  <2> QED
    BY <2>1, <2>2, <2>3, DataFacts
<1>3. CASE arrivals # <<>>
  <2>0. Len(arrivals) # 0 /\ Len(arrivals) \in 0 .. Len(arrivals) /\ Len(arrivals) - 1 \in 0 .. Len(arrivals)
    BY <1>1, <1>3, EmptySeq
  <2>1. Before = Slices(arrivals)[Len(arrivals) - 1]
    BY <1>3 DEF Before, DataAfter
  <2>2. Before \in Seq(InterestSets)
    BY <1>1, <2>0, <2>1, SlicesTyped
  <2>3. CASE recv = "upserting"
    <3>1. Before = Data
      BY <2>1, <2>3 DEF ReceiverKeepsUp, StoreIsSequential, DataAfter
    <3>2. Len(Data) # Len(Before) + 1
      BY <2>2, <3>1, LenProperties
    <3> QED
      BY <2>2, <2>3, <3>1, <3>2
  <2>4. CASE recv # "upserting"
    <3>1. Data = Slices(arrivals)[Len(arrivals)]
      BY <2>4 DEF ReceiverKeepsUp, StoreIsSequential, DataAfter
    <3>2. Data = Upserted(Before, arrivals[Len(arrivals)].set)
      BY <1>1, <2>0, <2>1, <3>1, SlicesDef
    <3>3. arrivals[Len(arrivals)].set \in InterestSets
      <4>1. Len(arrivals) \in 1 .. Len(arrivals)
        BY <1>1, <2>0
      <4>2. arrivals[Len(arrivals)] \in [from : Crawlers, set : InterestSets]
        BY <1>1, <4>1, ElementOfSeq
      <4> QED
        BY <4>2
    <3> QED
      BY <1>3, <2>2, <2>4, <3>2, <3>3, UpsertedKeepsLines DEF LastSet
  <2> QED
    BY <2>3, <2>4
<1> QED
  BY <1>2, <1>3

-----------------------------------------------------------------------------
\* Initially main has seen nothing and the slice is empty.
LEMMA InitSystemInv == SystemInit => SystemInv
<1> SUFFICES ASSUME SystemInit PROVE SystemInv
  OBVIOUS
<1> DEFINE Slot == InterestSets \cup {Zero}
<1>0. /\ arrays = << <<>> >> /\ <<>> \in Seq(Slot) /\ header.array = 1 /\ header.len = 0
      /\ header \in [array : {1}, len : {0}] /\ Len(<<>>) = 0
  BY EmptySeq DEF SystemInit
<1>1. ArraysInv
  <2>1. arrays \in Seq(Seq(Slot)) /\ DOMAIN arrays = {1} /\ arrays[1] = <<>>
    BY <1>0
  <2> QED
    BY <1>0, <2>1, MaxCapNat DEF ArraysInv
<1>2. WriteInv
  BY DEF SystemInit, WriteInv, Writing, NoWrite
<1>3. StoreIsSequential
  <2>1. arrivals = <<>> /\ handled = 0 /\ Len(arrivals) = 0
    BY DEF SystemInit, Init
  <2>2. Slices(arrivals)[0] = <<>>
    BY <2>1, SlicesDef
  <2>3. Data = <<>>
    BY <1>0, SubSeqEmpty DEF Data
  <2> QED
    BY <2>1, <2>2, <2>3 DEF StoreIsSequential, DataAfter
<1>4. ReaderInv
  <2>1. slice = NoSlice /\ summary = <<>> /\ main = "spawning" /\ Len(summary) = 0
    BY DEF SystemInit, Init
  <2>2. 0 \in 0 .. MaxCap
    BY MaxCapNat
  <2>3. machine \in {"amd64", "arm64"}
    BY DEF SystemInit
  <2> QED
    BY <2>1, <2>2, <2>3, EmptySeq DEF ReaderInv, NoSlice
<1>5. FaultOnlyAtAppend
  BY DEF SystemInit, Init, FaultOnlyAtAppend
<1> QED
  BY <1>1, <1>2, <1>3, <1>4, <1>5 DEF SystemInv

-----------------------------------------------------------------------------
(* The two halves of an upsert *)

\* What the receiver begins leaves every array and the slice as they are.
LEMMA BeginEffect ==
  ASSUME TypeOK, ReceiverKeepsUp, SystemInv, BeginUpsert
  PROVE  /\ ArraysInv' /\ WriteInv' /\ Data' = Data
         /\ header' = header /\ slice' = slice /\ summary' = summary /\ UNCHANGED vars
         /\ DOMAIN arrays \subseteq DOMAIN arrays' /\ \A a \in DOMAIN arrays : arrays'[a] = arrays[a]
<1> DEFINE Slot == InterestSets \cup {Zero}
           h == header.array
           n == header.len
<1>0. /\ arrays \in Seq(Seq(Slot)) /\ h \in DOMAIN arrays /\ DOMAIN arrays = 1 .. Len(arrays) /\ Len(arrays) \in Nat
      /\ n \in Nat /\ n <= Len(arrays[h]) /\ arrays[h] \in Seq(Slot) /\ Len(arrays[h]) \in Nat
      /\ DOMAIN arrays[h] = 1 .. Len(arrays[h])
      /\ Len(arrays[h]) <= MaxCap
  <2>1. arrays \in Seq(Seq(Slot)) /\ h \in DOMAIN arrays /\ n \in Nat /\ n <= Len(arrays[h])
    BY DEF SystemInv, ArraysInv
  <2>2. DOMAIN arrays = 1 .. Len(arrays) /\ Len(arrays) \in Nat
    BY <2>1, LenProperties
  <2>3. arrays[h] \in Seq(Slot)
    BY <2>1, <2>2, ElementOfSeq
  <2> QED
    BY <2>1, <2>2, <2>3, LenProperties DEF SystemInv, ArraysInv
<1>1. Data \in Seq(InterestSets) /\ Len(Data) = n /\ \A i \in 1 .. n : Data[i] = arrays[h][i]
  BY DataFacts DEF SystemInv
<1>2. header' = header /\ slice' = slice /\ summary' = summary /\ UNCHANGED vars
  BY DEF BeginUpsert, readVars
<1>3. InHand' = InHand /\ recv' = "upserting"
  BY <1>2 DEF InHand, BeginUpsert, vars, recvVars
<1>4. ASSUME UNCHANGED arrays PROVE ArraysInv' /\ Data' = Data
  BY <1>2, <1>4 DEF SystemInv, ArraysInv, Data
<1>5. CASE BeginReplace
  <2>1. UNCHANGED arrays /\ write' = [array |-> h, at |-> FirstMatch(Data, InHand)] /\ MatchesOf(Data, InHand) # {}
    BY <1>5 DEF BeginReplace
  <2>2. FirstMatch(Data, InHand) \in 1 .. n
    BY <1>1, <2>1, FirstMatchIsMatch
  <2>3. Data' = Data /\ ArraysInv'
    BY <1>4, <2>1
  <2>4. WriteInv'
    <3> DEFINE f == FirstMatch(Data, InHand)
    <3>1. write'.array = h /\ write'.at = f /\ write' \in [array : Nat, at : Nat]
      <4>1. f \in Nat /\ h \in Nat
        BY <1>0, <2>2
      <4> HIDE DEF f, h
      <4> QED
        BY <2>1, <4>1 DEF f
    <3>2. f = FirstMatch(Data', InHand') /\ MatchesOf(Data', InHand') # {}
      BY <1>3, <2>1, <2>3
    <3>3. f \in DOMAIN arrays[h]
      BY <1>0, <2>2
    <3> HIDE DEF f
    <3> QED
      BY <1>0, <1>2, <1>3, <2>1, <3>1, <3>2, <3>3 DEF WriteInv
  <2> QED
    BY <1>2, <2>1, <2>3, <2>4
<1>6. CASE BeginAppendInPlace
  <2>1. UNCHANGED arrays /\ write' = [array |-> h, at |-> n + 1] /\ MatchesOf(Data, InHand) = {} /\ n < Len(arrays[h])
    BY <1>6 DEF BeginAppendInPlace
  <2>2. Data' = Data /\ ArraysInv'
    BY <1>4, <2>1
  <2>3. WriteInv'
    <3>1. write'.array = h /\ write'.at = n + 1 /\ write' \in [array : Nat, at : Nat]
      BY <1>0, <2>1
    <3>2. MatchesOf(Data', InHand') = {}
      BY <1>3, <2>1, <2>2
    <3>3. n + 1 \in DOMAIN arrays[h]
      BY <1>0, <2>1
    <3> QED
      BY <1>0, <1>2, <1>3, <2>1, <3>1, <3>2, <3>3 DEF WriteInv
  <2> QED
    BY <1>2, <2>1, <2>2, <2>3
<1>7. CASE BeginAppendGrowing
  <2>1. PICK cap \in n + 1 .. MaxCap : arrays' = Append(arrays, Data \o [i \in 1 .. cap - n |-> Zero])
    BY <1>7 DEF BeginAppendGrowing
  <2>2. MatchesOf(Data, InHand) = {} /\ write' = [array |-> Len(arrays) + 1, at |-> n + 1]
    BY <1>7 DEF BeginAppendGrowing
  <2> DEFINE zeroes == [i \in 1 .. cap - n |-> Zero]
             grown  == Data \o zeroes
             last   == Len(arrays) + 1
  <2>3. cap \in Nat /\ n + 1 <= cap /\ cap <= MaxCap /\ cap - n \in Nat
    BY <1>0, <2>1, MaxCapNat
  <2>4. zeroes \in Seq(Slot) /\ Len(zeroes) = cap - n
    BY <2>3
  <2>5. Data \in Seq(Slot)
    BY <1>1, SeqMonotonic
  <2> HIDE DEF zeroes
  <2>6. /\ grown \in Seq(Slot) /\ Len(grown) = cap /\ \A i \in 1 .. n : grown[i] = Data[i]
        /\ DOMAIN grown = 1 .. cap
    <3>0. /\ grown \in Seq(Slot) /\ Len(grown) = Len(Data) + Len(zeroes)
          /\ \A i \in 1 .. Len(Data) + Len(zeroes) : grown[i] = IF i <= Len(Data) THEN Data[i] ELSE zeroes[i - Len(Data)]
      <4> HIDE DEF Slot
      <4> QED
        BY <2>4, <2>5, ConcatProperties
    <3>1. /\ grown \in Seq(Slot) /\ Len(grown) = n + (cap - n)
          /\ \A i \in 1 .. n + (cap - n) : grown[i] = IF i <= n THEN Data[i] ELSE zeroes[i - n]
      <4> HIDE DEF grown
      <4> QED
        BY <1>1, <2>4, <3>0
    <3>2. n + (cap - n) = cap /\ \A i \in 1 .. n : i \in 1 .. cap /\ i <= n
      BY <1>0, <2>3
    <3> HIDE DEF grown
    <3> QED
      BY <3>1, <3>2, LenProperties
  <2>7. arrays' = Append(arrays, grown)
    BY <2>1 DEF zeroes
  <2> HIDE DEF grown
  <2>8. /\ arrays' \in Seq(Seq(Slot)) /\ arrays'[last] = grown
        /\ DOMAIN arrays' = 1 .. last
        /\ \A a \in DOMAIN arrays : a \in DOMAIN arrays' /\ arrays'[a] = arrays[a]
    BY <1>0, <2>6, <2>7, AppendProperties
  <2>9. /\ h \in DOMAIN arrays' /\ arrays'[h] = arrays[h] /\ last \in DOMAIN arrays'
        /\ \A a \in DOMAIN arrays' : a = last \/ a \in DOMAIN arrays
    BY <1>0, <2>8
  <2>10. Data' = Data
    BY <1>2, <2>9 DEF Data
  <2>11. ArraysInv'
    <3>1. \A a \in DOMAIN arrays : Len(arrays[a]) <= MaxCap
      BY DEF SystemInv, ArraysInv
    <3>2. \A a \in DOMAIN arrays' : Len(arrays'[a]) <= MaxCap
      BY <2>3, <2>6, <2>8, <2>9, <3>1
    <3>3. header' \in [array : DOMAIN arrays', len : Nat]
      <4>1. header \in [array : DOMAIN arrays, len : Nat]
        BY DEF SystemInv, ArraysInv
      <4> QED
        BY <1>2, <2>8, <4>1
    <3>4. header'.len <= Len(arrays'[header'.array]) /\ \A i \in 1 .. header'.len : arrays'[header'.array][i] \in InterestSets
      <4>1. \A i \in 1 .. n : arrays[h][i] \in InterestSets
        BY DEF SystemInv, ArraysInv
      <4> QED
        BY <1>0, <1>2, <2>9, <4>1
    <3> QED
      BY <2>8, <3>2, <3>3, <3>4 DEF ArraysInv
  <2>12. WriteInv'
    <3>1. write'.array = last /\ write'.at = n + 1 /\ write' \in [array : Nat, at : Nat]
      BY <1>0, <2>2
    <3>2. n + 1 \in DOMAIN arrays'[last] /\ n <= Len(arrays'[last])
      BY <1>0, <2>3, <2>6, <2>8
    <3>3. \A i \in 1 .. n : arrays'[last][i] = arrays'[h][i]
      BY <1>1, <2>6, <2>8, <2>9
    <3>4. MatchesOf(Data', InHand') = {}
      BY <1>3, <2>2, <2>10
    <3> HIDE DEF last
    <3> QED
      BY <1>2, <1>3, <2>9, <3>1, <3>2, <3>3, <3>4 DEF WriteInv
  <2> QED
    BY <1>2, <2>8, <2>10, <2>11, <2>12
<1> QED
  BY <1>5, <1>6, <1>7 DEF BeginUpsert

\* What the receiver ends is an upsert: the slice is what one step would have
\* made of it, and an array that covers the lines from before still does.
LEMMA EndEffect ==
  ASSUME TypeOK, ReceiverKeepsUp, SystemInv, EndUpsert
  PROVE  /\ ArraysInv' /\ WriteInv' /\ Data' = Upserted(Data, InHand)
         /\ UNCHANGED <<slice, summary, arrivals, main>> /\ handled' = handled + 1
         /\ DOMAIN arrays' = DOMAIN arrays
         /\ \A a \in DOMAIN arrays : Covers(arrays[a]) => Covers(arrays'[a])
<1> DEFINE Slot == InterestSets \cup {Zero}
           h == header.array
           n == header.len
           w == write.array
           k == write.at
           set == InHand
<1>0. /\ arrays \in Seq(Seq(Slot)) /\ h \in DOMAIN arrays /\ w \in DOMAIN arrays /\ DOMAIN arrays = 1 .. Len(arrays)
      /\ n \in Nat /\ n <= Len(arrays[w])
      /\ \A a \in DOMAIN arrays : Len(arrays[a]) <= MaxCap
      /\ k \in DOMAIN arrays[w]
      /\ \A i \in 1 .. n : arrays[w][i] = arrays[h][i]
      /\ recv = "upserting"
  <2>1. write # NoWrite
    BY DEF EndUpsert
  <2> QED
    BY <2>1, LenProperties DEF SystemInv, ArraysInv, WriteInv, Writing
<1>1. /\ Data \in Seq(InterestSets) /\ Len(Data) = n /\ DOMAIN Data = 1 .. n
      /\ \A i \in 1 .. n : Data[i] = arrays[h][i]
  BY DataFacts DEF SystemInv
<1>2. set \in InterestSets
  BY <1>0, InHandIsRate
<1>3. \A a \in DOMAIN arrays : arrays[a] \in Seq(Slot)
  BY <1>0, ElementOfSeq
<1>4. Before = Data
  BY <1>0, BeforeFacts DEF SystemInv
<1>5. /\ arrays' = [arrays EXCEPT ![w][k] = set]
      /\ header' = [array |-> w, len |-> NewLen]
      /\ write' = NoWrite
      /\ UNCHANGED <<slice, summary, arrivals, main>> /\ handled' = handled + 1
  BY DEF EndUpsert, readVars, UpsertReturns, mainVars
<1>6. k \in 1 .. Len(arrays[w]) /\ Len(arrays[w]) \in Nat
  BY <1>0, <1>3, LenProperties
<1>7. /\ arrays'[w] = [arrays[w] EXCEPT ![k] = set]
      /\ DOMAIN arrays' = DOMAIN arrays
      /\ \A a \in DOMAIN arrays : a # w => arrays'[a] = arrays[a]
  BY <1>0, <1>5
<1> DEFINE new == [arrays[w] EXCEPT ![k] = set]
<1>8. /\ new \in Seq(Slot) /\ Len(new) = Len(arrays[w])
      /\ \A i \in 1 .. Len(arrays[w]) : new[i] = IF i = k THEN set ELSE arrays[w][i]
  <2>1. set \in Slot /\ arrays[w] \in Seq(Slot)
    BY <1>0, <1>2, <1>3
  <2> HIDE DEF set, w, k, Slot
  <2> QED
    BY <1>6, <2>1, ExceptSeq
<1>9. arrays' \in Seq(Seq(Slot))
  <2>1. arrays' = [arrays EXCEPT ![w] = new]
    BY <1>0, <1>5
  <2> HIDE DEF new, w
  <2>2. w \in 1 .. Len(arrays) /\ new \in Seq(Slot)
    BY <1>0, <1>8
  <2> QED
    BY <1>0, <2>1, <2>2, ExceptSeq
\* The set replaces an entry of the same bank and type, or goes behind them all.
<1>10. \/ k \in 1 .. n /\ NewLen = n /\ AlreadyExists(Data[k], set)
          /\ Upserted(Data, set) = [Data EXCEPT ![k] = set]
       \/ k = n + 1 /\ NewLen = n + 1 /\ Upserted(Data, set) = Append(Data, set)
  <2>1. CASE MatchesOf(Data, set) # {} /\ k = FirstMatch(Data, set)
    <3>1. k \in 1 .. n /\ AlreadyExists(Data[k], set)
      BY <1>1, <2>1, FirstMatchIsMatch
    <3>2. NewLen = n
      BY <1>0, <3>1 DEF NewLen
    <3> QED
      BY <2>1, <3>1, <3>2 DEF Upserted
  <2>2. CASE MatchesOf(Data, set) = {} /\ k = n + 1
    <3>1. NewLen = n + 1
      BY <1>0, <2>2 DEF NewLen
    <3> QED
      BY <2>2, <3>1 DEF Upserted
  <2>3. write # NoWrite
    BY DEF EndUpsert
  <2> QED
    BY <2>1, <2>2, <2>3 DEF SystemInv, WriteInv, Writing
<1>11. NewLen \in Nat /\ NewLen <= Len(arrays[w]) /\ n <= NewLen
  BY <1>0, <1>6, <1>10
<1>12. \A i \in 1 .. NewLen : new[i] = Upserted(Data, set)[i]
  <2> SUFFICES ASSUME NEW i \in 1 .. NewLen PROVE new[i] = Upserted(Data, set)[i]
    OBVIOUS
  <2>1. i \in 1 .. Len(arrays[w]) /\ (i # k => i \in 1 .. n)
    BY <1>0, <1>6, <1>10, <1>11
  <2>2. new[i] = IF i = k THEN set ELSE Data[i]
    BY <1>0, <1>1, <1>8, <2>1
  <2>3. CASE NewLen = n /\ Upserted(Data, set) = [Data EXCEPT ![k] = set]
    BY <1>1, <2>2, <2>3
  <2>4. CASE k = n + 1 /\ NewLen = n + 1 /\ Upserted(Data, set) = Append(Data, set)
    <3>1. Upserted(Data, set)[i] = IF i = n + 1 THEN set ELSE Data[i]
      <4> HIDE DEF set, n
      <4> QED
        BY <1>1, <1>2, <2>1, <2>4, AppendProperties
    <3> QED
      BY <2>2, <2>4, <3>1
  <2> QED
    BY <1>10, <2>3, <2>4
<1>13. Upserted(Data, set) \in Seq(InterestSets) /\ Len(Upserted(Data, set)) = NewLen
  <2>1. Upserted(Data, set) \in Seq(InterestSets)
    BY <1>1, <1>2, UpsertedKeepsLines
  <2>2. CASE k \in 1 .. n /\ NewLen = n /\ Upserted(Data, set) = [Data EXCEPT ![k] = set]
    <3> HIDE DEF k, n, set
    <3> QED
      BY <1>1, <1>2, <2>1, <2>2, ExceptSeq
  <2>3. CASE NewLen = n + 1 /\ Upserted(Data, set) = Append(Data, set)
    <3> HIDE DEF k, n, set
    <3> QED
      BY <1>1, <1>2, <2>1, <2>3, AppendProperties
  <2> QED
    BY <1>10, <2>1, <2>2, <2>3
<1>14. ArraysInv'
  <2>1. \A a \in DOMAIN arrays' : Len(arrays'[a]) <= MaxCap
    BY <1>0, <1>7, <1>8
  <2>2. header' \in [array : DOMAIN arrays', len : Nat] /\ header'.array = w /\ header'.len = NewLen
    <3> HIDE DEF w
    <3> QED
      BY <1>0, <1>5, <1>7, <1>11
  <2>3. \A i \in 1 .. NewLen : new[i] \in InterestSets
    BY <1>12, <1>13, ElementOfSeq
  <2> QED
    BY <1>7, <1>8, <1>9, <1>11, <2>1, <2>2, <2>3 DEF ArraysInv
<1>15. Data' = Upserted(Data, set)
  <2>1. Data' = SubSeq(arrays'[w], 1, NewLen) /\ \A i \in 1 .. NewLen : arrays'[w][i] \in InterestSets
    <3>1. \A i \in 1 .. NewLen : Upserted(Data, set)[i] \in InterestSets
      BY <1>13, ElementOfSeq
    <3> QED
      BY <1>5, <1>7, <1>12, <3>1 DEF Data
  <2>2. /\ Data' \in Seq(InterestSets) /\ Len(Data') = NewLen
        /\ \A i \in 1 .. NewLen : Data'[i] = arrays'[w][i]
    BY <1>11, <2>1, FrontOfArray
  <2>3. \A i \in 1 .. NewLen : Data'[i] = Upserted(Data, set)[i]
    BY <1>7, <1>12, <2>2
  <2>4. Len(Data') = Len(Upserted(Data, set))
    BY <1>13, <2>2
  <2> HIDE DEF set
  <2> QED
    BY <1>13, <2>2, <2>3, <2>4, SeqEqual
<1>16. WriteInv'
  BY <1>5 DEF WriteInv, Writing, NoWrite
<1>17. ASSUME NEW a \in DOMAIN arrays, Covers(arrays[a]) PROVE Covers(arrays'[a])
  <2>1. CASE a # w
    BY <1>7, <1>17, <2>1
  <2>2. CASE a = w
    <3>1. Len(Before) <= Len(arrays'[w])
      BY <1>7, <1>8, <1>17, <2>2 DEF Covers
    <3>2. ASSUME NEW i \in 1 .. Len(Before) PROVE LineOf(arrays'[w][i]) = LineOf(Before[i])
      <4>1. i \in 1 .. n /\ i \in 1 .. Len(arrays[w])
        BY <1>0, <1>1, <1>4, <1>6
      <4>2. LineOf(arrays[w][i]) = LineOf(Before[i])
        BY <1>17, <2>2 DEF Covers
      <4>3. CASE i # k
        BY <1>7, <1>8, <4>1, <4>2, <4>3
      <4>4. CASE i = k
        <5>1. arrays'[w][i] = set
          BY <1>7, <1>8, <4>1, <4>4
        <5>2. AlreadyExists(Data[i], set)
          BY <1>0, <1>10, <4>1, <4>4
        <5> QED
          BY <1>4, <5>1, <5>2 DEF LineOf, AlreadyExists
      <4> QED
        BY <4>3, <4>4
    <3> QED
      BY <2>2, <3>1, <3>2 DEF Covers
  <2> QED
    BY <2>1, <2>2
<1> QED
  BY <1>5, <1>7, <1>14, <1>15, <1>16, <1>17

-----------------------------------------------------------------------------
(* The invariant is inductive *)

\* While a store is under way the receiver takes nothing and does not return, so
\* a step that leaves the store's variables alone keeps what is said of them.
LEMMA OtherSteps ==
  ASSUME IInv, SystemInv, UNCHANGED storeVars,
         \/ ServiceStep
         \/ UNCHANGED <<recv, arrivals, handled>>
  PROVE  ArraysInv' /\ WriteInv' /\ StoreIsSequential' /\ DOMAIN arrays' = DOMAIN arrays
<1>0. arrays' = arrays /\ header' = header /\ write' = write
  BY DEF storeVars
<1> USE DEF IInv
<1>1. ArraysInv' /\ Data' = Data
  BY <1>0 DEF SystemInv, ArraysInv, Data
<1>2. Writing => recv' = recv /\ arrivals' = arrivals /\ handled' = handled
  <2> SUFFICES ASSUME Writing PROVE recv' = recv /\ arrivals' = arrivals /\ handled' = handled
    OBVIOUS
  <2>1. recv = "upserting" /\ main # "spawning"
    BY DEF SystemInv, WriteInv, SpawnOrder
  <2> QED
    BY <2>1 DEF ServiceStep, SpawnCrawler, CrawlerStep, OfferSet, Return, Panic, Rendezvous, SpawnReceiver,
       WaitReturns, RangeEnds, Exit, Crash, Terminated, recvVars, vars
<1>3. WriteInv'
  <2>1. CASE ~Writing
    BY <1>0, <2>1 DEF SystemInv, WriteInv, Writing
  <2>2. CASE Writing
    <3>1. InHand' = InHand
      BY <1>2, <2>2 DEF InHand
    <3> QED
      BY <1>0, <1>1, <1>2, <2>2, <3>1 DEF SystemInv, WriteInv, Writing
  <2> QED
    BY <2>1, <2>2
<1>4. StoreIsSequential'
  <2>0. /\ arrivals \in Seq([from : Crawlers, set : InterestSets]) /\ handled \in 0 .. Len(arrivals)
        /\ Data = Slices(arrivals)[handled]
    <3>1. arrivals \in Seq([from : Crawlers, set : InterestSets]) /\ handled \in Nat /\ Len(arrivals) \in Nat
      BY LenProperties DEF TypeOK
    <3> QED
      BY <3>1 DEF ReceiverKeepsUp, SystemInv, StoreIsSequential, DataAfter
  <2>1. CASE arrivals' = arrivals /\ handled' = handled
    BY <1>1, <2>0, <2>1 DEF StoreIsSequential, DataAfter
  <2>2. CASE \E c \in Crawlers : Rendezvous(c)
    <3>1. PICK a : arrivals' = Append(arrivals, a) /\ a \in [from : Crawlers, set : InterestSets]
      <4>1. PICK c \in Crawlers : Rendezvous(c)
        BY <2>2
      <4>2. sent[c] \in Seq(InterestSets) /\ sent[c] # <<>>
        BY <4>1 DEF Rendezvous, BlockedOnASet, TypeOK
      <4>3. sent[c][Len(sent[c])] \in InterestSets
        BY <4>2, EmptySeq, LenProperties, ElementOfSeq
      <4> QED
        BY <4>1, <4>3 DEF Rendezvous
    <3>2. handled' = handled
      BY <2>2 DEF Rendezvous
    <3>3. Slices(arrivals')[handled] = Slices(arrivals)[handled]
      BY <2>0, <3>1, SlicesStable
    <3> QED
      BY <1>1, <2>0, <3>2, <3>3 DEF StoreIsSequential, DataAfter
  <2>3. ServiceStep => (\E c \in Crawlers : Rendezvous(c)) \/ (arrivals' = arrivals /\ handled' = handled)
    BY DEF ServiceStep, SpawnCrawler, CrawlerStep, OfferSet, Return, Panic, SpawnReceiver,
       WaitReturns, RangeEnds, Exit, Crash, Terminated, recvVars, vars
  <2> QED
    BY <2>1, <2>2, <2>3
<1> QED
  BY <1>0, <1>1, <1>3, <1>4

\* Main's half of the invariant, while nothing arrives and main loads nothing.
LEMMA ReaderStays ==
  ASSUME ReaderInv, UNCHANGED <<arrivals, slice, summary, machine>>,
         \/ main' = main
         \/ main = "spawning" /\ main' = "waiting"
         \/ main = "waiting" /\ main' = "reading"
         \/ main = "summarising" /\ main' = "returned" /\ Len(summary) = slice.len,
         DOMAIN arrays \subseteq DOMAIN arrays',
         \A a \in DOMAIN arrays : Covers(arrays[a]) => Covers(arrays'[a])
  PROVE  ReaderInv'
<1>0. Before' = Before /\ LastSet' = LastSet
  BY DEF Before, DataAfter, LastSet
<1>1. slice.array # 0 => slice'.array \in DOMAIN arrays' /\ Covers(arrays[slice.array])
  BY DEF ReaderInv
<1>2. slice.array # 0 => Len(Before') <= Len(arrays'[slice.array])
                        /\ \A i \in 1 .. Len(Before') : LineOf(arrays'[slice.array][i]) = LineOf(Before'[i])
  BY <1>0, <1>1 DEF ReaderInv, Covers
<1>3. slice'.array # 0 => slice'.array \in DOMAIN arrays' /\ Covers(arrays[slice.array])'
  BY <1>1, <1>2 DEF Covers
<1> QED
  BY <1>0, <1>3 DEF ReaderInv, Counts

\* What arrives, arrives while main has not looked yet.
LEMMA ServiceReader ==
  ASSUME IInv, SystemInv, ServiceStep, machine' = machine
  PROVE  ReaderInv'
<1> USE DEF IInv
<1>0. UNCHANGED <<arrays, header, write, slice, summary>>
  BY DEF ServiceStep, storeVars, readVars
<1>1. CASE \E c \in Crawlers : Rendezvous(c)
  <2>1. main' = main /\ main \in {"spawning", "waiting"}
    BY <1>1 DEF Rendezvous, QuietAfterWait, mainVars, TypeOK
  <2>2. slice.array = 0 /\ slice.len = 0 /\ Len(summary) <= 0
    BY <2>1 DEF SystemInv, ReaderInv
  <2>3. Len(summary) \in Nat
    BY LenProperties DEF SystemInv, ReaderInv
  <2>4. Len(summary) = 0
    BY <2>2, <2>3
  <2> QED
    BY <1>0, <2>1, <2>2, <2>4 DEF SystemInv, ReaderInv
<1>2. CASE arrivals' = arrivals
  <2>2. \/ main' = main
        \/ main = "spawning" /\ main' = "waiting"
        \/ main = "waiting" /\ main' = "reading"
    BY DEF ServiceStep, SpawnCrawler, CrawlerStep, OfferSet, Return, Panic, Rendezvous, SpawnReceiver,
       WaitReturns, RangeEnds, Exit, Crash, Terminated, mainVars, vars
  <2> QED
    BY <1>0, <1>2, <2>2, ReaderStays DEF SystemInv
<1>3. (\E c \in Crawlers : Rendezvous(c)) \/ arrivals' = arrivals
  BY DEF ServiceStep, SpawnCrawler, CrawlerStep, OfferSet, Return, Panic, SpawnReceiver,
     WaitReturns, RangeEnds, Exit, Crash, Terminated, recvVars, vars
<1> QED
  BY <1>1, <1>2, <1>3

\* Loading the pointer, the old or the new one, gives an array that covers.
LEMMA ReadPointerReader ==
  ASSUME IInv, SystemInv, ReadPointer, machine' = machine
  PROVE  ReaderInv'
<1> USE DEF IInv
<1>1. PICK a \in {header.array} \cup (IF Writing THEN {write.array} ELSE {}) : slice' = [slice EXCEPT !.array = a]
  BY DEF ReadPointer
<1>2. UNCHANGED <<vars, arrays, header, write, summary>> /\ main = "reading"
  BY DEF ReadPointer, storeVars
<1>3. /\ Before \in Seq(InterestSets) /\ (recv = "upserting" => Before = Data)
      /\ Len(Data) \in {Len(Before), Len(Before) + 1}
      /\ \A i \in 1 .. Len(Before) : LineOf(Data[i]) = LineOf(Before[i])
  BY BeforeFacts DEF SystemInv
<1>4. Len(Data) = header.len /\ \A i \in 1 .. header.len : Data[i] = arrays[header.array][i]
  BY DataFacts DEF SystemInv
<1>5. Len(Before) \in Nat /\ header.len \in Nat /\ header.len <= Len(arrays[header.array])
  BY <1>3, LenProperties DEF SystemInv, ArraysInv
<1>6. a \in DOMAIN arrays /\ a \in Nat /\ Covers(arrays[a])
  <2>0. DOMAIN arrays \subseteq Nat /\ \A b \in DOMAIN arrays : Len(arrays[b]) \in Nat
    <3>1. arrays \in Seq(Seq(InterestSets \cup {Zero}))
      BY DEF SystemInv, ArraysInv
    <3> QED
      BY <3>1, LenProperties
  <2>1. CASE a = header.array
    <3>1. a \in DOMAIN arrays
      BY <2>1 DEF SystemInv, ArraysInv
    <3> QED
      BY <1>3, <1>4, <1>5, <2>0, <2>1, <3>1 DEF Covers
  <2>2. CASE Writing /\ a = write.array
    <3>1. /\ a \in DOMAIN arrays /\ header.len <= Len(arrays[a]) /\ recv = "upserting"
          /\ \A i \in 1 .. header.len : arrays[a][i] = arrays[header.array][i]
      BY <2>2 DEF SystemInv, WriteInv
    <3> QED
      BY <1>3, <1>4, <1>5, <2>0, <3>1 DEF Covers
  <2> QED
    BY <1>1, <2>1, <2>2
<1>7. /\ slice' \in [array : Nat, len : 0 .. MaxCap] /\ slice'.array = a /\ slice'.len = slice.len
  BY <1>1, <1>6 DEF SystemInv, ReaderInv
<1>8. Before' = Before /\ main' = main
  BY <1>2 DEF Before, DataAfter, vars, recvVars, mainVars
<1>9. (slice.array # 0 => slice.array \in DOMAIN arrays /\ Covers(arrays[slice.array]))'
  BY <1>2, <1>6, <1>7, <1>8 DEF Covers
<1> QED
  BY <1>2, <1>7, <1>8, <1>9 DEF SystemInv, ReaderInv, Counts, vars, recvVars, LastSet

\* Loading the length, the old or the new one, gives one of two lengths; the
\* longer one, only after a new entry.
LEMMA ReadLengthReader ==
  ASSUME IInv, SystemInv, ReadLength, machine' = machine
  PROVE  ReaderInv'
<1> USE DEF IInv
<1>1. PICK n \in {header.len} \cup (IF Writing THEN {NewLen} ELSE {}) : slice' = [slice EXCEPT !.len = n]
  BY DEF ReadLength
<1>2. /\ UNCHANGED <<arrays, header, write, summary, arrivals, handled>>
      /\ main = "reading" /\ main' = "summarising" /\ slice.array # 0
  BY DEF ReadLength, GetInterestSets, storeVars, recvVars
<1>3. /\ Before \in Seq(InterestSets) /\ (recv = "upserting" => Before = Data)
      /\ Len(Data) \in {Len(Before), Len(Before) + 1} /\ Len(Data) = header.len
      /\ Len(Data) = Len(Before) + 1 => arrivals # <<>> /\ MatchesOf(Before, LastSet) = {}
  BY BeforeFacts, DataFacts DEF SystemInv
<1>4. Len(Before) \in Nat /\ header.len \in Nat
  BY <1>3, LenProperties DEF SystemInv, ArraysInv
<1>5. \A b \in DOMAIN arrays : Len(arrays[b]) \in Nat /\ Len(arrays[b]) <= MaxCap /\ DOMAIN arrays[b] = 1 .. Len(arrays[b])
  <2>1. arrays \in Seq(Seq(InterestSets \cup {Zero})) /\ \A b \in DOMAIN arrays : Len(arrays[b]) <= MaxCap
    BY DEF SystemInv, ArraysInv
  <2> QED
    BY <2>1, LenProperties
<1>6. /\ n \in {Len(Before), Len(Before) + 1} /\ n \in 0 .. MaxCap
      /\ n = Len(Before) + 1 => arrivals # <<>> /\ MatchesOf(Before, LastSet) = {}
  <2>1. CASE n = header.len
    BY <1>3, <1>4, <1>5, <2>1, MaxCapNat DEF SystemInv, ArraysInv
  <2>2. CASE Writing /\ n = NewLen /\ n # header.len
    <3>1. /\ write.array \in DOMAIN arrays /\ write.at \in DOMAIN arrays[write.array]
          /\ write.at > header.len /\ n = write.at /\ recv = "upserting"
      BY <2>2 DEF SystemInv, WriteInv, NewLen
    <3>2. write.at = header.len + 1 /\ MatchesOf(Data, InHand) = {}
      <4>1. CASE MatchesOf(Data, InHand) # {} /\ write.at = FirstMatch(Data, InHand)
        <5>1. write.at \in 1 .. header.len
          BY <4>1, FirstMatchIsMatch, DataFacts DEF SystemInv
        <5> QED
          BY <1>4, <3>1, <5>1
      <4> QED
        BY <2>2, <4>1 DEF SystemInv, WriteInv
    <3>3. arrivals # <<>> /\ InHand = LastSet
      <4>1. handled + 1 = Len(arrivals) /\ handled \in Nat
        BY <3>1, InHandIsRate
      <4> QED
        BY <4>1, EmptySeq DEF InHand, LastSet
    <3> QED
      BY <1>3, <1>4, <1>5, <3>1, <3>2, <3>3, MaxCapNat
  <2> QED
    BY <1>1, <2>1, <2>2
<1>7. /\ slice' \in [array : Nat, len : 0 .. MaxCap] /\ slice'.array = slice.array /\ slice'.len = n
  BY <1>1, <1>6 DEF SystemInv, ReaderInv
<1>8. Before' = Before /\ LastSet' = LastSet
  BY <1>2 DEF Before, DataAfter, LastSet
<1>9. (slice.array # 0 => slice.array \in DOMAIN arrays /\ Covers(arrays[slice.array]))'
  <2>1. slice.array \in DOMAIN arrays /\ Covers(arrays[slice.array])
    BY <1>2 DEF SystemInv, ReaderInv
  <2> QED
    BY <1>2, <1>7, <1>8, <2>1 DEF Covers
<1>10. (Len(summary) <= slice.len)'
  <2>1. Len(summary) \in Nat /\ Len(summary) <= 0
    BY <1>2, LenProperties DEF SystemInv, ReaderInv
  <2> QED
    BY <1>2, <1>6, <1>7, <2>1
<1> QED
  BY <1>2, <1>6, <1>7, <1>8, <1>9, <1>10 DEF SystemInv, ReaderInv, Counts

\* No bank and no type of a slot is half a string, or what lies past an array.
LEMMA WholeStrings ==
  ASSUME NEW e \in InterestSets \cup {Zero}
  PROVE  e.bank # Torn /\ e.type # Torn /\ e.type # "garbage"
<1>1. CASE e \in InterestSets
  <2>1. e.bank # Torn /\ e.type \in Types
    BY <1>1, SetsAreRates, Zenon DEF IsInterestSet, Torn
  <2>2. \A t \in Types : t # "torn" /\ t # "garbage"
    BY DEF Types
  <2> QED
    BY <2>1, <2>2, Zenon DEF Torn
<1>2. CASE e = Zero
  BY <1>2 DEF Zero, Torn
<1> QED
  BY <1>1, <1>2

\* What a load yields for an entry from before the last set, and when it faults.
LEMMA LoadsFacts ==
  ASSUME IInv, SystemInv, Ranging, NEW line \in Loaded
  PROVE  /\ line \in Line
         /\ Torn \notin {line.bank, line.type} /\ Len(summary) + 1 <= Len(Before)
              => Counts(line, Before[Len(summary) + 1])
         /\ line = Garbage \/ Torn \in {line.bank, line.type}
              => /\ arrivals # <<>> /\ MatchesOf(Before, LastSet) = {}
                 /\ machine = "amd64" => Len(summary) = Len(Before)
<1> USE DEF IInv
<1> DEFINE i == Len(summary) + 1
           a == slice.array
           Slot == InterestSets \cup {Zero}
<1>2. main = "summarising" /\ Len(summary) < slice.len /\ line \in Loads(a, i)
  BY DEF Ranging, Loaded
<1>3. /\ Before \in Seq(InterestSets) /\ (recv = "upserting" => Before = Data)
      /\ Len(Before) \in Nat /\ Len(Data) = header.len /\ Data \in Seq(InterestSets)
      /\ \A j \in 1 .. Len(Before) : Before[j] \in InterestSets
  BY BeforeFacts, DataFacts, LenProperties, ElementOfSeq DEF SystemInv
<1>4. /\ a \in DOMAIN arrays /\ arrays[a] \in Seq(Slot) /\ Len(arrays[a]) \in Nat
      /\ Covers(arrays[a]) /\ Len(summary) \in Nat /\ i \in Nat \ {0}
      /\ header.len \in Nat
  <2>1. arrays \in Seq(Seq(Slot)) /\ a \in DOMAIN arrays /\ summary \in Seq(Line) /\ Covers(arrays[a])
    BY <1>2 DEF SystemInv, ArraysInv, ReaderInv
  <2>2. DOMAIN arrays = 1 .. Len(arrays) /\ Len(summary) \in Nat
    BY <2>1, LenProperties
  <2>3. arrays[a] \in Seq(Slot)
    BY <2>1, <2>2, ElementOfSeq
  <2> QED
    BY <2>1, <2>2, <2>3, LenProperties DEF SystemInv, ArraysInv
<1>5. /\ slice.len \in {Len(Before), Len(Before) + 1}
      /\ slice.len = Len(Before) + 1 => arrivals # <<>> /\ MatchesOf(Before, LastSet) = {}
      /\ machine \in {"amd64", "arm64"}
  BY <1>2 DEF SystemInv, ReaderInv
<1>6. i <= Len(Before) => i \in 1 .. Len(Before) /\ i <= Len(arrays[a]) /\ LineOf(arrays[a][i]) = LineOf(Before[i])
  BY <1>3, <1>4 DEF Covers
\* No bank and no type is half a string.
<1>7. \A e \in Slot : /\ e.bank # Torn /\ e.type # Torn /\ LineOf(e) \in Line /\ LineOf(e) # Garbage
                      /\ LineOf(e).bank = e.bank /\ LineOf(e).type = e.type
  <2> SUFFICES ASSUME NEW e \in Slot
               PROVE  /\ e.bank # Torn /\ e.type # Torn /\ LineOf(e) \in Line /\ LineOf(e) # Garbage
                      /\ LineOf(e).bank = e.bank /\ LineOf(e).type = e.type
    OBVIOUS
  <2>1. e.bank # Torn /\ e.type # Torn /\ e.type # "garbage"
    BY WholeStrings
  <2>2. LineOf(e).bank = e.bank /\ LineOf(e).type = e.type
    BY DEF LineOf
  <2>3. LineOf(e) \in Line
    BY DEF LineOf, Line
  <2>4. LineOf(e) # Garbage
    BY <2>1, <2>2 DEF Garbage
  <2> QED
    BY <2>1, <2>2, <2>3, <2>4
<1>8. \A e \in Slot, f \in Slot : \A l \in Between(e, f) :
        /\ l \in Line /\ l # Garbage
        /\ Torn \in {l.bank, l.type} => e.bank # f.bank \/ e.type # f.type
        /\ Torn \notin {l.bank, l.type} => l \in [bank : {f.bank, e.bank}, type : {f.type, e.type}]
  <2> SUFFICES ASSUME NEW e \in Slot, NEW f \in Slot, NEW l \in Between(e, f)
               PROVE  /\ l \in Line /\ l # Garbage
                      /\ Torn \in {l.bank, l.type} => e.bank # f.bank \/ e.type # f.type
                      /\ Torn \notin {l.bank, l.type} => l \in [bank : {f.bank, e.bank}, type : {f.type, e.type}]
    OBVIOUS
  <2>1. l \in [bank : {e.bank, f.bank, Torn}, type : {e.type, f.type, Torn}]
    BY DEF Between, Words
  <2>2. l.type # "garbage" /\ l.bank \in {e.bank, f.bank, Torn} /\ l.type \in {e.type, f.type, Torn}
    <3>1. e.type # "garbage" /\ f.type # "garbage" /\ Torn # "garbage"
      BY WholeStrings DEF Torn
    <3> QED
      BY <2>1, <3>1
  <2>3. l \in Line /\ l # Garbage
    BY <2>1, <2>2 DEF Line, Garbage
  <2>4. Torn \in {l.bank, l.type} => e.bank # f.bank \/ e.type # f.type
    BY <1>7 DEF Between, Words
  <2> QED
    BY <2>1, <2>3, <2>4
<1>9. CASE i > Len(arrays[a])
  <2>1. line = Garbage
    BY <1>2, <1>9 DEF Loads
  <2>2. ~(i <= Len(Before)) /\ Len(summary) = Len(Before) /\ slice.len = Len(Before) + 1
    BY <1>2, <1>3, <1>4, <1>5, <1>6, <1>9
  <2>3. Garbage \in Line
    BY DEF Line, Garbage
  <2> QED
    BY <1>5, <2>1, <2>2, <2>3
<1>10. CASE i <= Len(arrays[a]) /\ write = [array |-> a, at |-> i]
  <2>1. Writing /\ recv = "upserting" /\ write.array = a /\ write.at = i
    BY <1>4, <1>10 DEF SystemInv, WriteInv, Writing, NoWrite
  <2>2. /\ InHand \in InterestSets /\ arrivals # <<>> /\ InHand = LastSet
    <3>1. InHand \in InterestSets /\ handled + 1 = Len(arrivals) /\ handled \in Nat
      BY <2>1, InHandIsRate
    <3> QED
      BY <3>1, EmptySeq DEF InHand, LastSet
  <2>3. line \in Between(arrays[a][i], InHand) /\ arrays[a][i] \in Slot
    <3>1. i \in 1 .. Len(arrays[a])
      BY <1>4, <1>10
    <3>2. arrays[a][i] \in Slot
      BY <1>4, <3>1, ElementOfSeq
    <3> QED
      BY <1>2, <1>4, <1>10, <3>2 DEF Loads
  <2>4. CASE MatchesOf(Data, InHand) # {} /\ i = FirstMatch(Data, InHand)
    <3>1. i \in 1 .. header.len /\ AlreadyExists(Data[i], InHand)
      BY <1>3, <2>4, FirstMatchIsMatch
    <3>2. Before = Data /\ i \in 1 .. Len(Before)
      BY <1>3, <2>1, <3>1
    <3>3. LineOf(arrays[a][i]) = LineOf(InHand) /\ LineOf(InHand) = LineOf(Before[i])
      BY <1>6, <3>1, <3>2 DEF AlreadyExists, LineOf
    <3>4. arrays[a][i].bank = InHand.bank /\ arrays[a][i].type = InHand.type
      BY <1>7, <2>2, <2>3, <3>3
    <3>5. line = LineOf(Before[i]) /\ line \in Line /\ line # Garbage /\ Torn \notin {line.bank, line.type}
      <4>1. line \in Line /\ line # Garbage /\ Torn \notin {line.bank, line.type}
        BY <1>8, <2>2, <2>3, <3>4
      <4>2. line \in [bank : {InHand.bank}, type : {InHand.type}]
        BY <1>8, <2>2, <2>3, <3>4, <4>1
      <4>3. line = LineOf(InHand)
        BY <4>2 DEF LineOf
      <4> QED
        BY <3>3, <4>1, <4>3
    <3> QED
      BY <3>5 DEF Counts
  <2>5. CASE MatchesOf(Data, InHand) = {} /\ i = header.len + 1
    <3>1. Before = Data /\ ~(i <= Len(Before)) /\ Len(summary) = Len(Before)
      BY <1>3, <1>4, <2>1, <2>5
    <3> QED
      BY <1>8, <2>2, <2>3, <2>5, <3>1
  <2> QED
    BY <2>1, <2>4, <2>5 DEF SystemInv, WriteInv
<1>11. CASE i <= Len(arrays[a]) /\ write # [array |-> a, at |-> i] /\ Copying(a)
  <2>1. line \in Between(Zero, arrays[a][i]) /\ arrays[a][i] \in Slot
    <3>1. i \in 1 .. Len(arrays[a])
      BY <1>4, <1>11
    <3>2. arrays[a][i] \in Slot
      BY <1>4, <3>1, ElementOfSeq
    <3> QED
      BY <1>2, <1>4, <1>11, <3>2 DEF Loads
  <2>2. machine = "arm64" /\ Writing /\ write.array # header.array
    BY <1>11 DEF Copying
  <2>3. recv = "upserting" /\ MatchesOf(Data, InHand) = {}
    BY <2>2 DEF SystemInv, WriteInv
  <2>4. arrivals # <<>> /\ InHand = LastSet /\ Before = Data
    <3>1. handled + 1 = Len(arrivals) /\ handled \in Nat
      BY <2>3, InHandIsRate
    <3> QED
      BY <1>3, <2>3, <3>1, EmptySeq DEF InHand, LastSet
  <2>5. line \in Line
    BY <1>8, <2>1
  <2>6. Torn \notin {line.bank, line.type} /\ i <= Len(Before) => Counts(line, Before[i])
    <3> SUFFICES ASSUME Torn \notin {line.bank, line.type}, i <= Len(Before) PROVE Counts(line, Before[i])
      OBVIOUS
    <3>1. line \in [bank : {arrays[a][i].bank, Zero.bank}, type : {arrays[a][i].type, Zero.type}]
      BY <1>8, <2>1
    <3>2. arrays[a][i].bank = Before[i].bank /\ arrays[a][i].type = Before[i].type
      BY <1>3, <1>6, <1>7, <2>1
    <3> QED
      BY <2>2, <3>1, <3>2 DEF Counts
  <2> QED
    BY <2>2, <2>3, <2>4, <2>5, <2>6
<1>12. CASE i <= Len(arrays[a]) /\ write # [array |-> a, at |-> i] /\ ~Copying(a)
  <2>1. line = LineOf(arrays[a][i]) /\ arrays[a][i] \in Slot
    <3>1. i \in 1 .. Len(arrays[a])
      BY <1>4, <1>12
    <3>2. arrays[a][i] \in Slot
      BY <1>4, <3>1, ElementOfSeq
    <3> QED
      BY <1>2, <1>4, <1>12, <3>2 DEF Loads
  <2>2. line \in Line /\ line # Garbage /\ Torn \notin {line.bank, line.type}
    BY <1>7, <2>1
  <2> QED
    BY <1>6, <2>1, <2>2 DEF Counts
<1> QED
  BY <1>4, <1>9, <1>10, <1>11, <1>12

\* So each line that main adds counts its entry.
LEMMA SummariseReader ==
  ASSUME IInv, SystemInv, SummariseEntry, machine' = machine
  PROVE  ReaderInv'
<1> DEFINE i == Len(summary) + 1
<1>1. PICK line \in Loaded : Torn \notin {line.bank, line.type} /\ summary' = Append(summary, line)
  BY DEF SummariseEntry
<1>2. UNCHANGED <<vars, arrays, header, write, slice>> /\ Ranging
  BY DEF SummariseEntry, storeVars
<1>3. line \in Line /\ (i <= Len(Before) => Counts(line, Before[i]))
  BY <1>1, <1>2, LoadsFacts
<1>4. summary \in Seq(Line) /\ Len(summary) \in Nat /\ Len(summary) < slice.len /\ slice.len \in Nat
  BY <1>2, LenProperties DEF SystemInv, ReaderInv, Ranging
<1>5. /\ summary' \in Seq(Line) /\ Len(summary') = i /\ summary'[i] = line
      /\ \A j \in 1 .. Len(summary) : summary'[j] = summary[j]
  BY <1>1, <1>3, <1>4, AppendProperties
<1>6. Before' = Before /\ LastSet' = LastSet /\ main' = main /\ arrivals' = arrivals
  BY <1>2 DEF Before, DataAfter, LastSet, vars, recvVars, mainVars
<1>7. (\A j \in 1 .. Len(summary) : j <= Len(Before) => Counts(summary[j], Before[j]))'
  <2>1. \A j \in 1 .. Len(summary) : j <= Len(Before) => Counts(summary[j], Before[j])
    BY DEF SystemInv, ReaderInv
  <2>2. \A j \in 1 .. i : j \in 1 .. Len(summary) \/ j = i
    BY <1>4
  <2>3. \A j \in 1 .. i : j <= Len(Before) => Counts(summary'[j], Before[j])
    <3> HIDE DEF i
    <3> QED
      BY <1>3, <1>5, <2>1, <2>2
  <2> QED
    BY <1>5, <1>6, <2>3 DEF Counts
<1>8. (slice.array # 0 => slice.array \in DOMAIN arrays /\ Covers(arrays[slice.array]))'
  BY <1>2, <1>6 DEF SystemInv, ReaderInv, Covers
<1> QED
  BY <1>2, <1>4, <1>5, <1>6, <1>7, <1>8 DEF SystemInv, ReaderInv

-----------------------------------------------------------------------------
\* How a run ends by the race: at a set that is a new entry.
LEMMA NextFault ==
  ASSUME IInv, SystemInv, [SystemNext]_systemVars
  PROVE  FaultOnlyAtAppend'
<1>1. CASE EntryFaults
  <2>1. PICK line \in Loaded : line = Garbage \/ Torn \in {line.bank, line.type}
    BY <1>1 DEF EntryFaults
  <2>2. Ranging /\ main = "summarising" /\ UNCHANGED <<summary, main, arrivals, machine>>
    BY <1>1 DEF EntryFaults, SummaryFaults, readVars, recvVars, SystemNext, systemVars
  <2>3. /\ arrivals # <<>> /\ MatchesOf(Before, LastSet) = {}
        /\ machine = "amd64" => Len(summary) = Len(Before)
    BY <2>1, <2>2, LoadsFacts
  <2>4. Before' = Before
    BY <2>2 DEF Before, DataAfter
  <2> QED
    BY <2>2, <2>3, <2>4 DEF FaultOnlyAtAppend, LastSet
<1>2. CASE ServiceStep /\ Crash
  <2>1. \E c \in Crawlers : crawler'[c] = "panicking"
    BY <1>2 DEF Crash, crawlerVars
  <2> QED
    BY <2>1 DEF FaultOnlyAtAppend
<1>3. CASE process' # "crashed"
  BY <1>3 DEF FaultOnlyAtAppend
<1>4. CASE UNCHANGED <<vars, summary, machine>>
  <2>1. Before' = Before /\ UNCHANGED <<process, crawler, main, arrivals, summary, machine>>
    BY <1>4 DEF Before, DataAfter, vars, crawlerVars, recvVars, mainVars
  <2> QED
    BY <2>1 DEF SystemInv, FaultOnlyAtAppend
<1>5. CASE Alive /\ process' = process
  BY <1>3, <1>5 DEF Alive
<1>6. \/ EntryFaults \/ (ServiceStep /\ Crash) \/ process' # "crashed"
      \/ UNCHANGED <<vars, summary, machine>>
      \/ Alive /\ process' = process
  <2>1. CASE ServiceStep /\ UNCHANGED machine
    BY <2>1 DEF ServiceStep, SpawnCrawler, CrawlerStep, OfferSet, Return, Panic, Rendezvous, SpawnReceiver,
       WaitReturns, RangeEnds, Exit, Terminated, mainVars, vars, readVars
  <2>2. CASE (BeginUpsert \/ EndUpsert \/ ReadPointer \/ ReadLength \/ SummariseEntry \/ FinishSummary) /\ UNCHANGED machine
    BY <2>2 DEF BeginUpsert, EndUpsert, UpsertReturns, ReadPointer, ReadLength, GetInterestSets, SummariseEntry,
       Ranging, FinishSummary, CloseChannel, mainVars, vars, readVars
  <2>3. CASE UNCHANGED systemVars
    BY <2>3 DEF systemVars, readVars
  <2> QED
    BY <2>1, <2>2, <2>3 DEF SystemNext, SystemStep
<1> QED
  BY <1>1, <1>2, <1>3, <1>4, <1>5, <1>6

\* So every step keeps the invariant.
LEMMA NextSystemInv == IInv /\ SystemInv /\ [SystemNext]_systemVars => SystemInv'
<1> SUFFICES ASSUME IInv, SystemInv, [SystemNext]_systemVars PROVE SystemInv'
  OBVIOUS
<1>0. TypeOK /\ ReceiverKeepsUp /\ ReaderInv /\ StoreIsSequential
  BY DEF IInv, SystemInv
<1>8. FaultOnlyAtAppend' /\ machine' = machine
  BY NextFault DEF SystemNext, systemVars
<1>1. CASE ServiceStep
  <2>1. UNCHANGED storeVars
    BY <1>1 DEF ServiceStep
  <2> QED
    BY <1>1, <1>8, <2>1, OtherSteps, ServiceReader DEF SystemInv
<1>2. CASE BeginUpsert
  <2>1. /\ ArraysInv' /\ WriteInv' /\ Data' = Data
        /\ UNCHANGED <<slice, summary>> /\ UNCHANGED vars
        /\ DOMAIN arrays \subseteq DOMAIN arrays' /\ \A a \in DOMAIN arrays : arrays'[a] = arrays[a]
    BY <1>0, <1>2, BeginEffect
  <2>2. arrivals' = arrivals /\ handled' = handled /\ main' = main
    BY <2>1 DEF vars, recvVars, mainVars
  <2>3. StoreIsSequential'
    BY <1>0, <2>1, <2>2 DEF StoreIsSequential, DataAfter
  <2>4. ReaderInv'
    BY <1>0, <1>8, <2>1, <2>2, ReaderStays
  <2> QED
    BY <1>8, <2>1, <2>3, <2>4 DEF SystemInv
<1>3. CASE EndUpsert
  <2>1. /\ ArraysInv' /\ WriteInv' /\ Data' = Upserted(Data, InHand)
        /\ UNCHANGED <<slice, summary, arrivals, main>> /\ handled' = handled + 1
        /\ DOMAIN arrays' = DOMAIN arrays
        /\ \A a \in DOMAIN arrays : Covers(arrays[a]) => Covers(arrays'[a])
    BY <1>0, <1>3, EndEffect
  <2>2. StoreIsSequential'
    <3>1. recv = "upserting"
      BY <1>3 DEF EndUpsert, UpsertReturns
    <3>2. handled + 1 = Len(arrivals) /\ Len(arrivals) \in Nat /\ handled \in Nat
      BY <1>0, <3>1, InHandIsRate
    <3>3. handled + 1 \in 0 .. Len(arrivals) /\ handled + 1 # 0 /\ (handled + 1) - 1 = handled
      BY <3>2
    <3>4. Slices(arrivals)[handled + 1] = Upserted(Slices(arrivals)[handled], InHand)
      BY <3>2, <3>3, SlicesDef DEF InHand
    <3> QED
      BY <1>0, <2>1, <3>4 DEF StoreIsSequential, DataAfter
  <2>4. ReaderInv'
    BY <1>0, <1>8, <2>1, ReaderStays
  <2> QED
    BY <1>8, <2>1, <2>2, <2>4 DEF SystemInv
<1>4. CASE ReadPointer
  <2>1. UNCHANGED storeVars /\ UNCHANGED <<recv, arrivals, handled>>
    BY <1>4 DEF ReadPointer, vars, recvVars
  <2> QED
    BY <1>4, <1>8, <2>1, OtherSteps, ReadPointerReader DEF SystemInv
<1>5. CASE ReadLength
  <2>1. UNCHANGED storeVars /\ UNCHANGED <<recv, arrivals, handled>>
    BY <1>5 DEF ReadLength, GetInterestSets, recvVars
  <2> QED
    BY <1>5, <1>8, <2>1, OtherSteps, ReadLengthReader DEF SystemInv
<1>6. CASE SummariseEntry
  <2>1. UNCHANGED storeVars /\ UNCHANGED <<recv, arrivals, handled>>
    BY <1>6 DEF SummariseEntry, vars, recvVars
  <2> QED
    BY <1>6, <1>8, <2>1, OtherSteps, SummariseReader DEF SystemInv
<1>7. CASE EntryFaults \/ FinishSummary \/ UNCHANGED systemVars
  <2>1. /\ UNCHANGED storeVars /\ UNCHANGED <<recv, arrivals, handled>> /\ UNCHANGED <<slice, summary>>
        /\ \/ main' = main
           \/ main = "summarising" /\ main' = "returned" /\ Len(summary) = slice.len
    BY <1>7 DEF EntryFaults, SummaryFaults, FinishSummary, CloseChannel, systemVars, vars, recvVars, mainVars, readVars
  <2>2. arrays' = arrays
    BY <2>1 DEF storeVars
  <2>3. \A a \in DOMAIN arrays : Covers(arrays[a]) => Covers(arrays'[a])
    BY <2>2
  <2>4. ReaderInv'
    BY <1>0, <1>8, <2>1, <2>2, <2>3, ReaderStays
  <2> QED
    BY <1>8, <2>1, <2>4, OtherSteps DEF SystemInv
<1> QED
  BY <1>1, <1>2, <1>3, <1>4, <1>5, <1>6, <1>7 DEF SystemNext, SystemStep

-----------------------------------------------------------------------------
\* The store's steps are steps of the service, or invisible to it.
LEMMA StepOfService == [SystemNext]_systemVars => [Next]_vars
<1> SUFFICES ASSUME [SystemNext]_systemVars PROVE [Next]_vars
  OBVIOUS
<1>1. CASE ServiceStep
  BY <1>1 DEF ServiceStep, Next, MainStep, ReceiverStep
<1>2. CASE BeginUpsert \/ ReadPointer \/ SummariseEntry
  BY <1>2 DEF BeginUpsert, ReadPointer, SummariseEntry
<1>7. CASE EntryFaults
  BY <1>7 DEF EntryFaults, Next, MainStep
<1>3. CASE EndUpsert
  BY <1>3 DEF EndUpsert, Next, ReceiverStep
<1>4. CASE ReadLength
  BY <1>4 DEF ReadLength, Next, MainStep
<1>5. CASE FinishSummary
  BY <1>5 DEF FinishSummary, Next, MainStep
<1>6. CASE UNCHANGED systemVars
  BY <1>6 DEF systemVars
<1> QED
  BY <1>1, <1>2, <1>3, <1>4, <1>5, <1>6, <1>7 DEF SystemNext, SystemStep

\* So the system is a run of the service of CrawlService.
LEMMA SystemIsService == SystemSpec => Spec
<1>1. SystemInit => Init
  BY DEF SystemInit
<1> QED
  BY <1>1, StepOfService, PTL DEF SystemSpec, Spec

\* The instance Service is the module CrawlService itself.
LEMMA InstanceInit == Init => Service!Init
BY DEF Init, Service!Init

LEMMA InstanceNext == [Next]_vars => [Service!Next]_(Service!vars)
<1> USE DEF vars, crawlerVars, recvVars, mainVars, Alive, InStore,
            Service!vars, Service!crawlerVars, Service!recvVars, Service!mainVars, Service!Alive, Service!InStore
<1>1. MainStep => Service!MainStep
  BY DEF MainStep, SpawnCrawler, SpawnReceiver, WaitReturns, GetInterestSets, GetInterestSetsFails,
         SummaryFaults, CloseChannel, Exit, Service!SummaryFaults, Service!MainStep, Service!SpawnCrawler, Service!SpawnReceiver,
         Service!WaitReturns, Service!GetInterestSets, Service!GetInterestSetsFails,
         Service!CloseChannel, Service!Exit
<1>2. \A c \in Crawlers : CrawlerStep(c) => Service!CrawlerStep(c)
  BY DEF CrawlerStep, OfferSet, Return, Panic,
         Service!CrawlerStep, Service!OfferSet, Service!Return, Service!Panic
<1>3. ReceiverStep => Service!ReceiverStep
  BY DEF ReceiverStep, Rendezvous, UpsertReturns, UpsertFails, RangeEnds, Service!ReceiverStep,
         Service!Rendezvous, Service!UpsertReturns, Service!UpsertFails, Service!RangeEnds
<1>4. (Crash => Service!Crash) /\ (Terminated => Service!Terminated)
  BY DEF Crash, Terminated, Service!Crash, Service!Terminated
<1>5. UNCHANGED vars => UNCHANGED Service!vars
  OBVIOUS
<1> QED
  BY <1>1, <1>2, <1>3, <1>4, <1>5, Zenon DEF Next, Service!Next

\* Split into upserts that begin and end, with a store main reads unlocked, the
\* program is still the service of CrawlService.
THEOREM SystemImplementsCrawlService == SystemSpec => ImplementsCrawlService
BY SystemIsService, InstanceInit, InstanceNext, PTL DEF Spec, ImplementsCrawlService, Service!Spec
-----------------------------------------------------------------------------
(* What follows from the invariant *)

\* The system is a run of the service, so its invariants are available.
LEMMA SystemInvariance == SystemSpec => [](IInv /\ SystemInv)
<1>1. SystemSpec => []IInv
  BY SystemIsService, Invariance
<1> QED
  BY <1>1, InitSystemInv, NextSystemInv, PTL DEF SystemSpec

\* The backing arrays, the slice, the store under way and main's copy of the
\* slice are always well formed: nothing is written outside an array, and main
\* counts no more entries than its copy has.
THEOREM SystemTypeCorrect == SystemSpec => []SystemTypeOK
<1>1. IInv /\ SystemInv => SystemTypeOK
  <2> SUFFICES ASSUME IInv, SystemInv PROVE SystemTypeOK
    OBVIOUS
  <2>1. /\ arrays \in Seq(Seq(InterestSets \cup {Zero})) /\ header \in [array : DOMAIN arrays, len : Nat]
        /\ header.len <= Len(arrays[header.array])
    BY DEF SystemInv, ArraysInv
  <2>2. DOMAIN arrays = 1 .. Len(arrays) /\ Len(arrays) \in Nat
    BY <2>1, LenProperties
  <2>3. \A a \in DOMAIN arrays : arrays[a] \in Seq(InterestSets \cup {Zero})
    BY <2>1, <2>2, ElementOfSeq
  <2>4. \A a \in DOMAIN arrays : \A i \in DOMAIN arrays[a] : arrays[a][i] \in InterestSets \cup {Zero}
    BY <2>3, LenProperties
  <2>5. header.array \in DOMAIN arrays /\ header.len \in 0 .. Len(arrays[header.array])
    BY <2>1, <2>3, LenProperties
  <2>6. slice.array \in 0 .. Len(arrays) /\ slice.len \in 0 .. MaxCap /\ Len(summary) <= slice.len
    BY <2>2 DEF SystemInv, ReaderInv
  <2>7. machine \in {"amd64", "arm64"}
    BY DEF SystemInv, ReaderInv
  <2> QED
    BY <2>4, <2>5, <2>6, <2>7 DEF SystemTypeOK, IInv, SystemInv, WriteInv
<1> QED
  BY <1>1, SystemInvariance, PTL

\* Growing, copying and replacing in place through a shared slice, the store
\* holds after each upsert what a sequence of atomic upserts would have left.
THEOREM UpsertsAreSequential == SystemSpec => []StoreIsSequential
<1>1. IInv /\ SystemInv => StoreIsSequential
  BY DEF SystemInv
<1> QED
  BY <1>1, SystemInvariance, PTL

\* Though main reads the slice without a lock while the receiver may be writing
\* it, a summary that is complete has every line from before the last set, on
\* arm64 perhaps with a blank, and at most one more.
THEOREM SummaryNearlyExact == SystemSpec => []SummaryOffByOneLine
<1>1. IInv /\ SystemInv => SummaryOffByOneLine
  <2> SUFFICES ASSUME IInv, SystemInv, main = "returned" PROVE SummaryOffByOneLine
    BY DEF SummaryOffByOneLine
  <2>1. Before \in Seq(InterestSets)
    BY BeforeFacts DEF IInv, SystemInv
  <2>2. Len(Before) \in Nat /\ DOMAIN Before = 1 .. Len(Before)
    BY <2>1, LenProperties
  <2>3. /\ Len(summary) \in {Len(Before), Len(Before) + 1}
        /\ \A i \in 1 .. Len(summary) : i <= Len(Before) => Counts(summary[i], Before[i])
    BY DEF SystemInv, ReaderInv
  <2> QED
    BY <2>2, <2>3 DEF SummaryOffByOneLine, Counts
<1> QED
  BY <1>1, SystemInvariance, PTL

\* The race ends the process only at a set that is a new entry, and on amd64 only
\* when main has counted all the others; a rate that is sent again is harmless.
THEOREM FaultsOnlyAtAppends == SystemSpec => []FaultOnlyAtAppend
<1>1. IInv /\ SystemInv => FaultOnlyAtAppend
  BY DEF SystemInv
<1> QED
  BY <1>1, SystemInvariance, PTL
-----------------------------------------------------------------------------
(* The store is a MemoryStore *)

\* The instance Store compares and searches as the system does.
LEMMA StoreSearch ==
  \A d, set : Store!MatchesOf(d, set) = MatchesOf(d, set) /\ Store!FirstMatch(d, set) = FirstMatch(d, set)
<1>1. \A a, b : Store!AlreadyExists(a, b) <=> AlreadyExists(a, b)
  BY DEF Store!AlreadyExists, AlreadyExists, Store!NoMonth, NoMonth
<1>2. \A d, set : Store!MatchesOf(d, set) = MatchesOf(d, set)
  BY <1>1 DEF Store!MatchesOf, MatchesOf
<1> QED
  BY <1>2 DEF Store!FirstMatch, FirstMatch

\* Each upsert of the receiver is one of MemoryStore, at its end; nothing else is
\* seen there.
LEMMA StepOfStore ==
  ASSUME IInv, DeliveryInv, SystemInv, [SystemNext]_systemVars
  PROVE  [Store!Next]_(Store!vars)
<1> USE DEF IInv, SystemInv
<1>0. /\ arrivals \in Seq([from : Crawlers, set : InterestSets]) /\ handled \in Nat
      /\ Len(arrivals) \in Nat /\ handled <= Len(arrivals)
      /\ \A i \in 1 .. Len(arrivals) : arrivals[i].set \in InterestSets
  <2>1. arrivals \in Seq([from : Crawlers, set : InterestSets]) /\ handled \in Nat /\ Len(arrivals) \in Nat
    BY LenProperties DEF TypeOK
  <2>2. \A i \in 1 .. Len(arrivals) : arrivals[i] \in [from : Crawlers, set : InterestSets]
    BY <2>1, ElementOfSeq
  <2> QED
    BY <2>1, <2>2 DEF ReceiverKeepsUp
<1>1. Applied \in Seq(InterestSets) /\ Len(Applied) = handled
  <2>1. \A i \in 1 .. handled : arrivals[i].set \in InterestSets
    BY <1>0
  <2> QED
    BY <1>0, <2>1 DEF Applied
<1>2. CASE EndUpsert
  <2>1. Data' = Upserted(Data, InHand) /\ arrivals' = arrivals /\ handled' = handled + 1
    BY <1>2, EndEffect
  <2>2. InHand \in InterestSets /\ handled + 1 = Len(arrivals)
    BY <1>2, InHandIsRate DEF EndUpsert, UpsertReturns
  <2>3. Applied' = Append(Applied, InHand)
    <3>1. Applied' = [i \in 1 .. handled + 1 |-> arrivals[i].set]
      BY <2>1 DEF Applied
    <3>2. /\ Append(Applied, InHand) \in Seq(InterestSets) /\ Len(Append(Applied, InHand)) = handled + 1
          /\ \A i \in 1 .. handled : Append(Applied, InHand)[i] = Applied[i]
          /\ Append(Applied, InHand)[handled + 1] = InHand
      BY <1>1, <2>2, AppendProperties
    <3>3. \A i \in 1 .. handled + 1 : Append(Applied, InHand)[i] = arrivals[i].set
      <4>1. \A i \in 1 .. handled : Applied[i] = arrivals[i].set
        BY DEF Applied
      <4>2. \A i \in 1 .. handled + 1 : i \in 1 .. handled \/ i = handled + 1
        BY <1>0
      <4> QED
        BY <3>2, <4>1, <4>2 DEF InHand
    <3>4. \A i \in 1 .. handled + 1 : arrivals[i].set \in InterestSets
      BY <1>0, <2>2
    <3>5. Applied' \in Seq(InterestSets) /\ Len(Applied') = handled + 1
      BY <1>0, <3>1, <3>4
    <3>6. \A i \in 1 .. handled + 1 : Applied'[i] = Append(Applied, InHand)[i]
      BY <3>1, <3>3
    <3> QED
      BY <3>2, <3>5, <3>6, SeqEqual
  <2>4. Len(Applied) < Cardinality(Crawlers) * MaxSends
    <3>1. Len(arrivals) <= Cardinality(Crawlers) * MaxSends
      BY ArrivalsBounded
    <3>2. Cardinality(Crawlers) * MaxSends \in Nat
      BY CrawlersFinite, FS_CardinalityType, MaxSendsNat
    <3> QED
      BY <1>0, <1>1, <2>2, <3>1, <3>2
  <2>5. Store!Replace(InHand) \/ Store!AppendNew(InHand)
    BY <2>1, StoreSearch DEF Store!Replace, Store!AppendNew, Upserted
  <2> QED
    BY <2>2, <2>3, <2>4, <2>5 DEF Store!Next, Store!UpsertInterestSet
<1>3. ASSUME Data' = Data, handled' = handled, arrivals' = arrivals \/ \E a : arrivals' = Append(arrivals, a)
      PROVE  UNCHANGED Store!vars
  <2>1. Applied' = Applied
    <3>1. CASE arrivals' = arrivals
      BY <1>3, <3>1 DEF Applied
    <3>2. CASE \E a : arrivals' = Append(arrivals, a)
      <4>1. \A i \in 1 .. handled : arrivals'[i] = arrivals[i]
        BY <1>0, <3>2
      <4> QED
        BY <1>3, <4>1 DEF Applied
    <3> QED
      BY <1>3, <3>1, <3>2
  <2> QED
    BY <1>3, <2>1 DEF Store!vars
<1>4. CASE BeginUpsert
  <2>1. Data' = Data /\ handled' = handled /\ arrivals' = arrivals
    BY <1>4, BeginEffect DEF vars, recvVars
  <2> QED
    BY <1>3, <2>1
<1>5. CASE \/ ServiceStep \/ ReadPointer \/ ReadLength \/ SummariseEntry \/ EntryFaults
           \/ FinishSummary \/ UNCHANGED systemVars
  <2>1. Data' = Data
    BY <1>5 DEF ServiceStep, ReadPointer, ReadLength, SummariseEntry, EntryFaults, FinishSummary,
       systemVars, storeVars, Data
  <2>2. handled' = handled /\ (arrivals' = arrivals \/ \E a : arrivals' = Append(arrivals, a))
    <3>1. CASE ServiceStep
      BY <3>1 DEF ServiceStep, SpawnCrawler, CrawlerStep, OfferSet, Return, Panic, Rendezvous, SpawnReceiver,
         WaitReturns, RangeEnds, Exit, Crash, Terminated, recvVars, vars
    <3>2. CASE ReadPointer \/ ReadLength \/ SummariseEntry \/ EntryFaults \/ FinishSummary \/ UNCHANGED systemVars
      BY <3>2 DEF ReadPointer, ReadLength, GetInterestSets, SummariseEntry, EntryFaults, SummaryFaults,
         FinishSummary, CloseChannel, systemVars, vars, recvVars
    <3> QED
      BY <1>5, <3>1, <3>2
  <2> QED
    BY <1>3, <2>1, <2>2
<1> QED
  BY <1>2, <1>4, <1>5 DEF SystemNext, SystemStep

\* Under the crawlers' interleavings, main's unlocked reads and the growing of the
\* array, the receiver's store is a MemoryStore that takes whole upserts, at most
\* as many as the crawlers can send.
THEOREM SystemImplementsMemoryStore == SystemSpec => ImplementsMemoryStore
<1>1. SystemInit => Store!Init
  <2> SUFFICES ASSUME SystemInit PROVE Data = <<>> /\ Applied = <<>>
    BY DEF Store!Init
  <2>1. handled = 0 /\ arrays = << <<>> >> /\ header.len = 0
    BY DEF SystemInit, Init
  <2>2. Data = <<>>
    BY <2>1, SubSeqEmpty DEF Data
  <2>3. Applied = <<>>
    BY <2>1 DEF Applied
  <2> QED
    BY <2>2, <2>3
<1>2. SystemSpec => []DeliveryInv
  BY SystemIsService, DeliveryInvariance
<1>3. IInv /\ SystemInv /\ DeliveryInv /\ [SystemNext]_systemVars => [Store!Next]_(Store!vars)
  BY StepOfStore
<1> QED
  BY <1>1, <1>2, <1>3, SystemInvariance, PTL DEF SystemSpec, ImplementsMemoryStore, Store!Spec

-----------------------------------------------------------------------------
(* One real crawler in the service *)

Proofs == INSTANCE SiteCrawlers_proofs WITH sent <- pushed

\* The plans that the proofs speak of are the plans of the program.
LEMMA SamePlans == Program!Plans = Proofs!Plans /\ Program!Banks = Proofs!Banks
BY DEF Program!Plans, Proofs!Plans, Program!Banks, Proofs!Banks, Program!DanskeBank,
   Proofs!DanskeBank, Program!DanskeListRates, Proofs!DanskeListRates, Program!DanskeAverageRates,
   Proofs!DanskeAverageRates, Program!SEB, Proofs!SEB, Program!SEBKey, Proofs!SEBKey,
   Program!SEBListRates, Proofs!SEBListRates, Program!SEBAverageRates, Proofs!SEBAverageRates,
   Program!ICABanken, Proofs!ICABanken, Program!ICAListRates, Proofs!ICAListRates,
   Program!ICAAverageRates, Proofs!ICAAverageRates, Program!Nordea, Proofs!Nordea,
   Program!NordeaListRates, Proofs!NordeaListRates, Program!NordeaHistoricRates,
   Proofs!NordeaHistoricRates, Program!Handelsbanken, Proofs!Handelsbanken,
   Program!HandelsbankenListRates, Proofs!HandelsbankenListRates,
   Program!HandelsbankenAverageRates, Proofs!HandelsbankenAverageRates, Program!Hypoteket,
   Proofs!Hypoteket, Program!HypoteketListRates, Proofs!HypoteketListRates,
   Program!HypoteketAverageRates, Proofs!HypoteketAverageRates, Program!SBAB, Proofs!SBAB,
   Program!SBABListRates, Proofs!SBABListRates, Program!SBABAverageRates, Proofs!SBABAverageRates,
   Program!Skandia, Proofs!Skandia, Program!SkandiaListRates, Proofs!SkandiaListRates,
   Program!SkandiaAverageRates, Proofs!SkandiaAverageRates, Program!Swedbank, Proofs!Swedbank,
   Program!SwedbankListRates, Proofs!SwedbankListRates, Program!SwedbankAverageRates,
   Proofs!SwedbankAverageRates, Program!Stabelo, Proofs!Stabelo, Program!StabeloListRates,
   Proofs!StabeloListRates, Program!StabeloTierRates, Proofs!StabeloTierRates,
   Program!StabeloAverageRates, Proofs!StabeloAverageRates, Program!Bluestep, Proofs!Bluestep,
   Program!BluestepListRates, Proofs!BluestepListRates, Program!BluestepAverageRates,
   Proofs!BluestepAverageRates, Program!Ikano, Proofs!Ikano, Program!IkanoListRates,
   Proofs!IkanoListRates, Program!IkanoAverageRates, Proofs!IkanoAverageRates,
   Program!Alandsbanken, Proofs!Alandsbanken, Program!AlandsListRates, Proofs!AlandsListRates,
   Program!AlandsAverageRates, Proofs!AlandsAverageRates, Program!Nordax, Proofs!Nordax,
   Program!NordaxAverageRates, Proofs!NordaxAverageRates, Program!Nordnet, Proofs!Nordnet,
   Program!NordnetListRates, Proofs!NordnetListRates, Program!Lansforsakringar,
   Proofs!Lansforsakringar, Program!LFListRates, Proofs!LFListRates, Program!LFAverageRates,
   Proofs!LFAverageRates, Program!Landshypotek, Proofs!Landshypotek, Program!LandshypotekTier,
   Proofs!LandshypotekTier, Program!LandshypotekListRates, Proofs!LandshypotekListRates,
   Program!LandshypotekCurrent, Proofs!LandshypotekCurrent, Program!LandshypotekHistorical,
   Proofs!LandshypotekHistorical, Program!JAK, Proofs!JAK, Program!JAKTermRates,
   Proofs!JAKTermRates, Program!Svea, Proofs!Svea, Program!SveaListRate, Proofs!SveaListRate,
   Program!SveaAverageRates, Proofs!SveaAverageRates, Program!Avanza, Proofs!Avanza,
   Program!AvanzaRates, Proofs!AvanzaRates, Program!Marginalen, Proofs!Marginalen,
   Program!MarginalenAverageRates, Proofs!MarginalenAverageRates, Program!Rate, Proofs!Rate,
   Program!Rates, Proofs!Rates, Program!ListRates, Proofs!ListRates, Program!AverageRates,
   Proofs!AverageRates, Program!TierRates, Proofs!TierRates, Program!Part, Proofs!Part,
   Program!PanicPart, Proofs!PanicPart, Program!Source, Proofs!Source, Program!LastSource,
   Proofs!LastSource, Program!NonEmpty, Proofs!NonEmpty, Program!Page, Proofs!Page, Program!Send,
   Proofs!Send

\* What the proofs assume of the constants is assumed of those of BankCrawl.
LEMMA Assumed == Crawled \subseteq Proofs!Banks /\ Proofs!IsFiniteSet(Rows)
BY SamePlans, BanksCrawl, FewRows DEF Proofs!IsFiniteSet, IsFiniteSet

\* So the invariant of the programs is there to be used.
LEMMA InitProgram == Program!Init => Proofs!IInv
<1>1. Program!Init => Proofs!Init
  BY SamePlans DEF Program!Init, Proofs!Init, Program!Plan, Proofs!Plan, Program!AllPages,
     Proofs!AllPages, Program!PagesOf, Proofs!PagesOf, Program!Elements, Proofs!Elements,
     Program!RatesAt, Proofs!RatesAt
<1> QED
  BY <1>1, Assumed, Proofs!InitIInv

\* The two instances count alike.
LEMMA SameCardinality == \A S : Program!Cardinality(S) = Proofs!Cardinality(S)
BY DEF Program!Cardinality, Proofs!Cardinality

\* What the steps of a program are made of.
LEMMA SameParts ==
  /\ Program!Plan = Proofs!Plan /\ Program!Here = Proofs!Here
  /\ Program!Running <=> Proofs!Running
  /\ Program!Asked = Proofs!Asked
  /\ Program!Fetched <=> Proofs!Fetched
  /\ Program!Extracting <=> Proofs!Extracting
  /\ \A plan, k, i : Program!RatesAt(plan, k, i) = Proofs!RatesAt(plan, k, i)
  /\ \A k : Program!GoTo(k) <=> Proofs!GoTo(k)
  /\ Program!Stay <=> Proofs!Stay
  /\ Program!Fail <=> Proofs!Fail
  /\ Program!FoundHere = Proofs!FoundHere
  /\ Program!Failed <=> Proofs!Failed
<1>1. Program!Plan = Proofs!Plan
  BY SamePlans DEF Program!Plan, Proofs!Plan
<1>2. Program!Here = Proofs!Here
  BY <1>1 DEF Program!Here, Proofs!Here
<1>3. Program!Running <=> Proofs!Running
  BY <1>1 DEF Program!Running, Proofs!Running
<1>4. Program!Asked = Proofs!Asked
  BY <1>2, SameCardinality DEF Program!Asked, Proofs!Asked
<1>5. Program!Fetched <=> Proofs!Fetched
  BY <1>2, <1>4 DEF Program!Fetched, Proofs!Fetched
<1>6. Program!Extracting <=> Proofs!Extracting
  BY <1>2, <1>3, <1>5 DEF Program!Extracting, Proofs!Extracting
<1>7. \A plan, k, i : Program!RatesAt(plan, k, i) = Proofs!RatesAt(plan, k, i)
  BY DEF Program!RatesAt, Proofs!RatesAt
<1>8. \A k : Program!GoTo(k) <=> Proofs!GoTo(k)
  BY <1>1, <1>7 DEF Program!GoTo, Proofs!GoTo
<1>9. Program!Stay <=> Proofs!Stay
  BY DEF Program!Stay, Proofs!Stay
<1>10. Program!Fail <=> Proofs!Fail
  BY <1>2, <1>8, <1>9 DEF Program!Fail, Proofs!Fail
<1>11. Program!FoundHere = Proofs!FoundHere
  BY SameCardinality DEF Program!FoundHere, Proofs!FoundHere
<1>12. Program!Failed <=> Proofs!Failed
  BY <1>2, <1>11 DEF Program!Failed, Proofs!Failed
<1> QED
  BY <1>1, <1>2, <1>3, <1>4, <1>5, <1>6, <1>7, <1>8, <1>9, <1>10, <1>11, <1>12

\* A step of the program is one of those that the proofs know.
LEMMA ProgramStep == Program!Next => Proofs!Next
<1>1. Program!Arrives => Proofs!Arrives
  BY SameParts DEF Program!Arrives, Proofs!Arrives
<1>2. Program!GetFails => Proofs!GetFails
  BY SameParts DEF Program!GetFails, Proofs!GetFails
<1>3. Program!PartFails => Proofs!PartFails
  BY SameParts DEF Program!PartFails, Proofs!PartFails
<1>4. \A rate \in left : Program!Row(rate) => Proofs!Row(rate)
  BY SameParts DEF Program!Row, Proofs!Row
<1>5. Program!RowPanics => Proofs!RowPanics
  BY SameParts DEF Program!RowPanics, Proofs!RowPanics
<1>6. Program!PartEnds => Proofs!PartEnds
  BY SameParts DEF Program!PartEnds, Proofs!PartEnds
<1>7. Program!SourceEnds => Proofs!SourceEnds
  BY SameParts DEF Program!SourceEnds, Proofs!SourceEnds
<1>8. Program!SendSet => Proofs!SendSet
  BY SameParts DEF Program!SendSet, Proofs!SendSet
<1>9. Program!SendEnds => Proofs!SendEnds
  BY SameParts DEF Program!SendEnds, Proofs!SendEnds
<1>10. Program!Return => Proofs!Return
  BY SameParts DEF Program!Return, Proofs!Return
<1>11. Program!Over => Proofs!Over
  BY DEF Program!Over, Proofs!Over, Program!vars, Proofs!vars
<1> QED
  BY <1>1, <1>2, <1>3, <1>4, <1>5, <1>6, <1>7, <1>8, <1>9, <1>10, <1>11 DEF Program!Next, Proofs!Next

-----------------------------------------------------------------------------
\* The goroutine is not over before its program is.
OnTurn == crawler[one] \in {"new", "running", "sending"} => crawl = "running"

\* What the goroutine sent is what its program collected.
Pushed ==
  /\ Len(sent[one]) = pushed
  /\ \A n \in 1 .. pushed : sent[one][n] = SetOf[collected[n]]

\* What the goroutine sent, and is not blocked on, has arrived.
Taken ==
  \A n \in 1 .. Len(sent[one]) : n < Len(sent[one]) \/ crawler[one] # "sending" =>
    \E i \in DOMAIN arrivals : arrivals[i] = [from |-> one, set |-> sent[one][n]]

BankInv == Proofs!IInv /\ OnTurn /\ Pushed /\ Taken

\* Whatever happens, the program makes a step of its own or none.
LEMMA StepOfProgram == [BankNext]_bankVars => [Proofs!Next]_(Proofs!vars)
<1>1. UNCHANGED programVars => UNCHANGED Proofs!vars
  BY DEF programVars, Proofs!vars
<1>2. Program!SendSet => Program!Next
  BY DEF Program!Next
<1>3. UNCHANGED bankVars => UNCHANGED programVars
  BY DEF bankVars
<1> QED
  BY <1>1, <1>2, <1>3, ProgramStep DEF BankNext, Goroutine, Works, Pushes, Ends

\* What the program finds are interest sets.
LEMMA CollectedIsSent ==
  ASSUME Proofs!IInv, NEW n \in 1 .. Len(collected)
  PROVE  SetOf[collected[n]] \in InterestSets
<1>1. collected[n] \in Proofs!Sets
  BY Assumed, Proofs!CollectedAreSets
<1>2. bank \in Crawled
  BY DEF Proofs!IInv, Proofs!Types
<1>3. PICK k \in DOMAIN Proofs!Plan : \E i \in DOMAIN Proofs!Plan[k].parts : collected[n] \in Proofs!SetsOf(k, i)
  BY <1>1 DEF Proofs!Sets
<1>4. PICK i \in DOMAIN Proofs!Plan[k].parts : collected[n] \in Proofs!SetsOf(k, i)
  BY <1>3
<1>5. collected[n] \in {[from |-> <<k, i>>, rate |-> r] : r \in Proofs!Plan[k].parts[i].rates}
  BY <1>3, <1>4 DEF Proofs!SetsOf, Proofs!RatesAt
<1>6. collected[n] \in FindsOf(Proofs!Plan)
  BY <1>3, <1>4, <1>5 DEF FindsOf
<1> QED
  BY <1>2, <1>6, FindsAreSets, SamePlans DEF Proofs!Plan

\* A step of the program is one that CrawlService lets the goroutine take, or is
\* invisible to the service.
LEMMA GoroutineStep ==
  ASSUME Proofs!IInv, OnTurn, Goroutine
  PROVE  CrawlerStep(one) \/ UNCHANGED vars
<1>1. CASE Works
  BY <1>1 DEF Works
<1>2. CASE Pushes
  <2>1. collected' = collected /\ pushed' = pushed + 1 /\ pushed < Len(collected)
    BY <1>2 DEF Pushes, Program!SendSet
  <2>2. pushed \in Nat /\ Len(collected) \in Nat
    BY DEF Proofs!IInv, Proofs!Types
  <2>3. pushed' \in 1 .. Len(collected)
    BY <2>1, <2>2
  <2>4. SetOf[collected[pushed']] \in InterestSets
    BY <2>3, CollectedIsSent
  <2>5. OfferSet(one, SetOf[collected[pushed']])
    BY <1>2, <2>1 DEF Pushes, Turn, OfferSet
  <2> QED
    BY <2>4, <2>5 DEF CrawlerStep
<1>3. CASE Ends
  <2>1. crawl = "running" /\ crawl' # "running"
    BY <1>3 DEF Ends, Turn, OnTurn
  <2>2. CASE crawl' = "returned"
    BY <1>3, <2>2 DEF Ends, Turn, Return, CrawlerStep
  <2>3. CASE crawl' # "returned"
    <3>1. Program!RowPanics
      BY <1>3, <2>1, <2>3 DEF Ends, Program!Next, Program!Arrives, Program!GetFails, Program!Fail,
         Program!PartFails, Program!Row, Program!PartEnds, Program!SourceEnds, Program!SendSet,
         Program!SendEnds, Program!Return, Program!Over
    <3>2. Proofs!RowPanics
      BY <3>1, SameParts DEF Program!RowPanics, Proofs!RowPanics
    <3>3. bank \in Crawled /\ bank \in {"DanskeBank", "Hypoteket"}
      BY <3>2, Assumed, Proofs!OnlyRiskyPanics DEF Proofs!IInv, Proofs!Types, Proofs!Risky
    <3>4. one \in Panicky
      BY <3>3, RiskyMayPanic
    <3> QED
      BY <1>3, <2>3, <3>4 DEF Ends, Turn, Panic, CrawlerStep
  <2> QED
    BY <2>2, <2>3
<1> QED
  BY <1>1, <1>2, <1>3 DEF Goroutine

\* So is every step of the service with this goroutine in it.
LEMMA StepOfBank == Proofs!IInv /\ OnTurn /\ [BankNext]_bankVars => [Next]_vars
<1>1. UNCHANGED bankVars => UNCHANGED vars
  BY DEF bankVars
<1> QED
  BY <1>1, GoroutineStep, OneCrawls DEF BankNext, Next

\* The goroutine's own steps are the only ones that end it.
LEMMA NextOnTurn == IInv /\ OnTurn /\ [BankNext]_bankVars => OnTurn'
<1> SUFFICES ASSUME IInv, OnTurn, [BankNext]_bankVars PROVE OnTurn'
  OBVIOUS
<1>0. /\ crawler \in [Crawlers -> {"new", "running", "sending", "returned", "panicking"}]
      /\ one \in Crawlers
  BY OneCrawls DEF IInv, TypeOK
<1> USE DEF OnTurn
<1>1. CASE Works
  BY <1>1 DEF Works, vars, crawlerVars
<1>2. CASE Pushes
  BY <1>0, <1>2 DEF Pushes, Turn, Program!SendSet, Program!Stay
<1>3. CASE Ends
  BY <1>0, <1>3 DEF Ends
<1>4. CASE UNCHANGED bankVars
  BY <1>4 DEF bankVars, vars, crawlerVars, programVars
<1>5. CASE MainStep /\ UNCHANGED programVars
  BY <1>0, <1>5 DEF programVars, MainStep, SpawnCrawler, SpawnReceiver, WaitReturns, GetInterestSets,
     GetInterestSetsFails, SummaryFaults, CloseChannel, Exit, crawlerVars
<1>6. ASSUME NEW c \in Crawlers \ {one}, CrawlerStep(c), UNCHANGED programVars PROVE OnTurn'
  BY <1>0, <1>6 DEF programVars, CrawlerStep, OfferSet, Return, Panic
<1>7. CASE ReceiverStep /\ UNCHANGED programVars
  BY <1>0, <1>7 DEF programVars, ReceiverStep, Rendezvous, UpsertReturns, UpsertFails, RangeEnds, crawlerVars
<1>8. CASE (Crash \/ Terminated) /\ UNCHANGED programVars
  BY <1>8 DEF programVars, Crash, Terminated, crawlerVars, vars
<1> QED
  BY <1>1, <1>2, <1>3, <1>4, <1>5, <1>6, <1>7, <1>8 DEF BankNext, Goroutine

\* A send puts the next of the collected sets into the channel.
LEMMA NextPushed == IInv /\ Proofs!IInv /\ OnTurn /\ Pushed /\ [BankNext]_bankVars => Pushed'
<1> SUFFICES ASSUME IInv, Proofs!IInv, OnTurn, Pushed, [BankNext]_bankVars PROVE Pushed'
  OBVIOUS
<1>0. sent \in [Crawlers -> Seq(InterestSets)] /\ one \in Crawlers
  BY OneCrawls DEF IInv, TypeOK
<1>1. /\ pushed \in Nat /\ pushed <= Len(collected)
      /\ Len(collected) \in Nat
      /\ \A n \in 1 .. Len(collected) : collected'[n] = collected[n]
  BY StepOfProgram, Assumed, Proofs!CollectedStays DEF Proofs!IInv, Proofs!Types
<1>2. \A n \in 1 .. pushed : collected'[n] = collected[n]
  BY <1>1
<1>3. ASSUME sent'[one] = sent[one], pushed' = pushed PROVE Pushed'
  BY <1>2, <1>3 DEF Pushed
<1>4. CASE Pushes
  <2>1. /\ collected' = collected /\ pushed' = pushed + 1 /\ pushed < Len(collected)
        /\ sent' = [sent EXCEPT ![one] = Append(@, SetOf[collected[pushed']])]
    BY <1>4 DEF Pushes, Program!SendSet
  <2>2. sent'[one] = Append(sent[one], SetOf[collected[pushed']]) /\ sent[one] \in Seq(InterestSets)
    BY <1>0, <2>1
  <2>3. pushed' \in 1 .. Len(collected)
    BY <1>1, <2>1
  <2>4. SetOf[collected[pushed']] \in InterestSets
    BY <2>3, CollectedIsSent
  <2>5. /\ Len(sent'[one]) = pushed + 1
        /\ sent'[one][pushed + 1] = SetOf[collected[pushed']]
        /\ \A n \in 1 .. pushed : sent'[one][n] = sent[one][n]
    BY <2>2, <2>4, AppendProperties DEF Pushed
  <2> QED
    BY <1>1, <2>1, <2>5 DEF Pushed
<1>5. CASE Works
  BY <1>3, <1>5 DEF Works, vars, crawlerVars
<1>6. CASE Ends
  <2>1. pushed' = pushed
    BY <1>6 DEF Ends, Program!Next, Program!Arrives, Program!GetFails, Program!PartFails, Program!Row,
       Program!RowPanics, Program!PartEnds, Program!SourceEnds, Program!SendSet, Program!Stay,
       Program!SendEnds, Program!Return, Program!Over, Turn, OnTurn
  <2> QED
    BY <1>3, <1>6, <2>1 DEF Ends
<1>7. CASE UNCHANGED bankVars
  BY <1>3, <1>7 DEF bankVars, vars, crawlerVars, programVars
<1>8. CASE MainStep /\ UNCHANGED programVars
  BY <1>3, <1>8 DEF programVars, MainStep, SpawnCrawler, SpawnReceiver, WaitReturns, GetInterestSets,
     GetInterestSetsFails, SummaryFaults, CloseChannel, Exit, crawlerVars
<1>9. ASSUME NEW c \in Crawlers \ {one}, CrawlerStep(c), UNCHANGED programVars PROVE Pushed'
  BY <1>0, <1>3, <1>9 DEF programVars, CrawlerStep, OfferSet, Return, Panic
<1>10. CASE ReceiverStep /\ UNCHANGED programVars
  BY <1>3, <1>10 DEF programVars, ReceiverStep, Rendezvous, UpsertReturns, UpsertFails, RangeEnds, crawlerVars
<1>11. CASE (Crash \/ Terminated) /\ UNCHANGED programVars
  BY <1>3, <1>11 DEF programVars, Crash, Terminated, crawlerVars, vars
<1> QED
  BY <1>4, <1>5, <1>6, <1>7, <1>8, <1>9, <1>10, <1>11 DEF BankNext, Goroutine

\* What arrived stays, and only a receive ends a send.
LEMMA NextTaken == IInv /\ Taken /\ [Next]_vars => Taken'
<1> SUFFICES ASSUME IInv, Taken, [Next]_vars PROVE Taken'
  OBVIOUS
<1>0. /\ crawler \in [Crawlers -> {"new", "running", "sending", "returned", "panicking"}]
      /\ sent \in [Crawlers -> Seq(InterestSets)] /\ one \in Crawlers
      /\ arrivals \in Seq([from : Crawlers, set : InterestSets])
      /\ sent[one] \in Seq(InterestSets) /\ Len(sent[one]) \in Nat
  BY OneCrawls, LenProperties DEF IInv, TypeOK
<1>1. ASSUME UNCHANGED arrivals, sent'[one] = sent[one],
             crawler[one] = "sending" <=> crawler'[one] = "sending"
      PROVE  Taken'
  BY <1>1 DEF Taken
<1>2. ASSUME NEW c \in Crawlers, NEW s \in InterestSets, OfferSet(c, s) PROVE Taken'
  <2>1. /\ sent' = [sent EXCEPT ![c] = Append(@, s)] /\ UNCHANGED arrivals
        /\ crawler[c] = "running" /\ crawler' = [crawler EXCEPT ![c] = "sending"]
    BY <1>2 DEF OfferSet, recvVars
  <2>2. CASE c # one
    BY <1>0, <1>1, <2>1, <2>2
  <2>3. CASE c = one
    <3>1. /\ Len(sent'[one]) = Len(sent[one]) + 1 /\ crawler'[one] = "sending"
          /\ \A n \in 1 .. Len(sent[one]) : sent'[one][n] = sent[one][n]
      BY <1>0, <2>1, <2>3, AppendProperties
    <3> QED
      BY <1>0, <2>1, <2>3, <3>1 DEF Taken
  <2> QED
    BY <2>2, <2>3
<1>3. ASSUME NEW c \in Crawlers, Rendezvous(c) PROVE Taken'
  <2> DEFINE a == [from |-> c, set |-> sent[c][Len(sent[c])]]
  <2>1. /\ crawler[c] = "sending" /\ sent' = sent
        /\ crawler' = [crawler EXCEPT ![c] = "running"] /\ arrivals' = Append(arrivals, a)
    BY <1>3 DEF Rendezvous
  <2>2. a \in [from : Crawlers, set : InterestSets]
    <3>1. sent[c] \in Seq(InterestSets) /\ Len(sent[c]) \in 1 .. Len(sent[c])
      BY <1>0, <2>1, EmptySeq DEF IInv, BlockedOnASet
    <3> QED
      BY <3>1, ElementOfSeq
  <2> HIDE DEF a
  <2>3. /\ Len(arrivals) \in Nat /\ DOMAIN arrivals = 1 .. Len(arrivals)
        /\ DOMAIN arrivals' = 1 .. Len(arrivals) + 1 /\ arrivals'[Len(arrivals) + 1] = a
        /\ \A i \in 1 .. Len(arrivals) : arrivals'[i] = arrivals[i]
    BY <1>0, <2>1, <2>2, AppendProperties, LenProperties
  <2>4. ASSUME NEW n \in 1 .. Len(sent'[one]), n < Len(sent'[one]) \/ crawler'[one] # "sending"
        PROVE  \E i \in DOMAIN arrivals' : arrivals'[i] = [from |-> one, set |-> sent'[one][n]]
    <3>1. CASE c = one /\ n = Len(sent[one])
      BY <2>1, <2>3, <3>1 DEF a
    <3>2. CASE c # one \/ n # Len(sent[one])
      <4>1. n < Len(sent[one]) \/ crawler[one] # "sending"
        BY <1>0, <2>1, <2>4, <3>2
      <4>2. \E i \in DOMAIN arrivals : arrivals[i] = [from |-> one, set |-> sent[one][n]]
        BY <2>1, <4>1 DEF Taken
      <4> QED
        BY <2>1, <2>3, <4>2
    <3> QED
      BY <3>1, <3>2
  <2> QED
    BY <2>4 DEF Taken
<1> USE DEF crawlerVars, recvVars, mainVars, vars
<1>4. ASSUME NEW c \in Crawlers, SpawnCrawler(c) \/ Return(c) \/ Panic(c) PROVE Taken'
  BY <1>0, <1>1, <1>4 DEF SpawnCrawler, Return, Panic
<1>5. CASE SpawnReceiver \/ WaitReturns \/ GetInterestSets \/ GetInterestSetsFails
  BY <1>1, <1>5 DEF SpawnReceiver, WaitReturns, GetInterestSets, GetInterestSetsFails
<1>6. CASE CloseChannel \/ Exit \/ SummaryFaults \/ Crash \/ Terminated \/ UNCHANGED vars
  BY <1>1, <1>6 DEF CloseChannel, Exit, SummaryFaults, Crash, Terminated
<1>7. CASE UpsertReturns \/ UpsertFails \/ RangeEnds
  BY <1>1, <1>7 DEF UpsertReturns, UpsertFails, RangeEnds
<1> QED
  BY <1>2, <1>3, <1>4, <1>5, <1>6, <1>7 DEF Next, MainStep, CrawlerStep, ReceiverStep

\* At the beginning the program stands at its first step, and nothing is sent.
LEMMA InitBank == BankInit => Init /\ BankInv
<1> SUFFICES ASSUME BankInit PROVE Init /\ BankInv
  OBVIOUS
<1>1. Init /\ Proofs!IInv /\ crawl = "running" /\ pushed = 0
  BY InitProgram DEF BankInit, Program!Init
<1>2. sent[one] = <<>> /\ Len(sent[one]) = 0
  BY <1>1, OneCrawls DEF Init
<1> QED
  BY <1>1, <1>2 DEF BankInv, OnTurn, Pushed, Taken

\* The invariants of the service, of the program and of what links them.
LEMMA BankInvariance == BankSpec => [](IInv /\ BankInv)
<1>1. BankInit => IInv /\ BankInv
  BY InitBank, InitIInv
<1>2. IInv /\ BankInv /\ [BankNext]_bankVars => IInv' /\ BankInv'
  <2> SUFFICES ASSUME IInv, BankInv, [BankNext]_bankVars PROVE IInv' /\ BankInv'
    OBVIOUS
  <2>1. [Next]_vars
    BY StepOfBank DEF BankInv
  <2>2. IInv'
    BY <2>1, NextIInv
  <2>3. Proofs!IInv'
    BY StepOfProgram, Assumed, Proofs!NextKeeps DEF BankInv
  <2> QED
    BY <2>1, <2>2, <2>3, NextOnTurn, NextPushed, NextTaken DEF BankInv
<1> QED
  BY <1>1, <1>2, PTL DEF BankSpec

-----------------------------------------------------------------------------
\* The instance AsCrawlService is the module CrawlService itself.
LEMMA InstanceInitBank == Init => AsCrawlService!Init
BY DEF Init, AsCrawlService!Init

LEMMA InstanceNextBank == [Next]_vars => [AsCrawlService!Next]_(AsCrawlService!vars)
<1> USE DEF vars, crawlerVars, recvVars, mainVars, Alive, InStore, AsCrawlService!vars,
            AsCrawlService!crawlerVars, AsCrawlService!recvVars, AsCrawlService!mainVars,
            AsCrawlService!Alive, AsCrawlService!InStore
<1>1. MainStep => AsCrawlService!MainStep
  BY DEF MainStep, SpawnCrawler, SpawnReceiver, WaitReturns, GetInterestSets, GetInterestSetsFails,
         SummaryFaults, CloseChannel, Exit, AsCrawlService!MainStep, AsCrawlService!SpawnCrawler,
         AsCrawlService!SpawnReceiver, AsCrawlService!WaitReturns, AsCrawlService!GetInterestSets,
         AsCrawlService!GetInterestSetsFails, AsCrawlService!SummaryFaults,
         AsCrawlService!CloseChannel, AsCrawlService!Exit
<1>2. \A c \in Crawlers : CrawlerStep(c) => AsCrawlService!CrawlerStep(c)
  BY DEF CrawlerStep, OfferSet, Return, Panic, AsCrawlService!CrawlerStep,
         AsCrawlService!OfferSet, AsCrawlService!Return, AsCrawlService!Panic
<1>3. ReceiverStep => AsCrawlService!ReceiverStep
  BY DEF ReceiverStep, Rendezvous, UpsertReturns, UpsertFails, RangeEnds,
         AsCrawlService!ReceiverStep, AsCrawlService!Rendezvous, AsCrawlService!UpsertReturns,
         AsCrawlService!UpsertFails, AsCrawlService!RangeEnds
<1>4. (Crash => AsCrawlService!Crash) /\ (Terminated => AsCrawlService!Terminated)
  BY DEF Crash, Terminated, AsCrawlService!Crash, AsCrawlService!Terminated
<1>5. UNCHANGED vars => UNCHANGED AsCrawlService!vars
  OBVIOUS
<1> QED
  BY <1>1, <1>2, <1>3, <1>4, <1>5, Zenon DEF Next, AsCrawlService!Next

\* The service in which one crawler runs the Crawl of its bank, whichever that is and
\* whatever the others do, is the service of CrawlService.
THEOREM BankRunsInService == BankSpec => AsCrawlService!Spec
<1>1. BankInit => AsCrawlService!Init
  BY InitBank, InstanceInitBank
<1>2. BankInv /\ [BankNext]_bankVars => [AsCrawlService!Next]_(AsCrawlService!vars)
  BY StepOfBank, InstanceNextBank DEF BankInv
<1> QED
  BY <1>1, <1>2, BankInvariance, PTL DEF BankSpec, AsCrawlService!Spec

\* From the page to the store: when Crawl returned and main builds the summary, every
\* rate that an extraction found has arrived as a set of that crawler, and is one that
\* main counts, unless its upsert failed or it was the last set to arrive.
THEOREM BankFindsAreStored == BankSpec => []FindsAreStored
<1>1. ASSUME IInv, BankInv PROVE FindsAreStored
  <2> SUFFICES ASSUME main = "summarising", crawl = "returned", NEW f \in Program!Elements(found)
               PROVE  \E i \in ArrivedFrom(one, Len(arrivals)) :
                        /\ arrivals[i].set = SetOf[f]
                        /\ i \in seen \cup failed \cup {Len(arrivals)}
    BY DEF FindsAreStored
  <2>1. PICK n \in 1 .. pushed : collected[n] = f
    <3>1. f \in Proofs!Elements(found)
      BY DEF Program!Elements, Proofs!Elements
    <3> QED
      BY <1>1, <3>1 DEF BankInv, Proofs!IInv, Proofs!FailuresAreIsolated
  <2>2. Len(sent[one]) = pushed /\ sent[one][n] = SetOf[f]
    BY <1>1, <2>1 DEF BankInv, Pushed
  <2>3. crawler[one] # "sending"
    BY <1>1, OneCrawls DEF IInv, QuietAfterWait
  <2>4. PICK i \in DOMAIN arrivals : arrivals[i] = [from |-> one, set |-> SetOf[f]]
    BY <1>1, <2>2, <2>3 DEF BankInv, Taken
  <2>5. i \in 1 .. Len(arrivals)
    BY <1>1, <2>4, LenProperties DEF IInv, TypeOK
  <2>6. i \in ArrivedFrom(one, Len(arrivals))
    BY <2>4, <2>5 DEF ArrivedFrom
  <2>7. i \in seen \cup failed \cup {Len(arrivals)}
    BY <1>1, <2>5 DEF IInv, SummaryMissesOnlyLast
  <2> QED
    BY <2>4, <2>6, <2>7
<1> QED
  BY <1>1, BankInvariance, PTL
=============================================================================

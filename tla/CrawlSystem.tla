---------------------------- MODULE CrawlSystem ----------------------------
(***************************************************************************)
(* The service of CrawlService running on the MemoryStore: two goroutines  *)
(* use one Go slice without a lock.  The receiver upserts into s.data;     *)
(* after wg.Wait main calls GetInterestSets, which returns s.data itself,  *)
(* and ranges over it while the receiver may still be inside its last      *)
(* upsert.  That is a data race; the module makes its outcomes visible.    *)
(*                                                                         *)
(* A slice is a header (array, length) and a backing array whose length is *)
(* the capacity.  An append to a full array moves to a larger one.  An     *)
(* upsert is a begin and an end.  Between them each word it stores may     *)
(* read old or new, in any combination: the compiled append stores the     *)
(* length before the entry, and nothing orders main's loads.  The words    *)
(* are the array pointer and the length of the slice, and, of the entry,   *)
(* pointer and length of its bank and of its type, which are all that the  *)
(* summary uses of it.  A slot appended to is zero until it is written.    *)
(* The program is built for amd64, whose stores become visible in order,   *)
(* and for arm64, where the entries that append has copied to a new array  *)
(* may still read as zero when the pointer to that array does not.         *)
(***************************************************************************)
EXTENDS CrawlService, InterestModel

CONSTANT MaxCap      \* bound on the capacity of a backing array

ASSUME MaxCapNat == MaxCap \in Nat
ASSUME StoreRaces == "race" \in StoreErrors
ASSUME SetsAreRates == \A s \in InterestSets : IsInterestSet(s) /\ s.bank # "torn"

VARIABLES
  arrays,    \* the backing arrays allocated so far
  header,    \* s.data: which array, and the length
  write,     \* the store the receiver is in the middle of
  slice,     \* interestSets, main's copy of the header
  summary,   \* bank and type of the entries main has counted so far
  machine    \* what the program was built for

storeVars  == <<arrays, header, write>>
readVars   == <<slice, summary>>
systemVars == <<vars, storeVars, readVars, machine>>

NoWrite == [array |-> 0, at |-> 0]
NoSlice == [array |-> 0, len |-> 0]

Zero    == [bank |-> "", type |-> ""]                 \* a slot no entry was written to
Garbage == [bank |-> "garbage", type |-> "garbage"]   \* memory past a backing array
Torn    == "torn"                                     \* a string's new length, and no pointer

Data  == SubSeq(arrays[header.array], 1, header.len)
InHand == arrivals[handled + 1].set                \* the receiver's loop variable

SystemInit ==
  /\ Init
  /\ arrays = << <<>> >>
  /\ header = [array |-> 1, len |-> 0]
  /\ write = NoWrite
  /\ slice = NoSlice
  /\ summary = <<>>
  /\ machine \in {"amd64", "arm64"}

-----------------------------------------------------------------------------
(* UpsertInterestSet in the receiver *)

\* Faulty variant: the entry is cleared before its fields are filled in.
ClearAndReplace ==
  /\ MatchesOf(Data, InHand) # {}
  /\ write' = [array |-> header.array, at |-> FirstMatch(Data, InHand)]
  /\ arrays' = [arrays EXCEPT ![header.array][FirstMatch(Data, InHand)] = Zero]

\* s.data[i] = set is about to be stored.
BeginReplace ==
  /\ MatchesOf(Data, InHand) # {}
  /\ write' = [array |-> header.array, at |-> FirstMatch(Data, InHand)]
  /\ UNCHANGED arrays

\* append finds room behind the last entry.
BeginAppendInPlace ==
  /\ MatchesOf(Data, InHand) = {}
  /\ header.len < Len(arrays[header.array])
  /\ write' = [array |-> header.array, at |-> header.len + 1]
  /\ UNCHANGED arrays

\* Faulty variant: the new array is not filled from the old one.
GrowWithoutCopy ==
  /\ MatchesOf(Data, InHand) = {}
  /\ header.len = Len(arrays[header.array])
  /\ \E cap \in header.len + 1 .. MaxCap :
       arrays' = Append(arrays, [i \in 1 .. cap |-> Zero])
  /\ write' = [array |-> Len(arrays) + 1, at |-> header.len + 1]

\* append finds the array full: the entries are copied to a larger, zeroed one.
BeginAppendGrowing ==
  /\ MatchesOf(Data, InHand) = {}
  /\ header.len = Len(arrays[header.array])
  /\ \E cap \in header.len + 1 .. MaxCap :
       arrays' = Append(arrays, Data \o [i \in 1 .. cap - header.len |-> Zero])
  /\ write' = [array |-> Len(arrays) + 1, at |-> header.len + 1]

BeginUpsert ==
  /\ Alive /\ recv = "upserting"
  /\ write = NoWrite
  /\ BeginReplace \/ BeginAppendInPlace \/ BeginAppendGrowing
  /\ UNCHANGED <<vars, header, readVars>>

\* Faulty variant: a replacement lengthens the slice too.
NewLenAlwaysGrows == header.len + 1

\* The length after the store that is under way.
NewLen == IF write.at > header.len THEN write.at ELSE header.len

\* All words are stored and UpsertInterestSet returns nil.
EndUpsert ==
  /\ write # NoWrite
  /\ UpsertReturns
  /\ arrays' = [arrays EXCEPT ![write.array][write.at] = InHand]
  /\ header' = [array |-> write.array, len |-> NewLen]
  /\ write' = NoWrite
  /\ UNCHANGED readVars

-----------------------------------------------------------------------------
(* GetInterestSets and the summary loop in main *)

Writing == write # NoWrite

\* return s.data, nil : first the pointer ...
ReadPointer ==
  /\ Alive /\ main = "reading"
  /\ slice.array = 0
  /\ \E a \in {header.array} \cup (IF Writing THEN {write.array} ELSE {}) :
       slice' = [slice EXCEPT !.array = a]
  /\ UNCHANGED <<vars, storeVars, summary>>

\* ... then the length; the call returns.
ReadLength ==
  /\ slice.array # 0
  /\ GetInterestSets
  /\ \E n \in {header.len} \cup (IF Writing THEN {NewLen} ELSE {}) :
       slice' = [slice EXCEPT !.len = n]
  /\ UNCHANGED <<storeVars, summary>>

\* The summary looks at the bank and the type of an entry.
LineOf(e) == [bank |-> e.bank, type |-> e.type]

\* What a string reads as while another is stored over it: the old one, the new one,
\* or the length of one with the pointer of the other.  That does no harm when the two
\* are equal, as they are when an entry is replaced by one of the same rate.
Words(old, new) == IF old = new THEN {new} ELSE {old, new, Torn}

Between(old, new) == [bank : Words(old.bank, new.bank), type : Words(old.type, new.type)]

\* On arm64 the copies in the array that an append has just made may not be seen yet.
Copying(a) == machine = "arm64" /\ Writing /\ a = write.array /\ a # header.array

\* What a load of entry i of array a can yield.
Loads(a, i) ==
  IF i > Len(arrays[a]) THEN {Garbage}
  ELSE IF write = [array |-> a, at |-> i] THEN Between(arrays[a][i], InHand)
  ELSE IF Copying(a) THEN Between(Zero, arrays[a][i])
  ELSE {LineOf(arrays[a][i])}

Ranging == Alive /\ main = "summarising" /\ Len(summary) < slice.len

Loaded == Loads(slice.array, Len(summary) + 1)

\* for _, is := range interestSets : one entry is counted in the summary, which hashes
\* its bank and its type.  Memory past the array may hold something to hash.
SummariseEntry ==
  /\ Ranging
  /\ \E line \in Loaded :
       /\ Torn \notin {line.bank, line.type}
       /\ summary' = Append(summary, line)
  /\ UNCHANGED <<vars, storeVars, slice>>

\* It may also hold nothing that can be read, and a torn string has no bytes at all:
\* hashing it faults, and nothing recovers.
EntryFaults ==
  /\ Ranging
  /\ \E line \in Loaded : line = Garbage \/ Torn \in {line.bank, line.type}
  /\ SummaryFaults
  /\ UNCHANGED <<storeVars, readVars>>

\* Faulty variant: the channel is closed before the summary is complete.
FinishEarly ==
  /\ CloseChannel
  /\ UNCHANGED <<storeVars, readVars>>

\* Faulty variant: Crawl returns without closing the channel.
FinishWithoutClose ==
  /\ Alive /\ main = "summarising"
  /\ Len(summary) = slice.len
  /\ main' = "returned"
  /\ UNCHANGED <<crawlerVars, recvVars, channel, seen, process, storeVars, readVars>>

\* The loop is over: log and close.
FinishSummary ==
  /\ Len(summary) = slice.len
  /\ CloseChannel
  /\ UNCHANGED <<storeVars, readVars>>

-----------------------------------------------------------------------------
\* The steps of the service that do not touch the store.  MemoryStore returns
\* no error, so the steps that handle one do not occur; but it is racy.
ServiceStep ==
  /\ \/ \E c \in Crawlers : SpawnCrawler(c) \/ CrawlerStep(c) \/ Rendezvous(c)
     \/ SpawnReceiver
     \/ WaitReturns
     \/ RangeEnds
     \/ Exit
     \/ Crash
     \/ Terminated
  /\ UNCHANGED <<storeVars, readVars>>

SystemStep ==
  \/ ServiceStep
  \/ BeginUpsert
  \/ EndUpsert
  \/ ReadPointer
  \/ ReadLength
  \/ SummariseEntry
  \/ EntryFaults
  \/ FinishSummary

SystemNext == SystemStep /\ UNCHANGED machine

SystemSpec == SystemInit /\ [][SystemNext]_systemVars

-----------------------------------------------------------------------------
(* Properties *)

\* Type invariant.
SystemTypeOK ==
  /\ TypeOK
  /\ header.array \in DOMAIN arrays /\ header.len \in 0 .. Len(arrays[header.array])
  /\ \A a \in DOMAIN arrays : \A i \in DOMAIN arrays[a] : arrays[a][i] \in InterestSets \cup {Zero}
  /\ Writing => write.array \in DOMAIN arrays /\ write.at \in DOMAIN arrays[write.array]
  /\ slice.array \in 0 .. Len(arrays) /\ slice.len \in 0 .. MaxCap
  /\ Len(summary) <= slice.len
  /\ machine \in {"amd64", "arm64"}

\* UpsertInterestSet as a function of the slice.
Upserted(d, set) == IF MatchesOf(d, set) # {} THEN [d EXCEPT ![FirstMatch(d, set)] = set]
                    ELSE Append(d, set)

\* The slices after 0, 1, ... of the sets that arrived, had each upsert been one step.
Slices(arrived) ==
  LET after[n \in 0 .. Len(arrived)] ==
        IF n = 0 THEN <<>> ELSE Upserted(after[n - 1], arrived[n].set)
  IN  after

DataAfter(n) == Slices(arrivals)[n]

\* The slice is at any time what it would be if each upsert were one step.
StoreIsSequential == Data = DataAfter(handled)

\* The slice before the last of the sets that arrived.
Before == DataAfter(IF arrivals = <<>> THEN 0 ELSE Len(arrivals) - 1)

\* However main's loads fall into the last upsert, a run that returns has counted
\* every entry from before that upsert, and at most one line more, which may be
\* blank, or of a bank nobody sent.  (An entry that is replaced keeps its bank
\* and type.)  On amd64 the entries from before are counted as what they are; on
\* arm64 their bank or type may be left blank.
SummaryOffByOneLine ==
  main = "returned" =>
    /\ Len(summary) \in {Len(Before), Len(Before) + 1}
    /\ \A i \in DOMAIN Before :
         \/ summary[i] = LineOf(Before[i])
         \/ /\ machine = "arm64"
            /\ summary[i] \in [bank : {Before[i].bank, Zero.bank}, type : {Before[i].type, Zero.type}]

\* The race can end the process: main finds half a string, or memory past the
\* array.  But a run that did not end by a panic can only have ended like this when
\* the last set that arrived was a new entry, and on amd64 only at that entry, with
\* all others counted.  A set that replaces an entry never does it.
FaultOnlyAtAppend ==
  process = "crashed" =>
    \/ \E c \in Crawlers : crawler[c] = "panicking"
    \/ /\ main = "summarising"
       /\ arrivals # <<>>
       /\ MatchesOf(Before, arrivals[Len(arrivals)].set) = {}
       /\ machine = "amd64" => Len(summary) = Len(Before)

\* The system is a CrawlService with a store that races: the store's steps are steps
\* of the service or invisible to it, and an entry that faults is SummaryFaults.
Service == INSTANCE CrawlService
ImplementsCrawlService == Service!Spec

\* And it is a MemoryStore, in which an upsert is one step: splitting it, growing
\* the array and main's unlocked reads never change what the receiver stores.
Applied == [i \in 1 .. handled |-> arrivals[i].set]

Store == INSTANCE MemoryStore
  WITH data <- Data, upserts <- Applied, Sets <- InterestSets,
       MaxUpserts <- Cardinality(Crawlers) * MaxSends
ImplementsMemoryStore == Store!Spec
=============================================================================

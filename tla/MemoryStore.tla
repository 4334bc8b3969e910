---------------------------- MODULE MemoryStore ----------------------------
(***************************************************************************)
(* internal/pkg/store/memory.go: a slice of interest sets.  The upsert     *)
(* scans it from the front, replaces the first entry that already exists   *)
(* in place, and otherwise appends.  One caller at a time (the receiver);  *)
(* CrawlSystem.tla is about the second one.                                *)
(***************************************************************************)
EXTENDS InterestModel

CONSTANTS Sets,         \* the interest sets that may be upserted
          MaxUpserts    \* bound on the number of upserts

ASSUME SetsAreInterestSets == \A s \in Sets : IsInterestSet(s)
ASSUME MaxUpsertsNat == MaxUpserts \in Nat

VARIABLES data,         \* s.data
          upserts       \* every set handed to UpsertInterestSet so far, in order

vars == <<data, upserts>>

Init == data = <<>> /\ upserts = <<>>

\* Faulty variant: the entry that exists is kept.
ReplaceNothing(set) ==
  /\ MatchesOf(data, set) # {}
  /\ UNCHANGED data

\* Faulty variant: the index of the match is lost.
ReplaceAtFront(set) ==
  /\ MatchesOf(data, set) # {}
  /\ data' = [data EXCEPT ![1] = set]

\* UpsertInterestSet finds an entry: s.data[i] = set
Replace(set) ==
  /\ MatchesOf(data, set) # {}
  /\ data' = [data EXCEPT ![FirstMatch(data, set)] = set]

\* Faulty variant: the scan does not return after the replacement.
AppendAlways(set) ==
  data' = Append(data, set)

\* Faulty variant: the append stands inside the scan.
AppendInLoop(set) ==
  /\ MatchesOf(data, set) = {}
  /\ data' = data \o [i \in 1 .. IF data = <<>> THEN 1 ELSE Len(data) |-> set]

\* UpsertInterestSet finds none: s.data = append(s.data, set)
AppendNew(set) ==
  /\ MatchesOf(data, set) = {}
  /\ data' = Append(data, set)

UpsertInterestSet(set) ==
  /\ Len(upserts) < MaxUpserts
  /\ upserts' = Append(upserts, set)
  /\ Replace(set) \/ AppendNew(set)

Next == \E set \in Sets : UpsertInterestSet(set)

Spec == Init /\ [][Next]_vars

-----------------------------------------------------------------------------
\* Type invariant; the slice never outgrows the upserts.
TypeOK ==
  /\ data \in Seq(Sets)
  /\ upserts \in Seq(Sets)
  /\ Len(data) <= Len(upserts) /\ Len(upserts) <= MaxUpserts

Distinct(d) == \A i, j \in DOMAIN d : AlreadyExists(d[i], d[j]) => i = j

\* No two entries of the slice are the same rate: the scan, which stops at the
\* first match, never leaves a second, stale one behind.
NoDuplicates == Distinct(data)

\* The latest answer is the one that is stored: a set is in the slice unless a
\* later upsert was about the same rate.  (An average without a reference month
\* is the same rate as no other, and each of them is kept.)
LatestWins ==
  \A n \in DOMAIN upserts :
    (\A m \in DOMAIN upserts : m > n => ~AlreadyExists(upserts[n], upserts[m]))
      => \E i \in DOMAIN data : data[i] = upserts[n]

\* A step property: an upsert rewrites at most one entry, and that one with a
\* set of the same bank, type, term and month; every other keeps its place.
OthersUntouched ==
  [][\A i \in DOMAIN data :
       /\ i \in DOMAIN data'
       /\ data'[i] # data[i] => AlreadyExists(data[i], data'[i])
       /\ \A j \in DOMAIN data : data'[i] # data[i] /\ data'[j] # data[j] => i = j]_vars

\* A slice read as a table, and its entries without a key.
Keyed(d) == {i \in DOMAIN d : HasKey(d[i])}

TableOf(d) == [k \in {Key(d[i]) : i \in Keyed(d)} |-> d[CHOOSE i \in Keyed(d) : Key(d[i]) = k]]

LooseOf(d) == {<<i, d[i]>> : i \in DOMAIN d \ Keyed(d)}

Abstract == INSTANCE RateStore WITH asked <- upserts, table <- TableOf(data),
                                    loose <- LooseOf(data), Tickets <- 1 .. MaxUpserts

\* The slice, read as a table, behaves as the store of RateStore: the latest set
\* of a key wins, and nothing else is lost.
ImplementsRateStore == Abstract!Spec

-----------------------------------------------------------------------------
(* What the repository says of the program, and the code does not keep *)

\* The same offer: all of the set but its rate is equal.
SameOffer(a, b) ==
  a.bank = b.bank /\ a.type = b.type /\ a.term = b.term /\ a.month = b.month /\ a.ratio = b.ratio

\* README.md:3-5: rates are stored because other sites "don't take offered
\* loan-to-value-ratio discounts into account": an offer for one loan-to-value
\* tier stays in the store when the offer for another tier is upserted.
TiersKept ==
  \A n \in DOMAIN upserts :
    upserts[n].type = "ratioDiscountedRate" =>
      \E i \in DOMAIN data : SameOffer(data[i], upserts[n])
=============================================================================

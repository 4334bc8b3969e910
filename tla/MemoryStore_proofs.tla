------------------------- MODULE MemoryStore_proofs -------------------------
(***************************************************************************)
(* Proofs about MemoryStore for any sets and any number of upserts: the    *)
(* slice never holds two entries for one rate, and read as a table it is   *)
(* the store of RateStore.  The first fact carries the second: because at  *)
(* most one entry matches, the entry the scan finds first is the only one. *)
(***************************************************************************)
EXTENDS MemoryStore, SequenceTheorems, TLAPS

\* alreadyExists compares keys, and never matches an entry without one.
LEMMA SameKey == \A a, b : AlreadyExists(a, b) <=> HasKey(a) /\ HasKey(b) /\ Key(a) = Key(b)
BY DEF AlreadyExists, HasKey, Key

\* In a slice without duplicates at most one entry matches a set.
LEMMA UniqueMatch ==
  ASSUME TypeOK, NoDuplicates, NEW set, MatchesOf(data, set) # {}
  PROVE  /\ FirstMatch(data, set) \in DOMAIN data
         /\ MatchesOf(data, set) = {FirstMatch(data, set)}
         /\ AlreadyExists(data[FirstMatch(data, set)], set)
<1>1. PICK i \in MatchesOf(data, set) : TRUE
  OBVIOUS
<1>2. i \in DOMAIN data /\ AlreadyExists(data[i], set)
  BY <1>1 DEF MatchesOf
<1>3. ASSUME NEW j \in MatchesOf(data, set) PROVE j = i
  <2>1. j \in DOMAIN data /\ AlreadyExists(data[j], set)
    BY DEF MatchesOf
  <2>2. AlreadyExists(data[i], data[j])
    BY <1>2, <2>1, SameKey
  <2> QED
    BY <1>2, <2>1, <2>2 DEF NoDuplicates, Distinct
<1>4. DOMAIN data \subseteq Nat
  BY LenProperties DEF TypeOK
<1>5. \A j \in MatchesOf(data, set) : i <= j
  BY <1>2, <1>3, <1>4
<1>6. FirstMatch(data, set) = i
  BY <1>1, <1>3, <1>5 DEF FirstMatch
<1> QED
  BY <1>1, <1>2, <1>3, <1>6

\* The two outcomes of an upsert, entry by entry.
ReplacesAt(i, set) ==
  /\ i \in DOMAIN data
  /\ AlreadyExists(data[i], set)
  /\ data' = [data EXCEPT ![i] = set]
  /\ DOMAIN data' = DOMAIN data
  /\ data'[i] = set
  /\ \A j \in DOMAIN data : j # i => data'[j] = data[j]

AppendsLast(n, set) ==
  /\ n = Len(data) + 1
  /\ n \notin DOMAIN data
  /\ \A i \in DOMAIN data : ~AlreadyExists(data[i], set)
  /\ data' = Append(data, set)
  /\ DOMAIN data' = DOMAIN data \cup {n}
  /\ data'[n] = set
  /\ \A j \in DOMAIN data : data'[j] = data[j]

\* An upsert has one of them.
LEMMA UpsertEffect ==
  ASSUME TypeOK, NoDuplicates, NEW set \in Sets, UpsertInterestSet(set)
  PROVE  (\E i \in DOMAIN data : ReplacesAt(i, set)) \/ AppendsLast(Len(data) + 1, set)
<1>0. data \in Seq(Sets) /\ DOMAIN data = 1 .. Len(data) /\ Len(data) \in Nat
  BY LenProperties DEF TypeOK
<1>1. CASE Replace(set)
  <2> DEFINE i == FirstMatch(data, set)
  <2>1. i \in DOMAIN data /\ AlreadyExists(data[i], set)
    BY <1>1, UniqueMatch DEF Replace
  <2>2. data' = [data EXCEPT ![i] = set]
    BY <1>1 DEF Replace
  <2>3. ReplacesAt(i, set)
    BY <1>0, <2>1, <2>2 DEF ReplacesAt
  <2> QED
    BY <2>1, <2>3
<1>2. CASE AppendNew(set)
  <2>1. data' = Append(data, set) /\ MatchesOf(data, set) = {}
    BY <1>2 DEF AppendNew
  <2>2. \A i \in DOMAIN data : ~AlreadyExists(data[i], set)
    BY <2>1 DEF MatchesOf
  <2>3. /\ Len(data') = Len(data) + 1
        /\ data'[Len(data) + 1] = set
        /\ \A j \in 1 .. Len(data) : data'[j] = data[j]
        /\ data' \in Seq(Sets)
    BY <1>0, <2>1, AppendProperties
  <2>4. DOMAIN data' = 1 .. (Len(data) + 1)
    BY <2>3, LenProperties
  <2>5. DOMAIN data' = DOMAIN data \cup {Len(data) + 1} /\ Len(data) + 1 \notin DOMAIN data
    BY <1>0, <2>4
  <2>6. AppendsLast(Len(data) + 1, set)
    BY <1>0, <2>1, <2>2, <2>3, <2>5 DEF AppendsLast
  <2> QED
    BY <2>6
<1> QED
  BY <1>1, <1>2 DEF UpsertInterestSet

Inv == TypeOK /\ NoDuplicates

\* The empty slice.
LEMMA InitInv == Init => Inv
BY EmptySeq, MaxUpsertsNat DEF Init, Inv, TypeOK, NoDuplicates, Distinct

\* An upsert keeps types and leaves no second entry of a rate behind.
LEMMA NextInv == Inv /\ [Next]_vars => Inv'
<1> SUFFICES ASSUME Inv, [Next]_vars PROVE Inv'
  OBVIOUS
<1>1. CASE UNCHANGED vars
  BY <1>1 DEF vars, Inv, TypeOK, NoDuplicates, Distinct
<1>2. ASSUME NEW set \in Sets, UpsertInterestSet(set) PROVE Inv'
  <2>0. /\ data \in Seq(Sets) /\ upserts \in Seq(Sets)
        /\ Len(data) \in Nat /\ Len(upserts) \in Nat
        /\ Len(data) <= Len(upserts) /\ Len(upserts) < MaxUpserts
    BY <1>2, LenProperties DEF Inv, TypeOK, UpsertInterestSet
  <2>1. upserts' \in Seq(Sets) /\ Len(upserts') = Len(upserts) + 1
    BY <1>2, <2>0, AppendProperties DEF UpsertInterestSet
  <2>2. ASSUME NEW i \in DOMAIN data, ReplacesAt(i, set) PROVE Inv'
    <3>1. TypeOK'
      <4>1. data' \in Seq(Sets) /\ Len(data') = Len(data)
        BY <2>0, <2>2, ExceptSeq DEF ReplacesAt
      <4> QED
        BY <2>0, <2>1, <4>1, MaxUpsertsNat DEF TypeOK
    <3>2. NoDuplicates'
      BY <2>2, SameKey DEF Inv, NoDuplicates, Distinct, ReplacesAt
    <3> QED
      BY <3>1, <3>2 DEF Inv
  <2>3. CASE AppendsLast(Len(data) + 1, set)
    <3>1. TypeOK'
      <4>1. data' \in Seq(Sets) /\ Len(data') = Len(data) + 1
        BY <2>0, <2>3, AppendProperties DEF AppendsLast
      <4> QED
        BY <2>0, <2>1, <4>1, MaxUpsertsNat DEF TypeOK
    <3>2. NoDuplicates'
      BY <2>3, SameKey DEF Inv, NoDuplicates, Distinct, AppendsLast
    <3> QED
      BY <3>1, <3>2 DEF Inv
  <2> QED
    BY <1>2, <2>2, <2>3, UpsertEffect DEF Inv
<1> QED
  BY <1>1, <1>2 DEF Next

\* The invariant holds throughout.
THEOREM Invariance == Spec => []Inv
BY InitInv, NextInv, PTL DEF Spec

\* The slice holds the sets that came and no more entries than upserts.
THEOREM StoreTypeCorrect == Spec => []TypeOK
<1>1. Inv => TypeOK
  BY DEF Inv
<1> QED
  BY <1>1, Invariance, PTL

\* The slice never holds two entries for the same rate.
THEOREM SliceHasNoDuplicates == Spec => []NoDuplicates
<1>1. Inv => NoDuplicates
  BY DEF Inv
<1> QED
  BY Invariance, <1>1, PTL

-----------------------------------------------------------------------------
\* An upsert adds its set, and takes away only entries of the same rate.
LEMMA UpsertKeepsOthers ==
  ASSUME Inv, NEW set \in Sets, UpsertInterestSet(set)
  PROVE  /\ \E i \in DOMAIN data' : data'[i] = set
         /\ \A i \in DOMAIN data : ~AlreadyExists(data[i], set) =>
              i \in DOMAIN data' /\ data'[i] = data[i]
<1>1. ASSUME NEW i \in DOMAIN data, ReplacesAt(i, set)
      PROVE  /\ data'[i] = set /\ DOMAIN data' = DOMAIN data
             /\ \A j \in DOMAIN data : ~AlreadyExists(data[j], set) => data'[j] = data[j]
  BY <1>1 DEF ReplacesAt
<1>2. CASE AppendsLast(Len(data) + 1, set)
  BY <1>2 DEF AppendsLast
<1> QED
  BY <1>1, <1>2, UpsertEffect DEF Inv

\* A set stays in the slice until an upsert of the same rate takes its place.
THEOREM LatestSetIsStored == Spec => []LatestWins
<1>1. Init => LatestWins
  BY DEF Init, LatestWins
<1>2. Inv /\ LatestWins /\ [Next]_vars => LatestWins'
  <2> SUFFICES ASSUME Inv, LatestWins, [Next]_vars PROVE LatestWins'
    OBVIOUS
  <2>1. CASE UNCHANGED vars
    BY <2>1 DEF vars, LatestWins
  <2>2. ASSUME NEW set \in Sets, UpsertInterestSet(set) PROVE LatestWins'
    <3> DEFINE len == Len(upserts)
    <3>1. /\ len \in Nat /\ DOMAIN upserts = 1 .. len
          /\ DOMAIN upserts' = 1 .. len + 1
          /\ upserts'[len + 1] = set
          /\ \A n \in 1 .. len : upserts'[n] = upserts[n]
      BY <2>2, LenProperties, AppendProperties DEF Inv, TypeOK, UpsertInterestSet
    <3>2. /\ \E i \in DOMAIN data' : data'[i] = set
          /\ \A i \in DOMAIN data : ~AlreadyExists(data[i], set) =>
               i \in DOMAIN data' /\ data'[i] = data[i]
      BY <2>2, UpsertKeepsOthers
    <3>3. ASSUME NEW n \in 1 .. len,
                 \A m \in 1 .. len + 1 : m > n => ~AlreadyExists(upserts'[n], upserts'[m])
          PROVE  \E i \in DOMAIN data' : data'[i] = upserts'[n]
      <4>1. \A m \in DOMAIN upserts : m > n => ~AlreadyExists(upserts[n], upserts[m])
        BY <3>1, <3>3
      <4>2. PICK i \in DOMAIN data : data[i] = upserts[n]
        BY <3>1, <4>1 DEF LatestWins
      <4>3. ~AlreadyExists(upserts[n], set)
        BY <3>1, <3>3
      <4> QED
        BY <3>1, <3>2, <4>2, <4>3
    <3>4. \A n \in 1 .. len + 1 : n = len + 1 \/ n \in 1 .. len
      BY <3>1
    <3> QED
      BY <3>1, <3>2, <3>3, <3>4 DEF LatestWins
  <2> QED
    BY <2>1, <2>2 DEF Next
<1> QED
  BY Invariance, <1>1, <1>2, PTL DEF Spec

-----------------------------------------------------------------------------
\* An upsert rewrites at most one entry, with a set of the same rate.
THEOREM UpsertIsLocal == Spec => OthersUntouched
<1> DEFINE Local ==
      \A i \in DOMAIN data :
        /\ i \in DOMAIN data'
        /\ data'[i] # data[i] => AlreadyExists(data[i], data'[i])
        /\ \A j \in DOMAIN data : data'[i] # data[i] /\ data'[j] # data[j] => i = j
<1>1. ASSUME Inv, NEW set \in Sets, UpsertInterestSet(set) PROVE Local
  <2>1. ASSUME NEW i \in DOMAIN data, ReplacesAt(i, set) PROVE Local
    BY <2>1 DEF ReplacesAt
  <2>2. CASE AppendsLast(Len(data) + 1, set)
    BY <2>2 DEF AppendsLast
  <2> QED
    BY <1>1, <2>1, <2>2, UpsertEffect DEF Inv
<1>2. Inv /\ [Next]_vars => [Local]_vars
  BY <1>1 DEF Next
<1> QED
  BY Invariance, <1>2, PTL DEF Spec, OthersUntouched

-----------------------------------------------------------------------------
\* The table read off a slice: a key is there when an entry has it, and then its
\* value is that entry.
LEMMA TableLookup ==
  ASSUME NEW d, Distinct(d)
  PROVE  /\ DOMAIN TableOf(d) = {Key(d[i]) : i \in Keyed(d)}
         /\ \A i \in Keyed(d) : TableOf(d)[Key(d[i])] = d[i]
<1>1. ASSUME NEW i \in Keyed(d), NEW j \in Keyed(d), Key(d[i]) = Key(d[j]) PROVE i = j
  BY <1>1, SameKey DEF Keyed, Distinct
<1>2. ASSUME NEW i \in Keyed(d) PROVE (CHOOSE j \in Keyed(d) : Key(d[j]) = Key(d[i])) = i
  BY <1>1
<1> QED
  BY <1>2 DEF TableOf

\* Replacing an entry puts its set in the table and leaves the loose ones alone.
LEMMA ReplaceIsPut ==
  ASSUME NoDuplicates, NoDuplicates', NEW set \in Sets, NEW i \in DOMAIN data, ReplacesAt(i, set)
  PROVE  Abstract!Put(set)
<1> DEFINE K == Keyed(data)
           T == TableOf(data)
           D == DOMAIN T \cup {Key(set)}
<1>1. HasKey(set) /\ HasKey(data[i]) /\ Key(data[i]) = Key(set)
  BY SameKey DEF ReplacesAt
<1>2. Keyed(data') = K /\ i \in K
  BY <1>1 DEF Keyed, ReplacesAt
<1>3. \A j \in K : Key(data'[j]) = Key(data[j]) /\ (j # i => data'[j] = data[j])
  BY <1>1 DEF Keyed, ReplacesAt
<1>4. DOMAIN T = {Key(data[j]) : j \in K} /\ \A j \in K : T[Key(data[j])] = data[j]
  BY TableLookup DEF NoDuplicates
<1>5. /\ DOMAIN TableOf(data') = {Key(data'[j]) : j \in K}
      /\ \A j \in K : TableOf(data')[Key(data'[j])] = data'[j]
  BY <1>2, TableLookup DEF NoDuplicates
<1>6. DOMAIN TableOf(data') = D
  BY <1>1, <1>2, <1>3, <1>4, <1>5
<1>7. ASSUME NEW k \in D PROVE TableOf(data')[k] = IF k = Key(set) THEN set ELSE T[k]
  <2>1. PICK j \in K : k = Key(data[j])
    BY <1>1, <1>2, <1>4
  <2>2. TableOf(data')[k] = data'[j]
    BY <1>3, <1>5, <2>1
  <2>3. CASE j = i
    BY <1>1, <2>1, <2>2, <2>3 DEF ReplacesAt
  <2>4. CASE j # i
    <3>1. data'[j] = data[j] /\ T[k] = data[j]
      BY <1>3, <1>4, <2>1, <2>4
    <3>2. k # Key(set)
      BY <1>1, <2>1, <2>4, SameKey DEF Keyed, NoDuplicates, Distinct
    <3> QED
      BY <2>2, <3>1, <3>2
  <2> QED
    BY <2>3, <2>4
<1>8. TableOf(data') = [k \in D |-> IF k = Key(set) THEN set ELSE T[k]]
  <2> DEFINE F(k) == IF k = Key(set) THEN set ELSE T[k]
  <2>1. DOMAIN TableOf(data') = D /\ \A k \in D : TableOf(data')[k] = F(k)
    BY <1>6, <1>7
  <2> HIDE DEF F, D
  <2>2. TableOf(data') = [k \in D |-> F(k)]
    BY <2>1 DEF TableOf
  <2> QED
    BY <2>2 DEF F
<1>9. LooseOf(data') = LooseOf(data)
  BY <1>1, <1>2 DEF LooseOf, Keyed, ReplacesAt
<1>10. Abstract!HasKey(set) /\ Abstract!Key(set) = Key(set)
  BY <1>1 DEF HasKey, Key, NoMonth, Abstract!HasKey, Abstract!Key, Abstract!NoMonth
<1> QED
  BY <1>8, <1>9, <1>10 DEF Abstract!Put

\* Appending a set with a key makes a new key in the table.
LEMMA AppendIsPut ==
  ASSUME NoDuplicates, NoDuplicates', NEW set \in Sets, NEW n, AppendsLast(n, set), HasKey(set)
  PROVE  Abstract!Put(set)
<1> DEFINE K == Keyed(data)
           T == TableOf(data)
           D == DOMAIN T \cup {Key(set)}
<1>1. Keyed(data') = K \cup {n} /\ n \notin K
  BY DEF Keyed, AppendsLast
<1>2. data'[n] = set /\ \A j \in K : data'[j] = data[j] /\ Key(data[j]) # Key(set)
  BY SameKey DEF Keyed, AppendsLast
<1>3. DOMAIN T = {Key(data[j]) : j \in K} /\ \A j \in K : T[Key(data[j])] = data[j]
  BY TableLookup DEF NoDuplicates
<1>4. /\ DOMAIN TableOf(data') = {Key(data'[j]) : j \in K \cup {n}}
      /\ \A j \in K \cup {n} : TableOf(data')[Key(data'[j])] = data'[j]
  BY <1>1, TableLookup DEF NoDuplicates
<1>5. DOMAIN TableOf(data') = D
  BY <1>2, <1>3, <1>4
<1>6. ASSUME NEW k \in D PROVE TableOf(data')[k] = IF k = Key(set) THEN set ELSE T[k]
  <2>1. CASE k = Key(set)
    BY <1>2, <1>4, <2>1
  <2>2. CASE k # Key(set)
    <3>1. PICK j \in K : k = Key(data[j])
      BY <1>3, <2>2
    <3> QED
      BY <1>2, <1>3, <1>4, <2>2, <3>1
  <2> QED
    BY <2>1, <2>2
<1>7. TableOf(data') = [k \in D |-> IF k = Key(set) THEN set ELSE T[k]]
  <2> DEFINE F(k) == IF k = Key(set) THEN set ELSE T[k]
  <2>1. DOMAIN TableOf(data') = D /\ \A k \in D : TableOf(data')[k] = F(k)
    BY <1>5, <1>6
  <2> HIDE DEF F, D
  <2>2. TableOf(data') = [k \in D |-> F(k)]
    BY <2>1 DEF TableOf
  <2> QED
    BY <2>2 DEF F
<1>8. LooseOf(data') = LooseOf(data)
  BY <1>1 DEF LooseOf, Keyed, AppendsLast
<1>9. Abstract!HasKey(set) /\ Abstract!Key(set) = Key(set)
  BY DEF HasKey, Key, NoMonth, Abstract!HasKey, Abstract!Key, Abstract!NoMonth
<1> QED
  BY <1>7, <1>8, <1>9 DEF Abstract!Put

\* Appending a set without a key adds a loose entry; its place in the slice is a
\* ticket nobody has.
LEMMA AppendIsAdd ==
  ASSUME NEW set \in Sets, NEW n \in 1 .. MaxUpserts, AppendsLast(n, set), ~HasKey(set)
  PROVE  Abstract!Add(set)
<1>1. Keyed(data') = Keyed(data)
  BY DEF Keyed, AppendsLast
<1>2. TableOf(data') = TableOf(data)
  <2> DEFINE K == Keyed(data)
             S == {Key(data[i]) : i \in K}
             A(k) == data'[CHOOSE i \in K : Key(data'[i]) = k]
             B(k) == data[CHOOSE i \in K : Key(data[i]) = k]
  <2>1. \A i \in K : data'[i] = data[i]
    BY DEF Keyed, AppendsLast
  <2>2. {Key(data'[i]) : i \in K} = S
    BY <2>1
  <2>3. ASSUME NEW k \in S PROVE A(k) = B(k)
    <3>1. (CHOOSE i \in K : Key(data'[i]) = k) = (CHOOSE i \in K : Key(data[i]) = k)
      BY <2>1
    <3>2. (CHOOSE i \in K : Key(data[i]) = k) \in K
      OBVIOUS
    <3> QED
      BY <2>1, <3>1, <3>2
  <2>4. TableOf(data) = [k \in S |-> B(k)]
    BY DEF TableOf
  <2>5. TableOf(data') = [k \in {Key(data'[i]) : i \in K} |-> A(k)]
    BY <1>1 DEF TableOf
  <2> HIDE DEF S, A, B
  <2> QED
    BY <2>2, <2>3, <2>4, <2>5
<1>3. LooseOf(data') = LooseOf(data) \cup {<<n, set>>}
  BY <1>1 DEF LooseOf, Keyed, AppendsLast
<1>4. \A p \in LooseOf(data) : p[1] # n
  BY DEF LooseOf, AppendsLast
<1>5. ~Abstract!HasKey(set)
  BY DEF HasKey, NoMonth, Abstract!HasKey, Abstract!NoMonth
<1> QED
  BY <1>2, <1>3, <1>4, <1>5 DEF Abstract!Add

\* The slice, read as a table, is the store that RateStore describes.
THEOREM MemoryStoreImplementsRateStore == Spec => ImplementsRateStore
<1>1. Init => Abstract!Init
  <2> SUFFICES ASSUME Init PROVE Abstract!Init
    OBVIOUS
  <2>1. DOMAIN data = {}
    BY DEF Init
  <2>2. TableOf(data) = [k \in {} |-> 0]
    BY <2>1 DEF TableOf, Keyed
  <2>3. LooseOf(data) = {}
    BY <2>1 DEF LooseOf, Keyed
  <2> QED
    BY <2>2, <2>3 DEF Init, Abstract!Init
<1>2. ASSUME Inv, Inv', NEW set \in Sets, UpsertInterestSet(set)
      PROVE  Abstract!Next
  <2> DEFINE n == Len(data) + 1
  <2>1. n \in 1 .. MaxUpserts
    BY <1>2, MaxUpsertsNat, LenProperties DEF Inv, TypeOK, UpsertInterestSet
  <2>2. (\E i \in DOMAIN data : ReplacesAt(i, set)) \/ AppendsLast(n, set)
    BY <1>2, UpsertEffect DEF Inv
  <2>3. NoDuplicates /\ NoDuplicates'
    BY <1>2 DEF Inv
  <2>4. Abstract!Put(set) \/ Abstract!Add(set)
    BY <2>1, <2>2, <2>3, ReplaceIsPut, AppendIsPut, AppendIsAdd
  <2>5. upserts' = Append(upserts, set)
    BY <1>2 DEF UpsertInterestSet
  <2> QED
    BY <2>4, <2>5 DEF Abstract!Next
<1>3. Inv /\ Inv' /\ [Next]_vars
        => [Abstract!Next]_<<upserts, TableOf(data), LooseOf(data)>>
  BY <1>2 DEF Next, vars
<1> QED
  BY Invariance, <1>1, <1>3, PTL DEF Spec, ImplementsRateStore, Abstract!Spec
=============================================================================

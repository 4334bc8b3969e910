-------------------------- MODULE SequenceLemmas --------------------------
(***************************************************************************)
(* What the proofs about sequences share: induction up to a bound,         *)
(* functions defined by recursion, and FlattenSeq.                         *)
(*                                                                         *)
(* The induction theorems of the library take an operator as a parameter,  *)
(* which the provers cannot instantiate; here the property is a set of     *)
(* numbers, and the step of a recursion a function.                        *)
(***************************************************************************)
EXTENDS Integers, SequencesExt, SequenceTheorems, NaturalsInduction, WellFoundedInduction, TLAPS


\* A set of naturals that is not empty has a least element.
LEMMA LeastNatural ==
  ASSUME NEW T \in SUBSET Nat, T # {}
  PROVE  \E n \in T : \A m \in T : n <= m
<1> DEFINE R == OpToRel(<, Nat)
<1>1. IsWellFoundedOn(R, Nat)
  BY NatLessThanWellFounded
<1>3. \A x, y \in Nat : <<x, y>> \in R <=> x < y
  BY DEF OpToRel
<1> HIDE DEF R
<1>2. PICK n \in T : \A m \in T : <<m, n>> \notin R
  BY <1>1, WFMin
<1>4. ASSUME NEW m \in T PROVE n <= m
  <2>1. ~(m < n)
    BY <1>2, <1>3
  <2> QED
    BY <2>1
<1> QED
  BY <1>4

\* Induction up to a bound, on the set of the numbers that have the property.
LEMMA InductionUpTo ==
  ASSUME NEW N \in Nat, NEW T, 0 \in T,
         \A n \in 0 .. N - 1 : n \in T => n + 1 \in T
  PROVE  0 .. N \subseteq T
<1> SUFFICES ASSUME ~(0 .. N \subseteq T) PROVE FALSE
  OBVIOUS
<1> DEFINE bad == (0 .. N) \ T
<1>1. PICK n \in bad : \A m \in bad : n <= m
  <2>1. bad \in SUBSET Nat /\ bad # {}
    OBVIOUS
  <2> QED
    BY <2>1, LeastNatural
<1>2. n # 0 /\ n - 1 \in 0 .. N - 1
  BY <1>1
<1>3. n - 1 \in T
  BY <1>1, <1>2
<1> QED
  BY <1>1, <1>2, <1>3

-----------------------------------------------------------------------------
\* The recursion f[0] = x0, f[n + 1] = G(f[n], n + 1) up to N.
Recursion(f, N, X, x0, G) ==
  /\ f[0] = x0 /\ \A n \in 0 .. N : f[n] \in X
  /\ \A n \in 0 .. N - 1 : f[n + 1] = G[<<f[n], n + 1>>]

\* A recursion whose step stays in a set has a solution, in that set.
LEMMA RecursionHasSolution ==
  ASSUME NEW N \in Nat, NEW X, NEW x0 \in X, NEW G \in [X \X (1 .. N) -> X]
  PROVE  \E f : Recursion(f, N, X, x0, G)
<1> DEFINE Solves(f, m) == /\ f[0] = x0 /\ \A n \in 0 .. m : f[n] \in X
                           /\ \A n \in 0 .. m - 1 : f[n + 1] = G[<<f[n], n + 1>>]
           T == {m \in 0 .. N : \E f : Solves(f, m)}
<1>1. 0 \in T
  <2>1. Solves([n \in 0 .. 0 |-> x0], 0)
    OBVIOUS
  <2>2. \E f : Solves(f, 0)
    <3> HIDE DEF Solves
    <3> QED
      BY <2>1
  <2> QED
    BY <2>2
<1>2. ASSUME NEW m \in 0 .. N - 1, m \in T PROVE m + 1 \in T
  <2>1. PICK f : Solves(f, m)
    BY <1>2
  <2>2. f[m] \in X /\ m + 1 \in 1 .. N
    BY <2>1
  <2>3. G[<<f[m], m + 1>>] \in X
    BY <2>2
  <2> DEFINE e == [n \in 0 .. m + 1 |-> IF n = m + 1 THEN G[<<f[m], m + 1>>] ELSE f[n]]
  <2>4. \A n \in 0 .. m : e[n] = f[n]
    OBVIOUS
  <2>5. e[m + 1] = G[<<f[m], m + 1>>]
    OBVIOUS
  <2> HIDE DEF e
  <2>6. \A n \in 0 .. m + 1 : e[n] \in X
    BY <2>1, <2>3, <2>4, <2>5
  <2>7. ASSUME NEW n \in 0 .. m PROVE e[n + 1] = G[<<e[n], n + 1>>]
    <3>1. CASE n = m
      BY <2>4, <2>5, <3>1
    <3>2. CASE n # m
      <4>1. n \in 0 .. m - 1 /\ n + 1 \in 0 .. m
        BY <3>2
      <4>2. f[n + 1] = G[<<f[n], n + 1>>]
        BY <2>1, <4>1
      <4> QED
        BY <2>4, <4>1, <4>2
    <3> QED
      BY <3>1, <3>2
  <2>8. Solves(e, m + 1)
    BY <2>1, <2>4, <2>6, <2>7
  <2>9. m + 1 \in 0 .. N
    OBVIOUS
  <2> HIDE DEF Solves
  <2> QED
    BY <2>8, <2>9
<1>3. N \in T
  <2> HIDE DEF T
  <2>1. 0 .. N \subseteq T
    BY <1>1, <1>2, InductionUpTo
  <2> QED
    BY <2>1
<1> QED
  BY <1>3 DEF Recursion
-----------------------------------------------------------------------------
\* FlattenSeq by its recursion: the concatenation of all but the last, and the last.
LEMMA FlattenDef ==
  ASSUME NEW S, NEW ss \in Seq(Seq(S)), ss # <<>>
  PROVE  \E f : /\ f[1] = ss[1] /\ \A n \in 1 .. Len(ss) : f[n] \in Seq(S)
                /\ \A n \in 1 .. Len(ss) - 1 : f[n + 1] = f[n] \o ss[n + 1]
                /\ FlattenSeq(ss) = f[Len(ss)]
<1> DEFINE N == Len(ss)
           F(f) == [i \in 1 .. N |-> IF i = 1 THEN ss[i] ELSE f[i - 1] \o ss[i]]
           d == CHOOSE f : f = F(f)
<1>1. N \in Nat /\ N # 0 /\ \A n \in 1 .. N : ss[n] \in Seq(S)
  BY EmptySeq, LenProperties, ElementOfSeq
<1>2. FlattenSeq(ss) = d[N]
  BY <1>1 DEF FlattenSeq
<1> DEFINE G == [p \in Seq(S) \X (1 .. N) |-> p[1] \o ss[p[2]]]
<1>3. \A x \in Seq(S), n \in 1 .. N : G[<<x, n>>] = x \o ss[n]
  OBVIOUS
<1>4. G \in [Seq(S) \X (1 .. N) -> Seq(S)]
  <2>1. ASSUME NEW p \in Seq(S) \X (1 .. N) PROVE p[1] \o ss[p[2]] \in Seq(S)
    BY <1>1, ConcatProperties
  <2> QED
    BY <2>1
<1>5. <<>> \in Seq(S)
  OBVIOUS
<1> HIDE DEF G, N
<1>6. PICK g : /\ g[0] = <<>> /\ \A n \in 0 .. N : g[n] \in Seq(S)
               /\ \A n \in 0 .. N - 1 : g[n + 1] = G[<<g[n], n + 1>>]
  <2> DEFINE X == Seq(S)
             x0 == <<>>
  <2>1. x0 \in X /\ G \in [X \X (1 .. N) -> X]
    BY <1>4, <1>5
  <2> HIDE DEF X, x0
  <2>2. N \in Nat
    BY <1>1
  <2>3. \E f : Recursion(f, N, X, x0, G)
    BY <2>1, <2>2, RecursionHasSolution
  <2> QED
    BY <2>3 DEF X, x0, Recursion
<1>7. ASSUME NEW n \in 0 .. N - 1 PROVE g[n + 1] = g[n] \o ss[n + 1]
  <2>1. g[n] \in Seq(S) /\ n + 1 \in 1 .. N
    BY <1>1, <1>6
  <2>2. G[<<g[n], n + 1>>] = g[n] \o ss[n + 1]
    BY <1>3, <2>1
  <2> QED
    BY <1>6, <2>2
<1>8. g[1] = ss[1]
  <2>0. 0 \in 0 .. N - 1
    BY <1>1
  <2>1. g[0 + 1] = g[0] \o ss[0 + 1]
    BY <1>7, <2>0
  <2>2. <<>> \o ss[1] = ss[1]
    BY <1>1, ConcatEmptySeq
  <2> QED
    BY <1>6, <2>1, <2>2
<1> DEFINE h == [n \in 1 .. N |-> g[n]]
<1>9. d = F(d)
  <2>1. ASSUME NEW i \in 1 .. N PROVE h[i] = IF i = 1 THEN ss[i] ELSE h[i - 1] \o ss[i]
    <3>1. CASE i = 1
      BY <1>8, <3>1
    <3>2. CASE i # 1
      <4> DEFINE j == i - 1
      <4>1. j \in 0 .. N - 1 /\ j + 1 = i /\ j \in 1 .. N
        BY <1>1, <3>2
      <4> HIDE DEF j
      <4>2. g[i] = g[j] \o ss[i]
        BY <1>7, <4>1
      <4>3. h[i] = g[i] /\ h[j] = g[j]
        BY <4>1
      <4> QED
        BY <3>2, <4>2, <4>3 DEF j
    <3> QED
      BY <3>1, <3>2
  <2>2. h = F(h)
    BY <2>1
  <2> HIDE DEF F, h
  <2> QED
    BY <2>2
<1> HIDE DEF d
<1>10. d[1] = ss[1]
  BY <1>1, <1>9
<1>11. ASSUME NEW n \in 1 .. N - 1 PROVE d[n + 1] = d[n] \o ss[n + 1]
  <2> DEFINE k == n + 1
  <2>1. k \in 1 .. N /\ k # 1 /\ k - 1 = n
    BY <1>1
  <2> HIDE DEF k
  <2>2. d[k] = IF k = 1 THEN ss[k] ELSE d[k - 1] \o ss[k]
    BY <1>9, <2>1
  <2>3. d[k] = d[n] \o ss[k]
    BY <2>1, <2>2
  <2> QED
    BY <2>3 DEF k
<1> DEFINE T == {n \in 0 .. N : n = 0 \/ d[n] \in Seq(S)}
<1>12. 0 \in T
  BY <1>1
<1>13. ASSUME NEW n \in 0 .. N - 1, n \in T PROVE n + 1 \in T
  <2>1. n + 1 \in 1 .. N
    BY <1>1
  <2>2. ss[n + 1] \in Seq(S)
    BY <1>1, <2>1
  <2>3. d[n + 1] \in Seq(S)
    <3>1. CASE n = 0
      BY <1>10, <2>2, <3>1
    <3>2. CASE n # 0
      <4>1. d[n] \in Seq(S) /\ n \in 1 .. N - 1
        BY <1>13, <3>2
      <4>2. d[n + 1] = d[n] \o ss[n + 1]
        BY <1>11, <4>1
      <4>3. d[n] \o ss[n + 1] \in Seq(S)
        BY <2>2, <4>1, ConcatProperties
      <4> QED
        BY <4>2, <4>3
    <3> QED
      BY <3>1, <3>2
  <2> QED
    BY <2>1, <2>3
<1>14. 0 .. N \subseteq T
  <2> HIDE DEF T
  <2> QED
    BY <1>1, <1>12, <1>13, InductionUpTo
<1>15. \A n \in 1 .. N : d[n] \in Seq(S)
  BY <1>1, <1>14
<1> QED
  BY <1>2, <1>10, <1>11, <1>15 DEF N

\* One more sequence at the end adds its elements at the end.
LEMMA FlattenAppend ==
  ASSUME NEW S, NEW ss \in Seq(Seq(S)), NEW s \in Seq(S)
  PROVE  /\ FlattenSeq(ss) \in Seq(S)
         /\ FlattenSeq(Append(ss, s)) = FlattenSeq(ss) \o s
<1> DEFINE N == Len(ss)
           tt == Append(ss, s)
<1>1. N \in Nat /\ tt \in Seq(Seq(S)) /\ Len(tt) = N + 1 /\ tt # <<>> /\ tt[N + 1] = s
      /\ \A i \in 1 .. N : tt[i] = ss[i]
  BY AppendProperties, LenProperties
<1>2. PICK e : /\ e[1] = tt[1] /\ \A n \in 1 .. N : e[n + 1] = e[n] \o tt[n + 1]
               /\ FlattenSeq(tt) = e[N + 1]
  <2> HIDE DEF tt
  <2>1. \E f : /\ f[1] = tt[1] /\ \A n \in 1 .. Len(tt) : f[n] \in Seq(S)
               /\ \A n \in 1 .. Len(tt) - 1 : f[n + 1] = f[n] \o tt[n + 1]
               /\ FlattenSeq(tt) = f[Len(tt)]
    BY <1>1, FlattenDef
  <2>2. Len(tt) - 1 = N
    BY <1>1
  <2> QED
    BY <1>1, <2>1, <2>2
<1>3. CASE ss = <<>>
  <2>1. N = 0 /\ FlattenSeq(ss) = <<>>
    BY <1>3 DEF FlattenSeq
  <2>2. FlattenSeq(tt) = s
    BY <1>1, <1>2, <2>1
  <2> QED
    BY <2>1, <2>2, ConcatEmptySeq
<1>4. CASE ss # <<>>
  <2>1. N # 0
    BY <1>4, EmptySeq
  <2>2. PICK d : /\ d[1] = ss[1] /\ \A n \in 1 .. N : d[n] \in Seq(S)
                 /\ \A n \in 1 .. N - 1 : d[n + 1] = d[n] \o ss[n + 1]
                 /\ FlattenSeq(ss) = d[N]
    BY <1>4, FlattenDef
  <2> DEFINE T == {n \in 0 .. N : n = 0 \/ e[n] = d[n]}
  <2> HIDE DEF N, tt
  <2>3. 0 \in T
    BY <1>1
  <2>4. ASSUME NEW n \in 0 .. N - 1, n \in T PROVE n + 1 \in T
    <3>1. n + 1 \in 1 .. N /\ tt[n + 1] = ss[n + 1]
      BY <1>1
    <3>2. e[n + 1] = d[n + 1]
      <4>1. CASE n = 0
        BY <1>2, <2>2, <3>1, <4>1
      <4>2. CASE n # 0
        <5>1. e[n] = d[n] /\ n \in 1 .. N - 1 /\ n \in 1 .. N
          BY <1>1, <2>4, <4>2
        <5>2. e[n + 1] = e[n] \o tt[n + 1]
          BY <1>2, <5>1
        <5>3. d[n + 1] = d[n] \o ss[n + 1]
          BY <2>2, <5>1
        <5> QED
          BY <3>1, <5>1, <5>2, <5>3
      <4> QED
        BY <4>1, <4>2
    <3> QED
      BY <3>1, <3>2
  <2>5. 0 .. N \subseteq T
    <3> HIDE DEF T
    <3> QED
      BY <1>1, <2>3, <2>4, InductionUpTo
  <2>6. e[N] = d[N]
    BY <1>1, <2>1, <2>5
  <2>7. e[N + 1] = e[N] \o tt[N + 1]
    <3>1. N \in 1 .. N
      BY <1>1, <2>1
    <3> QED
      BY <1>2, <3>1
  <2>8. d[N] \in Seq(S)
    BY <1>1, <2>1, <2>2
  <2> QED
    BY <1>1, <1>2, <2>2, <2>6, <2>7, <2>8 DEF tt
<1> QED
  BY <1>3, <1>4
-----------------------------------------------------------------------------
\* The front of a sequence that is not empty is the sequence without its last element.
LEMMA FrontProperties ==
  ASSUME NEW S, NEW s \in Seq(S), s # <<>>
  PROVE  /\ Front(s) \in Seq(S) /\ Len(Front(s)) = Len(s) - 1
         /\ \A i \in 1 .. Len(s) - 1 : Front(s)[i] = s[i]
<1>1. Len(s) \in Nat /\ Len(s) # 0
  BY EmptySeq, LenProperties
<1> DEFINE n == Len(s) - 1
           f == SubSeq(s, 1, n)
<1>2. 1 \in 1 .. Len(s) + 1 /\ n \in 1 - 1 .. Len(s) /\ n \in Nat
  BY <1>1
<1>3. f \in Seq(S) /\ Len(f) = (IF 1 <= n THEN n - 1 + 1 ELSE 0)
      /\ \A i \in 1 .. n - 1 + 1 : f[i] = s[1 + i - 1]
  <2> HIDE DEF n, f
  <2> QED
    BY <1>2, SubSeqProperties DEF f
<1>4. Len(f) = n /\ \A i \in 1 .. n : f[i] = s[i]
  <2> HIDE DEF n, f
  <2>1. n - 1 + 1 = n /\ \A i \in 1 .. n : 1 + i - 1 = i
    BY <1>2
  <2> QED
    BY <1>2, <1>3, <2>1
<1> QED
  BY <1>3, <1>4 DEF Front

\* A sequence that is not empty is its front and its last element.
LEMMA FrontAndLast ==
  ASSUME NEW S, NEW s \in Seq(S), s # <<>>
  PROVE  /\ Len(s) \in Nat /\ Len(s) # 0 /\ Len(s) \in 1 .. Len(s)
         /\ Front(s) \in Seq(S) /\ s[Len(s)] \in S
         /\ s = Append(Front(s), s[Len(s)])
<1>1. Len(s) \in Nat /\ Len(s) # 0
  BY EmptySeq, LenProperties
<1>2. Len(s) \in 1 .. Len(s) /\ s[Len(s)] \in S
  BY <1>1, ElementOfSeq
<1>3. /\ Front(s) \in Seq(S) /\ Len(Front(s)) = Len(s) - 1
      /\ \A i \in 1 .. Len(s) - 1 : Front(s)[i] = s[i]
  BY FrontProperties
<1>4. s = Append(Front(s), s[Len(s)])
  <2> DEFINE t == Append(Front(s), s[Len(s)])
  <2>1. t \in Seq(S) /\ Len(t) = Len(s)
    BY <1>1, <1>2, <1>3, AppendProperties
  <2>2. ASSUME NEW i \in 1 .. Len(s) PROVE s[i] = t[i]
    BY <1>1, <1>2, <1>3, AppendProperties
  <2> HIDE DEF t
  <2>3. s = t
    BY <2>1, <2>2, SeqEqual
  <2> QED
    BY <2>3 DEF t
<1> QED
  BY <1>1, <1>2, <1>3, <1>4

\* What is appended is the last element, and the rest the front.
LEMMA FrontOfAppend ==
  ASSUME NEW S, NEW s \in Seq(S), NEW x \in S
  PROVE  /\ Append(s, x) \in Seq(S) /\ Append(s, x) # <<>>
         /\ Front(Append(s, x)) = s /\ Append(s, x)[Len(Append(s, x))] = x
<1> DEFINE t == Append(s, x)
<1>1. t \in Seq(S) /\ Len(s) \in Nat /\ Len(t) = Len(s) + 1 /\ t[Len(s) + 1] = x
      /\ \A i \in 1 .. Len(s) : t[i] = s[i]
  BY AppendProperties, LenProperties
<1> HIDE DEF t
<1>2. t # <<>>
  BY <1>1, EmptySeq
<1>3. /\ Front(t) \in Seq(S) /\ Len(Front(t)) = Len(s)
      /\ \A i \in 1 .. Len(s) : Front(t)[i] = t[i]
  BY <1>1 DEF Front
<1>4. Front(t) = s
  BY <1>1, <1>3, SeqEqual
<1> QED
  BY <1>1, <1>2, <1>4 DEF t

\* Replacing the last element keeps the front.
LEMMA LastReplaced ==
  ASSUME NEW S, NEW s \in Seq(S), s # <<>>, NEW x \in S
  PROVE  [s EXCEPT ![Len(s)] = x] = Append(Front(s), x)
<1> DEFINE t == [s EXCEPT ![Len(s)] = x]
           u == Append(Front(s), x)
<1>1. Len(s) \in Nat /\ Len(s) \in 1 .. Len(s)
  BY FrontAndLast
<1>2. /\ Front(s) \in Seq(S) /\ Len(Front(s)) = Len(s) - 1
      /\ \A i \in 1 .. Len(s) - 1 : Front(s)[i] = s[i]
  BY FrontProperties
<1>3. t \in Seq(S) /\ Len(t) = Len(s) /\ \A i \in 1 .. Len(s) : t[i] = IF i = Len(s) THEN x ELSE s[i]
  BY <1>1, ExceptSeq
<1>4. u \in Seq(S) /\ Len(u) = Len(s) /\ u[Len(s)] = x /\ \A i \in 1 .. Len(s) - 1 : u[i] = s[i]
  BY <1>1, <1>2, AppendProperties
<1> HIDE DEF t, u
<1>5. t = u
  BY <1>1, <1>3, <1>4, SeqEqual
<1> QED
  BY <1>5 DEF t, u

\* What is appended to the second of two sequences is appended to both.
LEMMA ConcatAppend ==
  ASSUME NEW X, NEW a \in Seq(X), NEW q \in Seq(X), NEW x \in X
  PROVE  a \o q \in Seq(X) /\ a \o Append(q, x) = Append(a \o q, x)
<1>1. <<x>> \in Seq(X) /\ a \o q \in Seq(X)
  BY ConcatProperties
<1>2. Append(q, x) = q \o <<x>> /\ Append(a \o q, x) = (a \o q) \o <<x>>
  BY <1>1, AppendIsConcat
<1> QED
  BY <1>1, <1>2, ConcatAssociative

\* The elements of one sequence of sequences after another.
LEMMA FlattenConcat ==
  ASSUME NEW S, NEW a \in Seq(Seq(S)), NEW b \in Seq(Seq(S))
  PROVE  FlattenSeq(a \o b) = FlattenSeq(a) \o FlattenSeq(b)
<1> DEFINE N == Len(b)
           p(k) == SubSeq(b, 1, k)
           T == {k \in 0 .. N : FlattenSeq(a \o p(k)) = FlattenSeq(a) \o FlattenSeq(p(k))}
<1>1. N \in Nat /\ p(0) = <<>> /\ p(N) = b /\ \A k \in 0 .. N : p(k) \in Seq(Seq(S)) /\ Len(p(k)) = k
  BY LenProperties, SubSeqProperties, SubSeqFull, SubSeqEmpty
<1>2. ASSUME NEW k \in 0 .. N - 1 PROVE p(k + 1) = Append(p(k), b[k + 1])
  <2>1. k + 1 \in 1 .. N
    BY <1>1
  <2> QED
    BY <1>1, <2>1, SubSeqProperties, AppendProperties
<1> HIDE DEF p, N
<1>3. 0 \in T
  <2>1. a \o <<>> = a /\ FlattenSeq(<<>>) = <<>> /\ FlattenSeq(a) \in Seq(S)
    <3>1. FlattenSeq(<<>>) = <<>>
      BY DEF FlattenSeq
    <3>2. FlattenSeq(a) \in Seq(S)
      BY FlattenAppend, <1>1
    <3> QED
      BY <3>1, <3>2, ConcatEmptySeq
  <2>2. FlattenSeq(a) \o <<>> = FlattenSeq(a)
    BY <2>1, ConcatEmptySeq
  <2>3. FlattenSeq(a \o p(0)) = FlattenSeq(a) \o FlattenSeq(p(0))
    BY <1>1, <2>1, <2>2
  <2>4. 0 \in 0 .. N
    BY <1>1
  <2> QED
    BY <2>3, <2>4
<1>4. ASSUME NEW k \in 0 .. N - 1, k \in T PROVE k + 1 \in T
  <2>1. k \in 0 .. N /\ k + 1 \in 0 .. N /\ k + 1 \in 1 .. N /\ p(k) \in Seq(Seq(S))
    BY <1>1
  <2>2. b[k + 1] \in Seq(S)
    BY <2>1, ElementOfSeq DEF N
  <2> DEFINE x == b[k + 1]
             q == p(k)
  <2>3. q \in Seq(Seq(S)) /\ x \in Seq(S) /\ p(k + 1) = Append(q, x)
        /\ FlattenSeq(a \o q) = FlattenSeq(a) \o FlattenSeq(q)
    BY <1>2, <1>4, <2>1, <2>2
  <2> HIDE DEF x, q
  <2>4. a \o q \in Seq(Seq(S)) /\ a \o Append(q, x) = Append(a \o q, x)
    <3> DEFINE X == Seq(S)
    <3>1. a \in Seq(X) /\ q \in Seq(X) /\ x \in X
      BY <2>3
    <3> HIDE DEF X
    <3>2. a \o q \in Seq(X) /\ a \o Append(q, x) = Append(a \o q, x)
      BY <3>1, ConcatAppend
    <3> QED
      BY <3>2 DEF X
  <2>5. FlattenSeq(a \o Append(q, x)) = (FlattenSeq(a) \o FlattenSeq(q)) \o x
    <3>1. FlattenSeq(Append(a \o q, x)) = FlattenSeq(a \o q) \o x
      BY <2>3, <2>4, FlattenAppend
    <3> QED
      BY <2>3, <2>4, <3>1
  <2>6. /\ FlattenSeq(Append(q, x)) = FlattenSeq(q) \o x
        /\ FlattenSeq(q) \in Seq(S) /\ FlattenSeq(a) \in Seq(S)
    BY <2>3, FlattenAppend
  <2>7. (FlattenSeq(a) \o FlattenSeq(q)) \o x = FlattenSeq(a) \o (FlattenSeq(q) \o x)
    <3> DEFINE u == FlattenSeq(a)
               v == FlattenSeq(q)
    <3>1. u \in Seq(S) /\ v \in Seq(S) /\ x \in Seq(S)
      BY <2>3, <2>6
    <3> HIDE DEF u, v
    <3>2. (u \o v) \o x = u \o (v \o x)
      BY <3>1, ConcatAssociative
    <3> QED
      BY <3>2 DEF u, v
  <2>8. FlattenSeq(a \o p(k + 1)) = FlattenSeq(a) \o FlattenSeq(p(k + 1))
    BY <2>3, <2>5, <2>6, <2>7
  <2> QED
    BY <2>1, <2>8
<1>5. 0 .. N \subseteq T
  <2> HIDE DEF T
  <2> QED
    BY <1>1, <1>3, <1>4, InductionUpTo
<1>6. N \in 0 .. N
  BY <1>1
<1> QED
  BY <1>1, <1>5, <1>6

-----------------------------------------------------------------------------
\* One element is a sequence of its own, or none when it is not in T.
Piece(x, T) == IF x \in T THEN <<x>> ELSE <<>>

\* The elements of s that are in T.
Selection(s, T) == FlattenSeq([i \in DOMAIN s |-> Piece(s[i], T)])

\* A selection holds elements of s that are in T, and all of s when all are.
LEMMA SelectionProperties ==
  ASSUME NEW S, NEW s \in Seq(S), NEW T
  PROVE  /\ Selection(s, T) \in Seq(S \cap T)
         /\ (\A i \in 1 .. Len(s) : s[i] \in T) => Selection(s, T) = s
<1> DEFINE N == Len(s)
           F == [i \in DOMAIN s |-> Piece(s[i], T)]
           X == Seq(S)
           p == [k \in 0 .. N |-> SubSeq(F, 1, k)]
           q == [k \in 0 .. N |-> SubSeq(s, 1, k)]
           all == \A i \in 1 .. N : s[i] \in T
           G == {k \in 0 .. N : /\ FlattenSeq(p[k]) \in Seq(S \cap T)
                                /\ all => FlattenSeq(p[k]) = q[k]}
<1>1. /\ N \in Nat /\ DOMAIN s = 1 .. N
      /\ \A i \in 1 .. N : s[i] \in S /\ F[i] \in Seq(S) /\ F[i] \in Seq(S \cap T)
  <2>1. N \in Nat /\ DOMAIN s = 1 .. N /\ \A i \in 1 .. N : s[i] \in S
    BY LenProperties, ElementOfSeq
  <2>2. ASSUME NEW x \in S PROVE Piece(x, T) \in Seq(S) /\ Piece(x, T) \in Seq(S \cap T)
    <3>1. CASE x \in T
      BY <3>1 DEF Piece
    <3>2. CASE x \notin T
      BY <3>2 DEF Piece
    <3> QED
      BY <3>1, <3>2
  <2> QED
    BY <2>1, <2>2
<1>2. F \in Seq(X) /\ Len(F) = N /\ \A i \in 1 .. N : F[i] = Piece(s[i], T)
  BY <1>1, SeqDef
<1>3. /\ p[0] = <<>> /\ p[N] = F /\ q[0] = <<>> /\ q[N] = s
      /\ \A k \in 0 .. N : p[k] \in Seq(X) /\ Len(p[k]) = k /\ q[k] \in Seq(S)
  <2> HIDE DEF F, X
  <2> QED
    BY <1>1, <1>2, LenProperties, SubSeqProperties, SubSeqFull, SubSeqEmpty
<1>4. ASSUME NEW k \in 0 .. N - 1
      PROVE  /\ p[k + 1] = Append(p[k], F[k + 1])
             /\ q[k + 1] = Append(q[k], s[k + 1])
  <2> HIDE DEF F, X
  <2>1. k + 1 \in 1 .. N /\ k \in 0 .. N /\ k + 1 \in 0 .. N
    BY <1>1
  <2>2. SubSeq(F, 1, k + 1) = Append(SubSeq(F, 1, k), F[k + 1])
    BY <1>1, <1>2, <2>1, SubSeqProperties, AppendProperties
  <2>3. SubSeq(s, 1, k + 1) = Append(SubSeq(s, 1, k), s[k + 1])
    BY <1>1, <2>1, SubSeqProperties, AppendProperties
  <2> QED
    BY <2>1, <2>2, <2>3
<1>9. Selection(s, T) = FlattenSeq(F)
  BY DEF Selection
<1> HIDE DEF p, q, N, X, F, all
<1>5. 0 \in G
  <2>1. FlattenSeq(<<>>) = <<>>
    BY DEF FlattenSeq
  <2> QED
    BY <1>1, <1>3, <2>1
<1>6. ASSUME NEW k \in 0 .. N - 1, k \in G PROVE k + 1 \in G
  <2>1. k \in 0 .. N /\ k + 1 \in 0 .. N /\ k + 1 \in 1 .. N
    BY <1>1
  <2>2. PICK x, u, v : x = F[k + 1] /\ u = FlattenSeq(p[k]) /\ v = s[k + 1]
    OBVIOUS
  <2>3. p[k + 1] = Append(p[k], x) /\ p[k] \in Seq(Seq(S)) /\ x \in Seq(S) /\ x \in Seq(S \cap T)
    BY <1>1, <1>3, <1>4, <2>1, <2>2 DEF X
  <2>4. FlattenSeq(p[k + 1]) = u \o x
    BY <2>2, <2>3, FlattenAppend
  <2>5. u \in Seq(S \cap T) /\ (all => u = q[k])
    BY <1>6, <2>2
  <2>6. u \o x \in Seq(S \cap T)
    BY <2>3, <2>5, ConcatProperties
  <2>7. ASSUME all PROVE u \o x = q[k + 1]
    <3>1. x = <<v>> /\ v \in S
      BY <1>1, <1>2, <2>1, <2>2, <2>7 DEF Piece, all
    <3>2. Append(q[k], v) = q[k] \o <<v>>
      BY <1>3, <2>1, <3>1, AppendIsConcat
    <3> QED
      BY <1>4, <2>2, <2>5, <2>7, <3>1, <3>2
  <2> QED
    BY <2>1, <2>4, <2>6, <2>7
<1>7. 0 .. N \subseteq G
  <2> HIDE DEF G
  <2> QED
    BY <1>1, <1>5, <1>6, InductionUpTo
<1>8. FlattenSeq(p[N]) \in Seq(S \cap T) /\ (all => FlattenSeq(p[N]) = q[N])
  <2>1. N \in 0 .. N
    BY <1>1
  <2> QED
    BY <1>7, <2>1
<1>10. Selection(s, T) \in Seq(S \cap T) /\ (all => Selection(s, T) = s)
  BY <1>3, <1>8, <1>9
<1> QED
  BY <1>10 DEF all, N
=============================================================================

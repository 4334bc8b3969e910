--------------------------- MODULE InterestModel ---------------------------
(***************************************************************************)
(* The data of internal/pkg/model/interestset.go, and the comparison and   *)
(* search that internal/pkg/store/memory.go does on it, as operators that  *)
(* every module about the store shares.  A rate is any value: nothing      *)
(* computes with it.  Times of change and of crawling are left out.        *)
(***************************************************************************)
EXTENDS Naturals, Sequences

Terms == {"3m", "6m", "1y", "2y", "3y", "4y", "5y", "6y", "7y", "8y", "9y", "10y"}

Types == {"listRate", "averageRate", "ratioDiscountedRate", "unionDiscountedRate"}

NoMonth == "nil"       \* AverageReferenceMonth == nil
NoRatio == "nil"       \* RatioDiscountBoundaries == nil

\* A value of model.InterestSet.
IsInterestSet(s) ==
  /\ DOMAIN s = {"bank", "type", "term", "month", "ratio", "rate"}
  /\ s.type \in Types
  /\ s.term \in Terms

\* alreadyExists(a, b)
AlreadyExists(a, b) ==
  /\ a.bank = b.bank /\ a.type = b.type /\ a.term = b.term
  /\ a.type = "averageRate" => /\ a.month # NoMonth /\ b.month # NoMonth
                               /\ a.month = b.month

\* The entries the loop of UpsertInterestSet would stop at.
MatchesOf(data, set) == {i \in DOMAIN data : AlreadyExists(data[i], set)}

\* The loop takes the first of them.
FirstMatch(data, set) ==
  CHOOSE i \in MatchesOf(data, set) : \A j \in MatchesOf(data, set) : i <= j
-----------------------------------------------------------------------------
\* What alreadyExists amounts to: entries with a key are the same rate when their
\* keys are equal; an average rate without a reference month has no key.
HasKey(s) == s.type = "averageRate" => s.month # NoMonth

Key(s) == <<s.bank, s.type, s.term, IF s.type = "averageRate" THEN s.month ELSE NoMonth>>
=============================================================================

--------------------------- MODULE MC_MemoryStore ---------------------------
(* Small instances of MemoryStore for TLC. *)
EXTENDS MemoryStore, TLC

\* Two list rates of each of two terms, and average rates of two months and of
\* none: every branch of alreadyExists is taken with and without a match.
ListSets == [bank : {"SBAB"}, type : {"listRate"}, term : {"3m", "1y"},
             month : {NoMonth}, ratio : {NoRatio}, rate : {1, 2}]

AverageSets == [bank : {"SBAB"}, type : {"averageRate"}, term : {"1y"},
                month : {"jan24", "jan25", NoMonth}, ratio : {NoRatio}, rate : {1, 2}]

MixedSets == ListSets \cup AverageSets

\* The two tiers of extractDiscountedRates, and a list rate.
TierSets == [bank : {"Landshypotek"}, type : {"ratioDiscountedRate"}, term : {"3m", "1y"},
             month : {NoMonth}, ratio : {"0-60", "60-75"}, rate : {1, 2}]
            \cup ListSets
=============================================================================

---------------------------- MODULE MC_Figures ----------------------------
(* Small instances of Figures for TLC. *)
EXTENDS Figures, TLC

AllSources == Averages \cup Lists
NordnetOnly == {"Nordnet_list"}

\* The page is published in December 2025, or in January 2040.
SomeStarts == {Serial(2025, 12), Serial(2040, 1)}
OneStart == {Serial(2025, 12)}

\* Around the turns of years, decades and centuries, the ends of months, and the
\* windows of two-digit years; 13 is a misprint.
SomeDates ==
  [y : {1995, 2005, 2010}, m : {1, 12}, d : {31}]
    \cup [y : {2024, 2025}, m : {2}, d : {28, 29, 30}]
    \cup [y : {2025, 2039}, m : {9, 10, 11, 12}, d : {1, 31}]
    \cup [y : {2025}, m : {13}, d : {31}]
    \cup [y : {2040}, m : {1}, d : {1}]

Text(whole, mark, dec, percent) == [whole |-> whole, mark |-> mark, dec |-> dec, percent |-> percent]
SomeRates ==
  {Dash, Text(3, "no", <<>>, 1), Text(2, "comma", <<5, 4>>, 1), Text(2, "comma", <<0, 5>>, 1),
   Text(2, "comma", <<5, 4>>, 0), Text(2, "comma", <<0, 5>>, 0), Text(12, "comma", <<5, 0, 5>>, 2),
   Text(2, "point", <<5, 4>>, 0), Text(0, "point", <<5>>, 1), Text(2, "comma", <<0>>, 3)}
=============================================================================

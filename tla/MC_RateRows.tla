--------------------------- MODULE MC_RateRows ---------------------------
(* A small instance of RateRows for TLC. *)
EXTENDS RateRows, TLC

EverySource == AllSources
=============================================================================

-------------------------- MODULE MC_SiteCrawlers --------------------------
(* All 21 crawlers, each on its own. *)
EXTENDS SiteCrawlers

AllBanks == Banks
=============================================================================

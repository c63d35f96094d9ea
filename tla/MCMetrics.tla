----------------------------- MODULE MCMetrics -----------------------------
(***************************************************************************)
(* Small instances of MetricsScrape for TLC.                                *)
(***************************************************************************)
EXTENDS MetricsScrape, TLC

Interchangeable ==
  Permutations(Scraper) \cup Permutations(Car) \cup Permutations(Rental)
============================================================================

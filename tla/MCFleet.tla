------------------------------ MODULE MCFleet ------------------------------
(***************************************************************************)
(* Small instances of FleetService for TLC.                                 *)
(***************************************************************************)
EXTENDS FleetService, TLC

\* The ids and the details are interchangeable.
Interchangeable ==
  Permutations(Request) \cup Permutations(Car) \cup Permutations(Rental)
    \cup Permutations(Details)
============================================================================

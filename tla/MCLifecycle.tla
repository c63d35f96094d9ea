----------------------------- MODULE MCLifecycle -----------------------------
(***************************************************************************)
(* Small instances of RequestLifecycle for TLC.                             *)
(***************************************************************************)
EXTENDS RequestLifecycle, TLC

CONSTANT Writers    \* the requests of the burst that are writes

Asking(k) == {p \in Request : kind[p] = k}

\* Bound on the burst: two writes, for the row and the publisher's lock, beside a
\* list and a scrape.
TwoWrites == Asking("write") = Writers /\ Cardinality(Asking("scrape")) = 1

Interchangeable ==
  Permutations(Writers) \cup Permutations(Request \ Writers) \cup Permutations(Conn)
============================================================================

\* PostgreSQL, fair: every request ends.  No symmetry, which liveness does not allow.
SPECIFICATION FairSpec
CONSTANTS
  Request = {p1, p2}
  Car = {c1}
  Rental = {r1}
  Details = {d1}
  MaxDay = 0
  NULL = NULL
  RowLocks = TRUE
PROPERTIES
  EveryRequestEnds

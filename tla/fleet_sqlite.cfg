\* SQLite: the car's status and its open rental come apart.
SPECIFICATION Spec
CONSTANTS
  Request = {p1, p2}
  Car = {c1}
  Rental = {r1, r2}
  Details = {d1}
  MaxDay = 0
  NULL = NULL
  RowLocks = FALSE
SYMMETRY Interchangeable
INVARIANTS
  RentedIffInUse

\* PostgreSQL: ending the ended rental of a retired car.
SPECIFICATION Spec
CONSTANTS
  Request = {p1}
  Car = {c1}
  Rental = {r1}
  Details = {d1}
  MaxDay = 0
  NULL = NULL
  RowLocks = TRUE
INVARIANTS
  EndAlwaysFindsItsCar

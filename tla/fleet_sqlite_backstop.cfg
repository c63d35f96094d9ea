\* SQLite: what the unique index still guarantees.
SPECIFICATION Spec
CONSTANTS
  Request = {p1, p2}
  Car = {c1}
  Rental = {r1, r2}
  Details = {d1}
  MaxDay = 0
  NULL = NULL
  RowLocks = FALSE
SYMMETRY Interchangeable
INVARIANTS
  OneOpenRentalPerCar
PROPERTIES
  ClosedStaysClosed

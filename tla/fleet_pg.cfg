\* PostgreSQL: two requests on one car and its two rentals, across midnight.
SPECIFICATION Spec
CONSTANTS
  Request = {p1, p2}
  Car = {c1}
  Rental = {r1, r2}
  Details = {d1, d2}
  MaxDay = 1
  NULL = NULL
  RowLocks = TRUE
SYMMETRY Interchangeable
INVARIANTS
  TypeOK
  RentedIffInUse
  RetiredCarsAreFree
  BackstopsNeverReached
  EndMissesOnlyRetiredCars
  WaitsAreShort
PROPERTIES
  EventTellsTruth
  ContractSpec
  ClosedRecordsFrozen
  RefusalsTellTruth
  RequestsOnlyMoveOn

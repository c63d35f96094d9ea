\* Two commits, one of which may be published twice, and one fault.
SPECIFICATION PSpec
CONSTANTS
  Event = {e1, e2}
  MaxRetries = 1
  Message <- Copy
  Malformed = {}
  Prefetch = 2
  MaxFaults = 1
  NULL = NULL
SYMMETRY Interchangeable
CHECK_DEADLOCK FALSE
INVARIANTS
  AcceptedIsKept
PROPERTIES
  DeliverySpec

\* A signal between the loop's check and the consuming.
SPECIFICATION FairSpec
CONSTANTS
  Message = {m1}
  Malformed = {}
  Prefetch = 1
  MaxFaults = 0
  NULL = NULL
CHECK_DEADLOCK FALSE
PROPERTIES
  ShutdownStops

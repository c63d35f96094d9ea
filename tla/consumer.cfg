\* Two events and a malformed one, two faults, signals at any time.
SPECIFICATION FairSpec
CONSTANTS
  Message = {m1, m2, x1}
  Malformed = {x1}
  Prefetch = 2
  MaxFaults = 2
  NULL = NULL
CHECK_DEADLOCK FALSE
INVARIANTS
  TypeOK
  NothingDroppedUnlogged
  OvertakingNeedsFaults
  DuplicatesNeedFaults
PROPERTIES
  EveryMessageHandled
  ShutdownHeard
  HeardForGood

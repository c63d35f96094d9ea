\* Two request threads, their connections dropped or refused up to four times.
SPECIFICATION FairSpec
CONSTANTS
  Thread = {t1, t2}
  Connection = {k1, k2}
  MaxFaults = 4
  NULL = NULL
INVARIANTS
  TypeOK
  OneThreadPerConnection
  OnlyLosersAreForgotten
  OneFaultLosesNothing
PROPERTIES
  PublishContract
  LockIsReleased
  PublishRunsOut

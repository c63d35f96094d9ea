\* Two first requests at once.
SPECIFICATION Spec
CONSTANTS
  Thread = {t1, t2}
  Connection = {k1, k2}
  MaxFaults = 0
  NULL = NULL
INVARIANTS
  OneConnectionPerProcess

\* A burst of four requests, two of them writes, on two connections and two threads.
SPECIFICATION Spec
CONSTANTS
  Request = {p1, p2, p3, p4}
  Conn = {k1, k2}
  Writers = {p1, p2}
  Threads = 2
  MaxOutages = 1
  NULL = NULL
CONSTRAINT TwoWrites
SYMMETRY Interchangeable
CHECK_DEADLOCK FALSE
INVARIANTS
  TypeOK
  WaitersHoldNothing
  ConnectionsComeBack
  OneTrueSample
  NobodyIsStuck
  ReadyMeansEnabled
PROPERTIES
  OutageHitsOnlyItsUsers
  EveryStepIsProgress

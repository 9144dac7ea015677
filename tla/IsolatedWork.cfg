SPECIFICATION FairSpec
CONSTANTS
  Proc = {p1, p2, p3, p4}
  Guard = Guard
  PidOne = PidOne
  MaxWrites = 1
INVARIANTS
  ConfirmedMeansStopped
PROPERTIES
  NothingWrittenAfterReport
  InvocationKept
  GuardEnds
  CancelEnds
CHECK_DEADLOCK FALSE

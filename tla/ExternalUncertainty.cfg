SPECIFICATION Spec
CONSTANTS
  r1 = r1
  r2 = r2
  u1 = u1
  u2 = u2
  u3 = u3
  Run = {r1}
  Unit = {u1}
  RunOf <- OneTask
  Overlaps = {}
  External = {u1}
  TaskAttempts = 2
CHECK_DEADLOCK FALSE
INVARIANT
  ExitRecordsUncertainty

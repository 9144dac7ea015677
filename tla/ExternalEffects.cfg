SPECIFICATION Spec
CONSTANTS
  r1 = r1
  r2 = r2
  u1 = u1
  u2 = u2
  u3 = u3
  Run = {r1, r2}
  Unit = {u1, u2, u3}
  RunOf <- UnitRun
  Overlaps <- CommonHosts
  External = {u1, u3}
  TaskAttempts = 2
CHECK_DEADLOCK FALSE
INVARIANTS
  AtMostOneExternalLaunch
  

  

SPECIFICATION Spec
CONSTANTS
  k1 = k1
  k2 = k2
  v = v
  Key = {k1, k2, v}
  Check = {v}
  Revisions <- RevisionsOf
  Retries <- RetriesOf
  Attempts = 2
  TokenLimit = 3
  Charge = 2
  Measure = {1, 4}
  Unknown = Unknown
INVARIANTS
  BudgetHolds
  SessionsBounded
  OpenRowsAreOwned
  ReportIsExact
PROPERTIES
  AccountKept
  CapacityPacing
  

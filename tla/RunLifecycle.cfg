SPECIFICATION Spec
CONSTANTS
  Proc = {p1, p2}
  NoProc = NoProc
  Task = {t1, t2}
  NoTask = NoTask
  Main = Main
  Commands <- OperatorCommands
  MaxAttempts = 1
  MaxReplans = 1
  Concurrency = 2
SYMMETRY Interchangeable
INVARIANTS
  TypeOK
  CompletionIsSound
  ConfirmedMeansQuiet
  OrphansAreCharged
  NoSessionBesideOrphans
  NoWorkerWhilePending
PROPERTIES
  
  AppliedAfterApproval
  PromiseKept

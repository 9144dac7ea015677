SPECIFICATION Spec
CONSTANTS
  Proc = {p1, p2}
  NoProc = NoProc
  Task = {t1}
  NoTask = NoTask
  Main = Main
  Commands <- OperatorCommands
  MaxAttempts = 2
  MaxReplans = 0
  Concurrency = 1
PROPERTY
  NoRetryAfterDoubt

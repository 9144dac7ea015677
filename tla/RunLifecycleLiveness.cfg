SPECIFICATION FairSpec
CONSTANTS
  Proc = {p1, p2}
  NoProc = NoProc
  Task = {t1, t2}
  NoTask = NoTask
  Main = Main
  Commands <- StoppingCommands
  MaxAttempts = 2
  MaxReplans = 0
  Concurrency = 2
PROPERTIES
  NoRepeatedWork
  
  StopFreesLock

SPECIFICATION Spec
CONSTANTS
  Key = {"direct", "a", "b", "c", "j"}
  Task <- Definitions
  Id <- IdOf
  Deps <- DepsOf
  Direct = "direct"
  None = None
  TaskAttempts = 2
  Replans = 2
  AddedTasks = 2
  Concurrency = 2
INVARIANTS
  LineageHolds
  CompletionHolds
  HandoffHolds
  GraphProgresses
PROPERTIES
  LineageGrows
CHECK_DEADLOCK FALSE

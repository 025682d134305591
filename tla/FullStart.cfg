CONSTANTS
  NDsp = 2
  NPages = 1
  Entries = 2
  MaxGen = 2
SPECIFICATION Spec
INVARIANTS ContainedDma ExitLeavesCold SuccessResetAll
PROPERTIES ImplementsExperiment
CHECK_DEADLOCK FALSE

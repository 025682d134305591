CONSTANTS
  NDsp = 1
  NPages = 2
  Entries = 2
  MaxGen = 2
  Polls = 2
  RespWords = 2
SPECIFICATION Spec
INVARIANTS BenchExitCold EngineStartsEmpty AnswerInTime NoEngineIn001
PROPERTIES ImplementsExperiment BenchColdFirst
CHECK_DEADLOCK FALSE

CONSTANTS
  NDsp = 2
  NPages = 1
  Entries = 4
  MaxGen = 1
  Polls = 2
  RespWords = 2
SPECIFICATION FairSpec
INVARIANTS ResponseOffered QueryAfterConnect SuccessIsAnswered
           PolledAnswerIsWhole
PROPERTIES ImplementsExperiment RunEnds
CHECK_DEADLOCK FALSE

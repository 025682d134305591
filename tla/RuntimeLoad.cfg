CONSTANTS
  NDsp = 1
  NPages = 1
  Entries = 6
  MaxGen = 1
  Polls = 3
  RespWords = 1
  MaxFileWords = 5
  PageWords = 2
  NoProgress = 2
SPECIFICATION Spec
INVARIANTS ChainCarriesFile FinalReadsAgree ReportIsExitStatus
CHECK_DEADLOCK FALSE

CONSTANTS
  NDsp = 1
  NPages = 1
  Entries = 6
  MaxGen = 1
  Polls = 1
  RespWords = 2
  WordBytes = 2
  PageBytes = 6
  MaxFile = 7
SPECIFICATION Spec
INVARIANTS OfferedInPage
CHECK_DEADLOCK FALSE

CONSTANTS
  NDsp = 1
  NPages = 1
  Entries = 2
  MaxGen = 1
SPECIFICATION FairSpec
PROPERTIES ColdBeforeClear
CHECK_DEADLOCK FALSE

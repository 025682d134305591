SPECIFICATION FairSpec
CONSTANTS
  NDsp = 1
  NPages = 1
  Entries = 2
  MaxGen = 2
  Clients = {c1}
  Core = core
  Nobody = nobody
CHECK_DEADLOCK FALSE
PROPERTIES
  CallsReturn

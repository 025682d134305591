CONSTANTS
  Scripts = {a, b}
  Nobody = nobody
  MaxSignals = 1
SPECIFICATION FairSpec
PROPERTIES MasterOffAtBind
CHECK_DEADLOCK FALSE

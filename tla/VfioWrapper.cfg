CONSTANTS
  Scripts = {a, b}
  Nobody = nobody
  MaxSignals = 2
SPECIFICATION FairSpec
INVARIANTS IdentityLeavesNothing LastLeavesUnbound OnlyUpsetGoAstray
PROPERTIES WrappersEnd
CHECK_DEADLOCK FALSE

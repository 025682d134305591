CONSTANTS
  NDsp = 3
SPECIFICATION Spec
INVARIANTS RunningIsReported UnboundIsComplete
CHECK_DEADLOCK FALSE

CONSTANTS
  NDsp = 2
SPECIFICATION Spec
INVARIANTS SuccessResetsAll
CHECK_DEADLOCK FALSE

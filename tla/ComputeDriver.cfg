SPECIFICATION Spec
CONSTANTS
  NDsp = 2
  NPages = 1
  Entries = 2
  MaxGen = 2
  Clients = {c1, c2}
  Core = core
  Nobody = nobody
SYMMETRY ClientSymmetry
CHECK_DEADLOCK FALSE
INVARIANTS
  TypeOK
  DmaSafe
  NoDanglingDescriptor
  EnabledRingsEmpty
  OneRegisterUser
  MmioWhileMapped
  NoUseAfterFree
  StartedIsTruth
  ResultIsTruth
  RemovedStaysDead
  UnboundClean
PROPERTIES
  ResetIsolation
  ImplementsTransport

SPECIFICATION Spec
CONSTANTS
  Transfers = {x}
  Borrowers = {dump, import}
  Shared = shared
  Queries = {q}
  History = 1
  MaxLeaving = 1
INVARIANTS
  UnfinishedAreListed
  FinishedLeaveTheRegistry
PROPERTIES
  StopReachesItsRun
  WaitersAreAnswered
CHECK_DEADLOCK FALSE

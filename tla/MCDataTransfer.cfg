SPECIFICATION FairSpec
CONSTANTS
  w1 = w1
  w2 = w2
  Workers = {w1, w2}
  Main = Main
  NJobs = 2
  JobSize <- MCJobSize
  Batches <- MCBatches
INVARIANTS
  TypeOK
  NoTableTwice
  LateWorkBounded
  FailureSurfaces
  AccountsAgree
  SuccessMeansComplete
PROPERTIES
  JobDrainsFirst
  SequentialStopsAtFirstError
  Terminates

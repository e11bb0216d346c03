SPECIFICATION FairSpec
CONSTANTS
  w1 = w1
  w2 = w2
  Workers = {w1, w2}
  NTables = 3
  Shards <- MCShards
  Indexed <- MCIndexed
INVARIANTS
  TypeOK
  TablesInOrder
  TotalsAgree
  CompleteUnlessStopped
  IndexesFollow
PROPERTIES
  Terminates

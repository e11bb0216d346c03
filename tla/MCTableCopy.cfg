SPECIFICATION FairSpec
CONSTANTS
  Keys <- MCKeys
  N = 3
  Chunk = 2
  MaxWrites = 2
  None = None
INVARIANTS
  TypeOK
  NoRowTwice
  NoStableRowMissed
  CountIsExact
  RangesTile
PROPERTIES
  Terminates
  DeliversRows

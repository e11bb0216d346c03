SPECIFICATION FairSpec
CONSTANTS
  w1 = w1
  w2 = w2
  Workers = {w1, w2}
  Main = Main
  Dumps <- MCDumps
  Foreign <- MCForeign
  ParseCap = 2
  DataCap = 1
  BatchMax = 2
  MaxRetries = 1
  MaxLostAcks = 1
INVARIANTS
  TypeOK
  AppliedOnce
  InOrder
  CompleteUnlessDataResumes
  FailureSurfaces
  CountersAgree
PROPERTIES
  Terminates

SPECIFICATION FairSpec
CONSTANTS
  LastId = 4
  CondOf <- ShareCond
  FullPage = 2
  MinLimit = 1
  ChunkSize = 1
  MaxRetries = 1
  MaxPages = 1
INVARIANTS
  ReadIsKept
  CompleteUnlessCut
PROPERTIES
  RunEnds

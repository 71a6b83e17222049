SPECIFICATION Spec
CONSTANTS
  t1 = t1
  Tokens <- OneToken
  Prices <- ThreePrices
  Epsilon = 2
  MaxBatch = 1
  FeaturesOn = TRUE
  SnapshotsOn = TRUE
  TradePrices <- OnePrice
  MaxChanges = 2
INVARIANTS
  TopMirrorsUnlessKept
  StaleMeansLoose
  SkippedMeansStored

SPECIFICATION Spec
CONSTANTS
  t1 = t1
  Tokens <- OneToken
  Prices <- TwoPrices
  Epsilon = 1
  MaxBatch = 1
  FeaturesOn = TRUE
  SnapshotsOn = FALSE
  TradePrices <- NoPrice
  MaxChanges = 2
INVARIANTS
  CleanMeansDurable

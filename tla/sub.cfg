SPECIFICATION SubscriptionSpec
CONSTANTS
  a1 = a1
  a2 = a2
  a3 = a3
  Tokens <- ThreeAssets
  MaxAssets = 2
  MaxSessions = 2
  MaxBoards = 2
  MaxResolved = 1
  Prices <- NoPrice
  TradePrices <- NoPrice
  Epsilon = 1
  MaxBatch = 1
  FeaturesOn = FALSE
  SnapshotsOn = FALSE
  MaxChanges = 0
INVARIANTS
  DesiredIsStreamed
PROPERTIES
  DesiredSettles
  StreamSettlesOrTangled

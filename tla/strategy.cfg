SPECIFICATION FairStrategy
CONSTANTS
  o1 = o1
  o2 = o2
  Operators <- TwoOperators
  MaxVersions = 3
  Eligible = {1, 2}
  Conds <- TwoConds
  Histories <- PriceTables
  BookHistories <- BookTables
  BoardHistories <- BoardTables
  GroupToday <- NoGroup
  EndDate <- TwoEnds
  Horizons <- TwoHorizons
  End = 6
  Lookback = 2
  Day = 1
  Primary = 1
  BoardN = 1
  UniverseCap = 2
  BookAge = 2
  MaxGap = 3
  HoldMax = 1
  GridStep = 1
  BookReuseMax = 2
  MinSample = 2
  PromoteMaxPct = 34
  SignificantPct = 50
  MaxCommands = 5
CHECK_DEADLOCK FALSE
INVARIANTS
  AgreesUnlessOverwritten
  AuditNamesActive
  PointInTime
  WindowsAreLoaded
  DrawdownIsWorst
PROPERTIES
  RollbackRestoresPrev
  CommandsEnd

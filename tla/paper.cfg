SPECIFICATION PaperSpec
CONSTANTS
  c1 = c1
  c2 = c2
  c3 = c3
  m1 = m1
  yes = yes
  Conditions <- ThreeConditions
  StartingEquity = 10
  MaxPositions = 2
  MaxGross = 3
  MaxPosition = 2
  MinSize = 1
  MaxDrawdownBps = 4000
  MaxDailyDrawdownBps = 2000
  DayLen = 2
  Modes <- AllModes
  Window = 1
  Horizons = {1, 2}
  HorizonDef = 1
  PnLs <- LossAndGain
  MaxTime = 2
  Markets = {m1}
  Winners = {yes}
  LastStamp = 2
  MaxEvents = 3
  MaxScans = 1
  Rows <- TwoRows
  Books <- ThreeBooks
  MinEdge = 25
  Cooldown = 2
  Reissue = 50
  Buffer = 0
  Scale = 200
  SlotLimit = 2
  GrossLimit = 700
  MaxTicks = 3
  MaxRestarts = 1
SYMMETRY AnyOrder
CHECK_DEADLOCK FALSE
INVARIANTS
  BooksAgree
  OKMeansWithinLimits
  BudgetHolds
  
  ResolvedOffStream
  SpacedSignals

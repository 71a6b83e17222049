SPECIFICATION TopSpec
CONSTANTS
  Sports = "sports"
  SeedFamilies = {"S"}
  Inject <- OneInjected
  MinFreq = 2
  Root = "root"
  EventTags = {"U"}
  RowSets <- LeaguePairs
  TeamSets <- TwoTeams
  WalkTags = {"T", "U"}
  MaxMissing = 1
  MaxCycles = 2
  MaxStops = 1
  Tokens = {1, 2}
  Lookback = 2
  TokenCap = 2
  BatchSize = 2
  LastHour = 5
CHECK_DEADLOCK FALSE
INVARIANTS
  HolesOnlyByTopMarkets
  RankedThroughoutIsWhole
  EdgesAreTree
  FreshMeansStored
  SportsParentsWin
  StaysATree

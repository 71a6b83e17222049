SPECIFICATION ScanSpec
CONSTANTS
  Conds = {1, 2, 3}
  GroupOf <- OneGroup
  Features <- FewFeatures
  Scanners = {daemon, once}
  Listings <- FewListings
  Stage1MaxN = 2
  BoardMaxN = 2
  ExpandCap = 1
  MaxRuns = 3
SYMMETRY Alike
CHECK_DEADLOCK FALSE
INVARIANTS
  WholeRuns
  HistoryWasLive
  NeverWedged
PROPERTIES
  NeverEmptied
  StickyKept

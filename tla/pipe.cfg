SPECIFICATION FairSpec
CONSTANTS
  q1 = q1
  q2 = q2
  Seeds = 1
  Budget = 3
  MaxPayloads = 1
  Fetchers = 1
  Processors = 1
  Savers = 1
  FetchQ = 1
  ProcQ = 1
  SaveQ = 1
  FetchOut = 1
  ProcOut = 1
  RequeueWorkers <- TwoRequeue
  RequeueCap = 1
  MaxOverflow = 1
  Waiting = TRUE
  StablePolls = 1
CHECK_DEADLOCK FALSE
INVARIANTS
  CountersExact
PROPERTIES
  WaitReturnsOrStranded

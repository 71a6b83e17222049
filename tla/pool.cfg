SPECIFICATION FairSpec
CONSTANTS
  j1 = j1
  j2 = j2
  j3 = j3
  w1 = w1
  w2 = w2
  Jobs <- AllJobs
  NonBlocking <- OneTry
  Workers <- TwoWorkers
  QueueSize = 1
  OutFactor = 0
  DiscardOutput = FALSE
  Idle = Idle
  Exited = Exited
CHECK_DEADLOCK FALSE
INVARIANTS
  PendingExact
  GracefulStopKeepsAccepted
  OnlyHurriedStopPanics
PROPERTIES
  StopTerminates
  Refines

SPECIFICATION FairSpec
CONSTANTS
  WarmUsers = 1
  PressureConcurrency = 1
  PressureRequests = 1
  Profile <- ReportProfile
  First = 2
  Length = 1
  Executors <- OneExecutor
  QueueLength = 1
  FullBlockPrompts = {"bench", "pressure"}
  MayGiveUp = {0}
  MaxSamples = 3
  MaxLatency = 2
  MaxFaults = 1
CHECK_DEADLOCK FALSE
INVARIANTS
  TypeOK
  EveryRequestCounted
  ObservedAreMeasured
  WarmUsersHit
  PercentilesAreRight
  CleanRunNearlyValidates
PROPERTIES
  RunEnds
  GaugesSettle

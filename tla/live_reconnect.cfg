SPECIFICATION Spec
CONSTANTS
  MaxSeq = 3
  Matching <- All
  Mode = "watch"
  From <- LiveStart
  Until <- NoEndPoint
  HasStore = TRUE
  HasAuth = FALSE
  HasTriggers = FALSE
  FlushOnExit = FALSE
  HasStartupBudget = FALSE
  BufferSize = 2
  DatePos = 0
  MaxFaults = 1
  MaxAnomalies = 0
  MaxRuns = 1
INVARIANT KeepsItsPlace
CHECK_DEADLOCK FALSE

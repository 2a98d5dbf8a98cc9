SPECIFICATION TaskFairSpec
CONSTANTS
  MaxSeq = 3
  Matching <- Odd
  Mode = "watch"
  From = 0
  Until <- NoEndPoint
  HasStore = TRUE
  HasAuth = TRUE
  HasTriggers = TRUE
  FlushOnExit = TRUE
  HasStartupBudget = TRUE
  BufferSize = 2
  DatePos = 0
  MaxFaults = 2
  MaxAnomalies = 0
  MaxRuns = 1
PROPERTY CancelTerminates
PROPERTY EventuallyDelivered
CHECK_DEADLOCK FALSE

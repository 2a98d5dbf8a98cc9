SPECIFICATION FairSpec
CONSTANTS
  MaxSeq = 3
  Matching <- Early
  Mode = "replay_only"
  From <- DateStart
  Until <- DateEnd
  HasStore = FALSE
  HasAuth = TRUE
  HasTriggers = FALSE
  FlushOnExit = FALSE
  HasStartupBudget = TRUE
  BufferSize = 2
  DatePos = 0
  MaxFaults = 3
  MaxAnomalies = 0
  MaxRuns = 1
INVARIANT ReplayKeepsToItsRange
INVARIANT KeepsItsPlace
PROPERTY ReplayTerminates
CHECK_DEADLOCK FALSE

SPECIFICATION Spec
CONSTANTS
  MaxSeq = 3
  Matching <- All
  Mode = "watch"
  From = 1
  Until <- NoEndPoint
  HasStore = TRUE
  HasAuth = FALSE
  HasTriggers = FALSE
  FlushOnExit = FALSE
  HasStartupBudget = FALSE
  BufferSize = 2
  DatePos = 0
  MaxFaults <- AnyNumber
  MaxAnomalies = 2
  MaxRuns = 2
INVARIANT ResumeAfterHighest
INVARIANT NoUndetectedJump
CHECK_DEADLOCK FALSE

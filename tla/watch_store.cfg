SPECIFICATION Spec
CONSTANTS
  MaxSeq = 3
  Matching <- All
  Mode = "watch"
  From <- LiveStart
  Until <- NoEndPoint
  HasStore = TRUE
  HasAuth = TRUE
  HasTriggers = TRUE
  FlushOnExit = TRUE
  HasStartupBudget = TRUE
  BufferSize = 2
  DatePos = 0
  MaxFaults <- AnyNumber
  MaxAnomalies = 0
  MaxRuns = 2
INVARIANT TypeOK
INVARIANT NoHole
INVARIANT CancellationObservedOnce
INVARIANT ResumesSafely
INVARIANT SessionIsOrderly
CHECK_DEADLOCK FALSE
PROPERTY ImplementsDelivery

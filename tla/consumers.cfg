SPECIFICATION Spec
CONSTANTS
  Count = 2
  MaxItems = 1
  Waiters = {w1, w2}
  Calls = {c1, c2}
  MaxInterrupts = 1
  MaxSignals = 2
INVARIANT OverMeansFlushed
INVARIANT EndIsReported
INVARIANT EachGetsItsTurn
INVARIANT HandsOver
INVARIANT ListensUntilClosed
PROPERTY StopIsHeard
CHECK_DEADLOCK FALSE

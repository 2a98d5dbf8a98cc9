SPECIFICATION PartsSpec
CONSTANTS
  Watches = {w1, w2, w3, w4, w5}
  Clients = {c1, c2, c3, c4}
  PerConnection = 2
  TriggerLists <- SmallLists
  MaxNotes = 2
INVARIANT LeaseFindsItsSlot
INVARIANT CapHolds
INVARIANT OutcomeIsEarned
INVARIANT NothingLeftRunning
PROPERTY NoAttemptAfterCancel
PROPERTY DispatchReturns
CHECK_DEADLOCK FALSE

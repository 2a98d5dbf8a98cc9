SPECIFICATION FairSpec
CONSTANTS
  Handles = {h1, h2}
  Slots <- TwoOnOne
  Keys = {k1, k2}
  MaxSeq = 1
  Ops = {"put", "delete"}
  Removable = TRUE
  MaxCalls = 3
  Nobody = nobody
INVARIANT PutsAreKept
INVARIANT MemoryNeverRegresses
PROPERTY ImplementsStore
PROPERTY DeleteDropsOnlySeen
PROPERTY EveryCallReturns
CHECK_DEADLOCK FALSE

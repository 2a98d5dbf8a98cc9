SPECIFICATION Spec
CONSTANTS
  Handles = {h1, h2}
  Slots <- OneSlot
  Keys = {k1, k2}
  MaxSeq = 0
  Ops = {"put", "delete"}
  Removable = FALSE
  MaxCalls = 4
  Nobody = nobody
INVARIANT DeleteHonoured
CHECK_DEADLOCK FALSE

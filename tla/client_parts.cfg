SPECIFICATION PartsSpec
CONSTANTS
  Calls = {a, b, c}
  MaxCred = 3
  Nobody = nobody
  Refreshers = {"requests", "watch"}
  Chains <- SmallChains
  MaxRewrites = 2
  Versions <- SmallVersions
  Env <- SmallEnv
  Urls <- SmallUrls
  Credentials <- SmallCredentials
  MaxWrites = 1
  MaxCalls = 2
  Streams <- SmallStreams
  MaxLine = 4
  MaxEvent = 3
  PieceLen = 2
  MaxDigits = 1
INVARIANT OneRefreshPerEpoch
INVARIANT SkipMeansRefreshed
INVARIANT RefreshIsSeen
INVARIANT ChunkingInvisible
INVARIANT BuiltAsSaid
INVARIANT InterfacesAgree
INVARIANT ResultsTell
INVARIANT ValuesStayValues
PROPERTY EachCallEnds
CHECK_DEADLOCK FALSE

SPECIFICATION MCSpec
CONSTANTS
  c1 = c1
  c2 = c2
  p1 = p1
  Callers = {c1, c2}
  Procs = {p1}
  ProcessOf <- MCProcessOf
  Configs <- MCConfigs
  TOOL_LIST_CACHE_TTL = 1
  TOOL_LIST_CACHE_MAX_ENTRIES = 1
  FutureTolerance = 1
  MaxTime = 2
  NoList = NoList
INVARIANTS SingleFlight AgeBounded AnswerMatchesServer
PROPERTIES EveryCallEnds

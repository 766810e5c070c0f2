SPECIFICATION MCSpec
CHECK_DEADLOCK FALSE
CONSTANTS
  Workers = {w1, w2}
  NoOne = NoOne
  Clients = {c1, c2}
  ChannelSize = 1
  Limits <- FewPermits
  MaxRequests = 3
  StartTimes = {1, 2}
  MaxTime = 3
  RateWindow = 2
  RateMax = 2
  MaxClients = 1
  Ttl = 1
  FailureTtl = 0
INVARIANTS PermitsMatchHolders RateBounded
PROPERTIES CachesMoveForward EveryConnectionEnds

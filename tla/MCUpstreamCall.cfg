SPECIFICATION MCSpec
CONSTANTS
  Callers = {c1, c2}
  Ttls = {5}
  Timeout = 3
  Grace = 3
  QueueTimeout = 1
  SpawnTime = 1
  KillTime = 1
  Lag = 1
  Slice = 1
  MinInterval = 1
  MaxInterval = 3
  NoCaller = NoCaller
  Orphan = Orphan
INVARIANTS UseIsLeased
PROPERTIES EveryCallReturns

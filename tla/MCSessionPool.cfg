SPECIFICATION FairSpec
CONSTANTS
  Callers = {c1, c2}
  Workers = {w1, w2, w3}
  k1 = k1
  k2 = k2
  Keys <- MCKeys
  WorkerLimit <- MCWorkerLimit
  max_sessions = 2
  NoWorker = NoWorker
  NoKey = NoKey
INVARIANTS OneUser NoBusyLeak PoolBounded NoStaleAnswer
PROPERTIES EveryCallEnds

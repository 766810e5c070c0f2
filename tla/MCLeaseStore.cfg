SPECIFICATION Spec
CONSTANTS
  a = a
  b = b
  C = C
  S = S
  T = T
  P = P
  Absent = Absent
  NoKey = NoKey
  NoLease = NoLease
  NoRoute = NoRoute
  NoId = NoId
  Server = "server"
  Ids = {i1, i2, i3}
  MAX_WORKERS = 3
  MAX_IN_FLIGHT_PER_WORKER = 3
  MaxNow = 1
  DEFAULT_LEASE_TTL_MS = 1
  MAX_LEASE_TTL_MS = 2
  Callers <- MCCallers
  Identity <- MCIdentity
  Records <- MCRecords
  Ttls <- MCTtls
SYMMETRY IdSymmetry
INVARIANTS OneLeasePerMutex
PROPERTIES CapacityRespected LiveLeaseKept NoResurrection

SPECIFICATION LockSpec
CONSTANTS
  Procs = {p1, p2, p3}
  LEASE_LOCK_ATTEMPTS = 2
  Versions = 3
  MaxCrashes = 1
  NoFile = NoFile
SYMMETRY ProcSymmetry
INVARIANTS AtMostOneHolder

SPECIFICATION LockFairSpec
CONSTANTS
  Procs = {p1, p2}
  LEASE_LOCK_ATTEMPTS = 2
  Versions = 3
  MaxCrashes = 1
  NoFile = NoFile
PROPERTIES CommandsAreAtomic LockRecovers

SPECIFICATION FairSpec
CHECK_DEADLOCK FALSE
CONSTANTS
  Commands = {c1, c2}
  Settings <- TwoSettings
  None = None
  MaxCommands = 3
  MaxFaults = 1
  MaxTime = 2
  Window = 1
  MaxAttempts = 1
INVARIANTS GuardBoundsLaunches StopMeansStopped DirectRuntimeRecorded
PROPERTY EveryCommandEnds

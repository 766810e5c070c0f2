SPECIFICATION Spec
CHECK_DEADLOCK FALSE
CONSTANTS
  Commands = {c1, c2}
  Settings <- TwoSettings
  None = None
  MaxCommands = 3
  MaxFaults = 0
  MaxTime = 0
  Window = 1
  MaxAttempts = 2
INVARIANT RuntimeRecorded

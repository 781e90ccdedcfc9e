SPECIFICATION MCSpec
CONSTANTS
  d1 = d1
  Doc <- MCDoc
  MaxAttempts = 2
  MaxSockets = 3
  MaxFaults = 2
  MaxSends = 3
  MaxTimeouts = 1
  Named = FALSE
INVARIANTS
  ShellFollows
  NothingMisread
  HalvesMatch
PROPERTIES
  StopIsFinal
  Reconnects
CHECK_DEADLOCK FALSE

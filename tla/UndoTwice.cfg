SPECIFICATION SettingsSpec
CONSTANTS
  d1 = d1
  d2 = d2
  Doc <- MCDoc
  Depth = 2
  MaxWrites = 2
  MaxRequests = 2
  MaxCrashes = 1
  MaxLeaves = 0
  MaxFaults = 0
SYMMETRY Swap
INVARIANT NeverTwiceOnceNoted
CHECK_DEADLOCK FALSE

SPECIFICATION SettingsSpec
CONSTANTS
  Nothing <- MCNothing
  MaxOwn = 1
  MaxOther = 0
  MaxRuns = 1
  MaxFaults = 1
  MaxGens = 2
  MaxDemands = 0
  MaxMarks = 4
  Strays = FALSE
  Rivals = TRUE
INVARIANTS
  StoreFirst
  NoAddressReuse
  PhaseIsTrue
  ConfirmedIsStored
  StoreFirstInv
PROPERTIES
  UnloadLosesNothing
  ReportsAreOurs
  NothingStoredIsLost
  SettlesInTheEnd
CHECK_DEADLOCK FALSE

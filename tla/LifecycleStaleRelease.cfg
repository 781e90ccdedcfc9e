SPECIFICATION Spec
CONSTANTS
  Nothing = Nothing
  CallsBack = {"notify", "events", "persisted", "leaving"}
  Stores = {TRUE, FALSE}
  ResumesEarly = FALSE
  UnloadsAgain = TRUE
  Serves = TRUE
  MaxRequests = 5
  MaxFaults = 1
INVARIANT UnloadLosesNothing
CHECK_DEADLOCK FALSE

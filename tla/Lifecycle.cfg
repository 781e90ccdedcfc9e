SPECIFICATION FairSpec
CONSTANTS
  Nothing = Nothing
  CallsBack = {"notify", "events", "persisted", "leaving"}
  Stores = {TRUE, FALSE}
  ResumesEarly = FALSE
  UnloadsAgain = FALSE
  Serves = TRUE
  MaxRequests = 4
  MaxFaults = 1
INVARIANTS
  InstancesSound
  AgreeAtRest
  BelievedIsStored
  UnloadLosesNothing
PROPERTIES
  AnswersStand
  EverythingSettles
CHECK_DEADLOCK FALSE

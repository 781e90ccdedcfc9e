SPECIFICATION FlakySpec
CONSTANTS
  a = a
  b = b
  c = c
  None = None
  Peer = {a, b}
  Links <- Pair
  Shares <- ShareAll
  Accepts <- ShareAll
  Serves <- Nobody
  Resolve <- Creates
  MaxWrites <- EachOne
  MaxFaults <- OneOfEach
CHECK_DEADLOCK FALSE
INVARIANTS RecordsAreTrue OwedOrCurrent BaselineArrives KnownIsStored OwedOnlyWhileHeld
PROPERTY SyncedHasArrived

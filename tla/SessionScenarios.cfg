SPECIFICATION SettingsSpec
CONSTANTS
  a = a
  b = b
  Channels = 2
  Peer <- MCPeer
  Conn <- MCConn
  Between <- MCBetween
  MaxRuns = 2
  Mortal <- OneOfThem
  Overlaps = FALSE
  Fickle = FALSE
  Grace = TRUE
INVARIANTS
  SessionInv
  FreshUnlessOverlapping
PROPERTIES
  AgreesInTheEnd
CHECK_DEADLOCK FALSE

SPECIFICATION Spec
CONSTANTS
  a = a
  b = b
  Channels = 2
  Peer <- MCPeer
  Conn <- MCConn
  Between <- MCBetween
  MaxRuns = 2
  Mortal <- MCPeer
  Overlaps = TRUE
  Fickle = FALSE
  Grace = TRUE
SYMMETRY Swap
INVARIANTS
  FreshPeer
CHECK_DEADLOCK FALSE

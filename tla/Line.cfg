SPECIFICATION MCSpec
CONSTANTS
  a = a
  b = b
  Peer <- MCPeer
  MaxSends <- MCMaxSends
  MaxRestarts = 1
INVARIANTS
  LineTypeOK
  PrunedIsGiven
PROPERTIES
  StreamSpec
  Drains
CHECK_DEADLOCK FALSE

SPECIFICATION Spec
CONSTANTS
  a = a
  b = b
  Peer <- MCPeer
  MaxSends <- MCMaxSends
  MaxRestarts = 1
INVARIANT NothingLost
CHECK_DEADLOCK FALSE

SPECIFICATION FairSpec
CONSTANTS
  Alice = Alice
  Bob = Bob
  Node <- MCNode
  Peer <- MCPeer
  Lists <- ShortLists
INVARIANTS
  CommonKept
  SettledAlike
  SettledHighest
PROPERTIES
  CommonVersionFound
CHECK_DEADLOCK FALSE

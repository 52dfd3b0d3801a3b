SPECIFICATION Spec
CONSTANTS
  Alice = Alice
  Bob = Bob
  Node <- MCNode
  Peer <- MCPeer
  Lists <- ShortLists
PROPERTIES
  HigherVersionsErased
CHECK_DEADLOCK FALSE

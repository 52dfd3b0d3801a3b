SPECIFICATION Spec
CONSTANTS
  Alice = Alice
  Bob = Bob
  Node <- MCNode
  Peer <- MCPeer
  TypeLists <- ShortLists
  OtherLists <- MCOtherLists
  Mac <- MCMac
INVARIANTS
  ChoiceShared
  CommitAcceptable
  HelloReadBack
CHECK_DEADLOCK FALSE

SPECIFICATION Spec
CONSTANTS
  Alice = Alice
  Bob = Bob
  Carol = Carol
  Dave = Dave
  Algorithm <- MCAlgorithm
  Identity <- MCNode
  Node <- MCNode
  Peer <- MCPeer
  UserInfo <- DemoInfo
  HviRank <- MCRank
  InitialRoles <- OneInitiatorOnly
  MaxResend1 = 0
  MaxResend2 = 0
  Duplicating = TRUE
  Leftover <- NothingLeft
  Damages = {"badLength"}
  OtherVersions = {}
  OtherTypes = {}
  OtherAlgorithms = {}
  MaxDamaged = 2
  MaxLost = 0
  MaxExpired = 1
  Patient = FALSE
INVARIANTS
  CriticalSectionLeft
CHECK_DEADLOCK FALSE

SPECIFICATION Spec
CONSTANTS
  Alice = Alice
  Bob = Bob
  Carol = Carol
  Dave = Dave
  Algorithm <- MCAlgorithm
  Identity <- MCNode
  Node <- MCNode
  Peer <- MCPeer
  UserInfo <- OtherCipherInfo
  HviRank <- MCRank
  InitialRoles <- OneOrTwoInitiators
  MaxResend1 = 0
  MaxResend2 = 0
  Duplicating = TRUE
  Leftover <- NothingLeft
  Damages = {"badLength"}
  OtherVersions = {}
  OtherTypes = {}
  OtherAlgorithms = {}
  MaxDamaged = 1
  MaxLost = 0
  MaxExpired = 1
  Patient = FALSE
INVARIANTS
  PacketsReady
  NoSplitOutcome
CHECK_DEADLOCK FALSE

SPECIFICATION Spec
CONSTANTS
  Alice = Alice
  Bob = Bob
  Carol = Carol
  Dave = Dave
  Algorithm <- MCAlgorithm
  Identity <- FourIdentities
  Node <- MCNode
  Peer <- MCPeer
  UserInfo <- DisjointInfo
  HviRank <- HviOrder
  InitialRoles <- OneOrTwoInitiators
  MaxResend1 = 1
  MaxResend2 = 1
  Duplicating = TRUE
  Leftover <- OldHellos
  Damages = {}
  OtherVersions = {}
  OtherTypes = {}
  OtherAlgorithms = {}
  MaxDamaged = 0
  MaxLost = 0
  MaxExpired = 1
  Patient = FALSE
INVARIANTS
  ResendLive
  PacketsReady
CHECK_DEADLOCK FALSE

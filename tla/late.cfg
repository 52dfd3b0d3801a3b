SPECIFICATION Spec
CONSTANTS
  Alice = Alice
  Bob = Bob
  Carol = Carol
  Dave = Dave
  Algorithm <- MCAlgorithm
  Identity <- MCNode
  Node <- MCNode
  Peer <- MCPeer
  UserInfo <- PlainInfo
  HviRank <- MCRank
  InitialRoles <- OneInitiatorOnly
  MaxResend1 = 0
  MaxResend2 = 0
  Duplicating = FALSE
  Leftover <- LateConf2Ack
  Damages = {"badBody"}
  OtherVersions = {}
  OtherTypes = {}
  OtherAlgorithms = {}
  MaxDamaged = 1
  MaxLost = 0
  MaxExpired = 1
  Patient = FALSE
INVARIANTS
  EndedSuccessfully
CHECK_DEADLOCK FALSE

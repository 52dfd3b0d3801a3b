SPECIFICATION Spec
CONSTANTS
  Alice = Alice
  Bob = Bob
  Carol = Carol
  Dave = Dave
  Algorithm <- MCAlgorithm
  Identity <- MCNode
  Node <- MCNode
  Peer <- MCPeer
  UserInfo <- UnorderedInfo
  HviRank <- MCRank
  InitialRoles <- OneOrTwoInitiators
  MaxResend1 = 1
  MaxResend2 = 1
  Duplicating = TRUE
  Leftover <- NothingLeft
  Damages = {}
  OtherVersions = {}
  OtherTypes = {}
  OtherAlgorithms = {}
  MaxDamaged = 0
  MaxLost = 0
  MaxExpired = 1
  Patient = FALSE
INVARIANTS
  TypeOK
  OneInitiator
  NeverFails
  TimerCovers
  VersionsSettled
  HelloAgreed
  DestructorSafe
PROPERTIES
  ImplementsKeyAgreement
  KeyTypeKept
  ImplementsVersionExchange
CHECK_DEADLOCK FALSE

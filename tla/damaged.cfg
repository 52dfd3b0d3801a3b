SPECIFICATION Spec
CONSTANTS
  Alice = Alice
  Bob = Bob
  Carol = Carol
  Dave = Dave
  Algorithm <- MCAlgorithm
  Identity <- FourIdentities
  Node <- MCNode
  Peer <- MCPeer
  UserInfo <- DemoInfo
  HviRank <- HviOrder
  InitialRoles <- OneOrTwoInitiators
  MaxResend1 = 0
  MaxResend2 = 0
  Duplicating = TRUE
  Leftover <- NothingLeft
  Damages = {"badIdentifier", "badLength", "badImage", "badBody", "badPv"}
  OtherVersions <- LowAndHigh
  OtherTypes <- NoneOrOneType
  OtherAlgorithms <- AnotherAlgorithm
  MaxDamaged = 1
  MaxLost = 0
  MaxExpired = 1
  Patient = FALSE
INVARIANTS
  ResendLive
  PacketsReady
  KeysAgree
  NoSplitOutcome
PROPERTIES
  ImplementsKeyAgreement
CHECK_DEADLOCK FALSE

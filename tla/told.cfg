SPECIFICATION FairSpec
CONSTANTS
  Alice = Alice
  Bob = Bob
  Carol = Carol
  Dave = Dave
  Algorithm <- MCAlgorithm
  Identity <- FourIdentities
  Node <- MCNode
  Peer <- MCPeer
  UserInfo <- DemoInfo
  HviRank <- HviOrder
  InitialRoles <- OneOrTwoInitiators
  MaxResend1 = 2
  MaxResend2 = 2
  Duplicating = FALSE
  Leftover <- NothingLeft
  Damages = {"badIdentifier", "badLength", "badImage", "badBody", "badPv"}
  OtherVersions <- LowAndHigh
  OtherTypes <- NoneOrOneType
  OtherAlgorithms <- AnotherAlgorithm
  MaxDamaged = 1
  MaxLost = 2
  MaxExpired = 1
  Patient = TRUE
PROPERTIES
  OutcomeReached
  AgreementReached
CHECK_DEADLOCK FALSE

SPECIFICATION FairSpec
CONSTANTS
  Alice = Alice
  Bob = Bob
  App <- MCApp
  Peer <- MCPeer
  MyRole <- MCRole
  TestCaps <- OnceOrTwice
  MaxThreads = 1
  MaxSignals = 2
  MaxLost = 0
PROPERTIES
  SessionsGoOn
  BothLeave
CHECK_DEADLOCK FALSE

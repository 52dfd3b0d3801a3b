SPECIFICATION Spec
CONSTANTS
  Alice = Alice
  Bob = Bob
  App <- MCApp
  Peer <- MCPeer
  MyRole <- MCRole
  TestCaps <- OnceOrTwice
  MaxThreads = 1
  MaxSignals = 3
  MaxLost = 1
INVARIANTS
  TypeOK
  OutcomeNotLost
  RestartNotLost
  TimerFollows
  ThreadsOfSession
PROPERTIES
  ImplementsRendezvous
CHECK_DEADLOCK FALSE

SPECIFICATION FairSpec
CONSTANTS
  a1 = a1
  a2 = a2
  a3 = a3
  main = main
  Agents = {a1, a2}
  Root = main
  MaxResidentAgents = 2
  MaxDepth = 2
  Suspendable = {a1}
  External = FALSE
  Failing <- MCAllFailures
  MaxTurns = 3
INVARIANTS
  BoundedLiveSessions
  NoLostFollowup
PROPERTIES
  InterruptSticks
  ReleaseIsFinal
  ExecutionsEnd
  ClosingEnds
CHECK_DEADLOCK FALSE

SPECIFICATION Spec
CONSTANTS
  a1 = a1
  a2 = a2
  a3 = a3
  main = main
  Agents = {a1, a2}
  Root = main
  MaxResidentAgents = 2
  MaxDepth = 2
  Suspendable = {a1}
  External = TRUE
  Failing <- MCAllFailures
  MaxTurns = 3
INVARIANTS
  ReleasedHoldsNothing
PROPERTIES
  ClosingSubtreeStill
CHECK_DEADLOCK FALSE

SPECIFICATION Spec
CONSTANTS
  a1 = a1
  a2 = a2
  a3 = a3
  main = main
  Agents = {a1, a2, a3}
  Root = main
  MaxResidentAgents = 3
  MaxDepth = 3
  Suspendable = {a1}
  External = FALSE
  Failing <- MCDisposeFails
  MaxTurns = 1
INVARIANTS
  DisposedAfterUse
  ReleasedSubtree
PROPERTIES
  ImplementsOwnership
CHECK_DEADLOCK FALSE
SYMMETRY MCSymmetry

SPECIFICATION FairSpec
CONSTANTS
  Generations = {g1, g2}
  Leases = {l1, l2}
  Closable = {g1}
  Leasable = {g1}
  NoGeneration = NoGeneration
CHECK_DEADLOCK FALSE
INVARIANT LedgerExact
INVARIANT ScopeOutlivesLeases
INVARIANT GroupClosedLast
PROPERTY FinalizingProtected
PROPERTY RetirementEnds
PROPERTY ShutdownClosesChild
PROPERTY OverdueLeaseEnds
PROPERTY ImplementsGenerations

SPECIFICATION FairSpec
CONSTANTS
  MaxRequests = 3
  MaxReplacements = 1
  MaxHealthSignals = 1
CHECK_DEADLOCK FALSE
INVARIANT SettledMatchesDesired
INVARIANT ProjectionTruthful
INVARIANT NoOrphan
PROPERTY ReconcilesEnd
PROPERTY ImplementsGenerations

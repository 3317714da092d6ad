SPECIFICATION FairSpec
CONSTANTS
  Processes = {p1, p2}
  MaxAttempts = 2
  MaxFaults = 1
INVARIANT OnePublication
INVARIANT CompletionBacked
PROPERTY CommittedCompletes
PROPERTY ImplementsClaim
CHECK_DEADLOCK FALSE

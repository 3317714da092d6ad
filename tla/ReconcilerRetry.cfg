SPECIFICATION FairSpec
CONSTANTS
  MaxRequests = 3
  MaxReplacements = 0
  MaxHealthSignals = 0
CHECK_DEADLOCK FALSE
INVARIANT LastRequestTried

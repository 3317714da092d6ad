SPECIFICATION FairSpec
CONSTANTS
  Generations = {g1}
  Leases = {l1, l2}
  Closable = {g1}
  Leasable = {g1}
  NoGeneration = NoGeneration
CHECK_DEADLOCK FALSE
PROPERTY DrainedIsRetired

SPECIFICATION FairSpec
CONSTANTS
  a1 = a1
  a2 = a2
  main = main
  w1 = w1
  w2 = w2
  Agents = {a1, a2}
  Root = main
  Parent <- MCChain
  Waits = {w1, w2}
  WaitCalls <- MCChainWaits
  SendCalls <- MCChainSends
  MaxInboxMessages = 2
  MaxWaitMessages = 1
  MaxQueue = 1
INVARIANTS
  NoMissedUpdate
  ClosedInboxEmpty
PROPERTIES
  NoOvertaking
  WaitsEnd
CHECK_DEADLOCK FALSE

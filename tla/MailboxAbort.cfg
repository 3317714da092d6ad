SPECIFICATION Spec
CONSTANTS
  a1 = a1
  a2 = a2
  main = main
  w1 = w1
  w2 = w2
  Agents = {a1, a2}
  Root = main
  Parent <- MCSiblings
  Waits = {w1}
  WaitCalls <- MCSiblingWaits
  SendCalls <- MCAllSends
  MaxInboxMessages = 1
  MaxWaitMessages = 1
  MaxQueue = 1
INVARIANTS
  AbortEndsWait
CHECK_DEADLOCK FALSE

SPECIFICATION FairSpec
CONSTANTS
  a = a
  b = b
  s1 = s1
  s2 = s2
  Clients = {a}
  Sessions = {s1}
  SessionOf <- OneSession
  Sockets = {k1, k2}
  Daemons = {d1, d2}
  NoOne = NoOne
  MaxFaults = 3
INVARIANT RegistryHonest
PROPERTY SessionReachable
CHECK_DEADLOCK FALSE

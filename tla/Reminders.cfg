SPECIFICATION FairSpec
CONSTANTS
  UserRows = {r1}
  CloneRows = {c1, c2}
  Recurring = {r1}
  Ticks = {t1, t2}
  NoRow = NoRow
  MaxRetry = 2
  MaxOccurrences = 2
  BatchSize = 2
  MaxFaults = 1
INVARIANT ShownOnce
PROPERTY SettledIsFinal
PROPERTY DueSettles

SPECIFICATION FairSpec
CONSTANTS
  p1 = p1
  p2 = p2
  a1 = a1
  a2 = a2
  d1 = d1
  Parts = {p1, p2}
  Actions = {a1, a2}
  Direct = {d1}
  Locked = Locked
  MaxVersion = 1
  MaxStray = 1
  Missing = Missing
INVARIANT StaleForAReason
PROPERTY OwedSyncRuns

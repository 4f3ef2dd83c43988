SPECIFICATION FairSpec
CONSTANTS
  o1 = o1
  Writes = {1, 2, 3}
  Outsiders = {o1}
  Cap = 1
  MaxNonce = 3
  Nobody = Nobody
  Null = Null
INVARIANTS
  OneAtATime
  NonceFresh
  SentStays
  NoOrphanGap
PROPERTY EveryWriteAnswered
CONSTRAINT InOrder

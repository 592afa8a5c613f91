SPECIFICATION FairSpec
CONSTANTS
  p1 = p1  k1 = k1
  Lines = {p1}
  Kids = {k1}
  Origin <- SplitOff
  Jobs = {cron, desk}
  Effective = {1}
  Cycles = {2}
  LastDay = 4
  Splitting = {3, 4}
  Drained = {p1}
  Crowd = 1
  Reopened = {1}
  Stops = 1
INVARIANTS
  OneRunPerSequence
  DaysBilledOnce
  BilledInTurn
PROPERTY StorageKeepsBilling
CHECK_DEADLOCK FALSE

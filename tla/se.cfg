SPECIFICATION FairSpec
CONSTANTS
  x = x  y = y
  Tabs = {x, y}
  Limit = 2
  Warn = 1
  TouchEvery = 1
  AccessLife = 3
  Lead = 2
  Fresh = 1
  Flaky = {x}
  Freezable = {y}
INVARIANTS
  HeardInTime
PROPERTIES
  WarnedFirst
  AbandonedEnds
CHECK_DEADLOCK FALSE

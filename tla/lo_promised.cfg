SPECIFICATION Spec
CONSTANTS
  q1 = q1  q2 = q2  t1 = t1  t2 = t2  t3 = t3
  Requests = {q1, q2}
  Scenes <- Together
  Trucks = {t1, t2}
  Amendments = {}
  Amending = {}
  Of <- OneEach
  Qty <- Two
  Dated = {}
  NewQty = {}
  Measured = {1}
  Opening = 3
  Hold = 0
INVARIANTS
  NotPromisedTwice
CHECK_DEADLOCK FALSE

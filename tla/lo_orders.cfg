SPECIFICATION FairSpec
CONSTANTS
  q1 = q1  q2 = q2  t1 = t1  t2 = t2  t3 = t3
  Requests = {q1, q2}
  Scenes <- Apart
  Trucks = {t1, t2, t3}
  Amendments = {a1, a2}
  Amending = {t3}
  Of <- PairAndSingle
  Qty <- TwoOrFour
  Dated = {t1, t3}
  NewQty = {1}
  Measured = {3}
  Opening = 7
  Hold = 1
INVARIANTS
  OwedStaysReserved
  ReleasedWhenNothingOwed
  CompletedLoadsEverything
  DeliveriesExplainStock
  ParkedAwaitsAmendment
PROPERTIES
  LoadingsAreBooked
  ExpiredOrdersClosed
CHECK_DEADLOCK FALSE

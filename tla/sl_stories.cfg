SPECIFICATION Spec
CONSTANTS
  a = a  b = b  v = v  w = w  r1 = r1  r2 = r2  r3 = r3  p1 = p1  f1 = f1  f2 = f2
  t1 = t1  t2 = t2  t3 = t3  z1 = z1  h1 = h1  h2 = h2  m1 = m1
  Customers = {a, b}
  Vessels = {v, w}
  Days = {1, 2}
  Arrivals = {r1, r2, r3}
  Provisions = {p1}
  Finals = {f1, f2}
  Itts = {t1, t2, t3}
  Zerols = {z1}
  Releases = {h1, h2}
  Deliveries = {m1}
  Stories <- AllStories
  Imported <- OnHold
  Owner <- MCOwner
  Ship <- MCShip
  Held <- MCHeld
  Day <- MCDay
  Qty <- MCQty
  Id <- MCId
  ProvisionOf <- MCProvisionOf
  ToCustomer <- MCToCustomer
  ToVessel <- MCToVessel
INVARIANTS
  SnapshotsAgree
  StockExplained
  PostedOnce
  ParcelsCovered
  TransfersConserve
CHECK_DEADLOCK FALSE

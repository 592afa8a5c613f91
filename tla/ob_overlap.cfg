SPECIFICATION Spec
CONSTANTS
  Rows = {r1, r2}
  Drains = {d1, d2}
  Batch = 2
  Lease = 2
  Delays <- MCDelays
  MaxAttempts = 2
  MaxAge = 2
  MaxSend = 1
  MaxLost = 0
SYMMETRY SmallSymmetry
INVARIANT OneSenderPerRow

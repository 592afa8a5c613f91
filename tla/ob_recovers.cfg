SPECIFICATION FairSpec
CONSTANTS
  Rows = {r1}
  Drains = {d1, d2}
  Batch = 1
  Lease = 2
  Delays <- MCDelays
  MaxAttempts = 3
  MaxAge = 3
  MaxSend = 2
  MaxLost = 2
PROPERTY EventuallySettled

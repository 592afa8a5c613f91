SPECIFICATION RaceSpec
CONSTANTS
  u1 = u1
  u2 = u2
  s1 = s1
  s2 = s2
  Users = {u1, u2}
  Steps = {s1, s2}
  Families <- LoadingRequests
  Bounds <- OneSubmission
SYMMETRY RaceSymmetry
INVARIANT PostedOncePerSubmission
CHECK_DEADLOCK FALSE

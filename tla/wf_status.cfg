SPECIFICATION Spec
CONSTANTS
  u1 = u1
  u2 = u2
  s1 = s1
  s2 = s2
  Users = {u1, u2}
  Steps = {s1, s2}
  Families <- MCFamilies
  Bounds <- MCBounds
SYMMETRY Symmetry
INVARIANTS
  PendingOnlyWhereOpen
  CurrentStepInProcess
  StrandedOnlyByMoveOrDraft
  DocumentShowsDecision
  ApprovedAtMostOnce
PROPERTIES
  QuorumAllHeard
  ResumesAtReturningStep
  ResubmittedReadsSubmitted
  ImplementsApproval
  RejectedStopsForGood
CHECK_DEADLOCK FALSE

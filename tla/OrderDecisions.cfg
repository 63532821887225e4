SPECIFICATION Spec

CONSTANTS
  MaxRevisions = 2
  Requests = {q1, q2}
  MaxAttempts = 1
  MaxCrashes = 0
  MaxAmendments = 1
  TokensExpire = FALSE
  None = None

SYMMETRY RequestSymmetry

CHECK_DEADLOCK FALSE

INVARIANTS
  OneAcceptancePerBaseline

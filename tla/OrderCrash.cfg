SPECIFICATION Spec

CONSTANTS
  MaxRevisions = 1
  Requests = {}
  MaxAttempts = 2
  MaxCrashes = 1
  MaxAmendments = 0
  TokensExpire = FALSE
  None = None

SYMMETRY RequestSymmetry

CHECK_DEADLOCK FALSE

INVARIANTS
  NoUnacknowledgedDuplicate

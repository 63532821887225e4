SPECIFICATION Spec

CONSTANTS
  MaxRevisions = 2
  Requests = {q1}
  MaxAttempts = 2
  MaxCrashes = 1
  MaxAmendments = 0
  TokensExpire = TRUE
  None = None

SYMMETRY RequestSymmetry

CHECK_DEADLOCK FALSE

INVARIANTS
  TypeOK
  OpenSendIsPending
  MailIsAccountedFor
  AwaitedClientHasMail

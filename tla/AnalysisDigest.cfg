SPECIFICATION Spec
CONSTANTS
  Workers = {w1, w2}
  Jobs = {j1, j2}
  j1 = j1
  j2 = j2
  t1 = t1
  r1 = r1
  Tenant <- SameTenant
  Request <- SameRequest
  Amount = 1
  Overrun = 1
  TenantLimit = 2
  DeploymentLimit = 3
  MaxAttempts = 2
  Volatile = {"reserve"}
  MaxScope = 1
  MaxDays = 2
  None = None
INVARIANTS
  AttemptsMatchTheirWorkflow
SYMMETRY Symmetry
CHECK_DEADLOCK FALSE

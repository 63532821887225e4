SPECIFICATION Spec

CONSTANTS
  Jobs = {analysis, sync, send}
  AnalysisJobs = {analysis}
  GmailJobs = {sync}
  Workers = {w1, w2}
  HeartbeatWorkers = {w1, w2}
  RetriedJobs = {sync}
  LeaseTicks = 0
  AnalysisLeaseTicks = 1
  BackoffTicks = 1
  DeadlineTicks = 1
  MaxAttempts = 2
  BatchSize = 2
  MaxJobsPerInvocation = 2
  None = None

SYMMETRY WorkerSymmetry

INVARIANTS
  TypeOK
  ExecutionIsCurrent
  LeasesAreFenced
  CommittedWorkIsFinal
  PoisonOnlyByOperator
PROPERTIES
  JobsFollowTheirLifecycle

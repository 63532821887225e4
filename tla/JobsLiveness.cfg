SPECIFICATION FairSpec

CONSTANTS
  Jobs = {analysis, send}
  AnalysisJobs = {analysis}
  GmailJobs = {}
  Workers = {w1, w2}
  HeartbeatWorkers = {}
  RetriedJobs = {}
  LeaseTicks = 0
  AnalysisLeaseTicks = 1
  BackoffTicks = 1
  DeadlineTicks = 2
  MaxAttempts = 2
  BatchSize = 2
  MaxJobsPerInvocation = 2
  None = None

PROPERTIES
  LeasesAreReleased
  EveryJobSettles

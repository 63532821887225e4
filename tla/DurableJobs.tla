----------------------------- MODULE DurableJobs -----------------------------
(***************************************************************************)
(* The durable job table and the Lambda invocations that work it:          *)
(* services/workers/durable.py (jobs), lambda_handler.py, handlers.py,     *)
(* agents/live.py (the two transactions of an analysis job), the operator  *)
(* retry of api/operations.py and the job cancellation of                  *)
(* integrations/gmail.py.                                                  *)
(*                                                                         *)
(* Every action is one committed transaction, except that a provider job   *)
(* runs in ONE transaction that holds the row lock of its job from         *)
(* StartProviderJob to its end: between the two the other actors run, and  *)
(* skip-locked queries pass that row over.                                 *)
(*                                                                         *)
(* Times are relative: lease, wait and deadline count the ticks left until *)
(* lease_until, available_at and deadline_at; -1 is "already past".        *)
(***************************************************************************)
EXTENDS Integers, FiniteSets

CONSTANTS
  Jobs,                 \* job rows
  AnalysisJobs,         \* those of kind analysis.prepare
  GmailJobs,            \* the gmail.* jobs of the one connection that may be disconnected
  Workers,              \* worker ids: "lambda:<request id>", kept when Lambda retries a request
  HeartbeatWorkers,     \* callers of heartbeat_job (none outside the tests)
  RetriedJobs,          \* jobs an operator may retry
  LeaseTicks,           \* LEASE_SECONDS
  AnalysisLeaseTicks,   \* the four minutes live.py takes for the model call
  BackoffTicks,         \* fail_job's delay, at least one tick
  DeadlineTicks,        \* the eight minutes the API gives an analysis job
  MaxAttempts,          \* max_attempts
  BatchSize,            \* CLAIM_BATCH_SIZE
  MaxJobsPerInvocation, \* MAX_JOBS_PER_INVOCATION
  None                  \* SQL NULL

ASSUME JobsAssumption ==
  /\ IsFiniteSet(Jobs)
  /\ AnalysisJobs \subseteq Jobs
  /\ GmailJobs \subseteq Jobs \ AnalysisJobs
  /\ RetriedJobs \subseteq Jobs
ASSUME WorkersAssumption ==
  /\ None \notin Workers
  /\ HeartbeatWorkers \subseteq Workers
ASSUME BoundsAssumption ==
  /\ LeaseTicks \in Nat /\ AnalysisLeaseTicks \in Nat
  /\ BackoffTicks \in Nat /\ DeadlineTicks \in Nat
  /\ MaxAttempts \in 1..3
  /\ BatchSize \in Nat \ {0}
  /\ MaxJobsPerInvocation \in Nat \ {0}
  /\ None \notin Int

VARIABLES
  jobs,     \* the jobs table: one row per job
  pc,       \* where each invocation is
  batch,    \* the leases an invocation has claimed and not yet started
  current,  \* the lease it is working on, or None
  handled,  \* processed + failed of this invocation, 0 outside one
  toCancel, \* job rows a disconnect has read and will write, or None
  \* What the properties look at, beside the program's own state:
  done,     \* generations whose result has been committed, per job
  retried   \* jobs an operator has retried

jobVars    == <<jobs, done, retried>>
workerVars == <<pc, batch, current, handled>>
vars       == <<jobs, pc, batch, current, handled, toCancel, done, retried>>

-----------------------------------------------------------------------------
(* Rows and leases *)

JobStates == {"ABSENT", "QUEUED", "RUNNING", "RETRY_WAIT", "SUCCEEDED",
              "FAILED_REQUIRES_REVIEW", "CANCELLED"}

Left == {None} \cup {-1} \cup Nat

JobRow == [state    : JobStates,
           wait     : Nat,
           lease    : Left,
           owner    : Workers \cup {None},
           fence    : Nat,
           attempts : 0..MaxAttempts,
           deadline : Left]

\* A claimed (job_id, fencing_generation) pair, as the handler's list keeps it.
Lease == [job : Jobs, gen : Nat]

TypeOK ==
  /\ jobs \in [Jobs -> JobRow]
  /\ pc \in [Workers -> {"idle", "claiming", "working", "executing", "analysing"}]
  /\ batch \in [Workers -> SUBSET Lease]
  /\ current \in [Workers -> Lease \cup {None}]
  /\ handled \in [Workers -> Nat]
  /\ toCancel \in (SUBSET GmailJobs) \cup {None}
  /\ done \in [Jobs -> SUBSET Nat]
  /\ retried \in SUBSET Jobs

Init ==
  /\ jobs = [j \in Jobs |-> [state |-> "ABSENT", wait |-> 0, lease |-> None, owner |-> None,
                             fence |-> 0, attempts |-> 0, deadline |-> None]]
  /\ pc = [w \in Workers |-> "idle"]
  /\ batch = [w \in Workers |-> {}]
  /\ current = [w \in Workers |-> None]
  /\ handled = [w \in Workers |-> 0]
  /\ toCancel = None
  /\ done = [j \in Jobs |-> {}]
  /\ retried = {}

\* A provider job's transaction holds the row lock of its job.
Locked(j) == \E w \in Workers : pc[w] = "executing" /\ current[w].job = j

\* Mutant of Owns: only the state is compared, so that a superseded lease still passes.
OwnsByStateOnly(w, l) == jobs[l.job].state = "RUNNING"

\* _require_job_owner, and the same test in execute_claimed_job and live.py.
Owns(w, l) ==
  /\ jobs[l.job].state = "RUNNING"
  /\ jobs[l.job].owner = w
  /\ jobs[l.job].fence = l.gen

\* deadline_at <= current: what claim_jobs, fail_job and recover_expired_jobs refuse.
DeadlineReached(r) == r.deadline # None /\ r.deadline <= 0

\* deadline_at < now: what complete_job refuses.
DeadlinePassed(r) == r.deadline # None /\ r.deadline < 0

-----------------------------------------------------------------------------
(* The writes of durable.py on one row *)

\* Mutant of Claimed: the generation is not raised.
ClaimedUnfenced(r, w) ==
  [r EXCEPT !.state = "RUNNING", !.owner = w, !.lease = LeaseTicks, !.attempts = @ + 1]

Claimed(r, w) ==
  [r EXCEPT !.state = "RUNNING", !.owner = w, !.lease = LeaseTicks,
            !.fence = @ + 1, !.attempts = @ + 1]

Released(r, state, wait) ==
  [r EXCEPT !.state = state, !.wait = wait, !.lease = None, !.owner = None]

Completed(r) == Released(r, "SUCCEEDED", r.wait)

\* Mutant of Failed: a retryable error is retried without end.
FailedUnbounded(r, retryable) ==
  IF retryable /\ ~DeadlineReached(r)
  THEN Released(r, "RETRY_WAIT", BackoffTicks)
  ELSE Released(r, "FAILED_REQUIRES_REVIEW", r.wait)

Failed(r, retryable) ==
  IF retryable /\ r.attempts < MaxAttempts /\ ~DeadlineReached(r)
  THEN Released(r, "RETRY_WAIT", BackoffTicks)
  ELSE Released(r, "FAILED_REQUIRES_REVIEW", r.wait)

\* Mutant of Recovered: the sweep reopens a job whose attempts are used up.
RecoveredUnbounded(r) ==
  IF ~DeadlineReached(r)
  THEN Released(r, "RETRY_WAIT", 0)
  ELSE Released(r, "FAILED_REQUIRES_REVIEW", r.wait)

Recovered(r) ==
  IF r.attempts < MaxAttempts /\ ~DeadlineReached(r)
  THEN Released(r, "RETRY_WAIT", 0)
  ELSE Released(r, "FAILED_REQUIRES_REVIEW", r.wait)

-----------------------------------------------------------------------------
(* API transactions *)

\* enqueue_job: available at once; only analysis jobs get a deadline.
Enqueue(j) ==
  /\ jobs[j].state = "ABSENT"
  /\ jobs' = [jobs EXCEPT ![j].state = "QUEUED",
                          ![j].deadline = IF j \in AnalysisJobs THEN DeadlineTicks ELSE None]
  /\ UNCHANGED <<workerVars, toCancel, done, retried>>

\* Mutant of RetryFailedJob: any finished job may be retried.
RetryAnyJob(j) ==
  /\ j \in RetriedJobs
  /\ jobs[j].state \notin {"ABSENT", "QUEUED", "RUNNING"}
  /\ jobs' = [jobs EXCEPT ![j] = Released(@, "RETRY_WAIT", 0)]
  /\ retried' = retried \cup {j}
  /\ UNCHANGED <<workerVars, toCancel, done>>

\* retry_failed_job: keeps attempt_count and deadline_at as they are.
RetryFailedJob(j) ==
  /\ j \in RetriedJobs
  /\ jobs[j].state \in {"FAILED_REQUIRES_REVIEW", "RETRY_WAIT"}
  /\ jobs' = [jobs EXCEPT ![j] = Released(@, "RETRY_WAIT", 0)]
  /\ retried' = retried \cup {j}
  /\ UNCHANGED <<workerVars, toCancel, done>>

\* disconnect_gmail reads the connection's pending jobs without locking them ...
DisconnectRead ==
  /\ toCancel = None
  /\ \E j \in GmailJobs : jobs[j].state # "ABSENT"
  /\ toCancel' = {j \in GmailJobs : jobs[j].state \in {"QUEUED", "RETRY_WAIT"}}
  /\ UNCHANGED <<jobVars, workerVars>>

\* ... and its flush writes state by primary key, whatever the row has become.
DisconnectWrite ==
  /\ toCancel # None
  /\ \A j \in toCancel : ~Locked(j)
  /\ jobs' = [j \in Jobs |-> IF j \in toCancel THEN [jobs[j] EXCEPT !.state = "CANCELLED"]
                             ELSE jobs[j]]
  /\ toCancel' = None
  /\ UNCHANGED <<workerVars, done, retried>>

-----------------------------------------------------------------------------
(* One Lambda invocation: the recovery sweep, then batches of claimed jobs *)

\* Mutants of Expired: without the row lock; with the comparison the wrong way round.
ExpiredDespiteLock(j) == jobs[j].state = "RUNNING" /\ jobs[j].lease # None /\ jobs[j].lease < 0
ExpiredTooEarly(j) == /\ jobs[j].state = "RUNNING"
                      /\ jobs[j].lease # None /\ jobs[j].lease > 0
                      /\ ~Locked(j)

\* recover_expired_jobs, the part of the sweep that writes jobs.
Expired(j) == /\ jobs[j].state = "RUNNING"
              /\ jobs[j].lease # None /\ jobs[j].lease < 0
              /\ ~Locked(j)

StartInvocation(w) ==
  /\ pc[w] = "idle"
  /\ jobs' = [j \in Jobs |-> IF Expired(j) THEN Recovered(jobs[j]) ELSE jobs[j]]
  /\ pc' = [pc EXCEPT ![w] = "claiming"]
  /\ UNCHANGED <<batch, current, handled, toCancel, done, retried>>

\* The rows claim_jobs selects. A lease is NULL or past.
Claimable == {j \in Jobs : /\ jobs[j].state \in {"QUEUED", "RETRY_WAIT"}
                           /\ jobs[j].wait = 0
                           /\ jobs[j].lease = None \/ jobs[j].lease <= 0}

BatchLimit(w) == IF BatchSize < MaxJobsPerInvocation - handled[w]
                 THEN BatchSize ELSE MaxJobsPerInvocation - handled[w]

\* LIMIT: as many rows as there are, up to the limit. Which rows come first (available_at,
\* created_at, id) is left open when there are more.
Selections(w) == {S \in SUBSET Claimable :
                    \/ S = Claimable /\ Cardinality(S) <= BatchLimit(w)
                    \/ Cardinality(Claimable) > BatchLimit(w) /\ Cardinality(S) = BatchLimit(w)}

\* Mutant of ViolatesCheck: one attempt too many passes.
ViolatesLooseCheck(j) == ~DeadlineReached(jobs[j]) /\ jobs[j].attempts > MaxAttempts

\* The CHECK attempt_count <= max_attempts of the jobs table.
ViolatesCheck(j) == ~DeadlineReached(jobs[j]) /\ jobs[j].attempts >= MaxAttempts

Claim(w) ==
  /\ pc[w] = "claiming"
  /\ \E S \in Selections(w) :
       LET run == {j \in S : ~DeadlineReached(jobs[j])} IN
       /\ \A j \in S : ~ViolatesCheck(j)
       /\ jobs' = [j \in Jobs |->
                     IF j \in run THEN Claimed(jobs[j], w)
                     ELSE IF j \in S
                          THEN [jobs[j] EXCEPT !.state = "FAILED_REQUIRES_REVIEW"]
                          ELSE jobs[j]]
       /\ batch' = [batch EXCEPT ![w] = {[job |-> j, gen |-> jobs[j].fence + 1] : j \in run}]
       /\ pc' = [pc EXCEPT ![w] = IF run = {} THEN "idle" ELSE "working"]
       /\ handled' = [handled EXCEPT ![w] = IF run = {} THEN 0 ELSE @]
  /\ UNCHANGED <<current, toCancel, done, retried>>

\* One row over the CHECK aborts the claim of the whole batch, and with it the invocation.
ClaimAborts(w) ==
  /\ pc[w] = "claiming"
  /\ \E S \in Selections(w) : \E j \in S : ViolatesCheck(j)
  /\ pc' = [pc EXCEPT ![w] = "idle"]
  /\ handled' = [handled EXCEPT ![w] = 0]
  /\ UNCHANGED <<jobVars, batch, current, toCancel>>

\* The handler's loop after a job: the rest of the batch, the next batch, or the end.
Proceed(w, rest) ==
  /\ batch' = [batch EXCEPT ![w] = rest]
  /\ current' = [current EXCEPT ![w] = None]
  /\ LET more == rest # {} \/ handled[w] + 1 < MaxJobsPerInvocation IN
       /\ handled' = [handled EXCEPT ![w] = IF more THEN @ + 1 ELSE 0]
       /\ pc' = [pc EXCEPT ![w] = IF rest # {} THEN "working"
                                  ELSE IF more THEN "claiming" ELSE "idle"]

\* The next lease of the batch: take it up in `stage`.
TakeUp(w, l, stage) ==
  /\ pc' = [pc EXCEPT ![w] = stage]
  /\ current' = [current EXCEPT ![w] = l]
  /\ batch' = [batch EXCEPT ![w] = @ \ {l}]
  /\ UNCHANGED handled

-----------------------------------------------------------------------------
(* Provider jobs: execute_claimed_job in one transaction *)

StartProviderJob(w) ==
  /\ pc[w] = "working"
  /\ \E l \in batch[w] :
       /\ l.job \notin AnalysisJobs /\ ~Locked(l.job) /\ Owns(w, l)
       /\ TakeUp(w, l, "executing")
  /\ UNCHANGED <<jobs, toCancel, done, retried>>

\* The lease has been lost meanwhile: ValueError, and the loop goes on.
SkipStaleLease(w) ==
  /\ pc[w] = "working"
  /\ \E l \in batch[w] :
       /\ l.job \notin AnalysisJobs /\ ~Locked(l.job) /\ ~Owns(w, l)
       /\ Proceed(w, batch[w] \ {l})
  /\ UNCHANGED <<jobVars, toCancel>>

\* The payload ran and complete_job commits with it (provider jobs have no deadline).
FinishProviderJob(w) ==
  /\ pc[w] = "executing"
  /\ LET l == current[w] IN
       /\ jobs' = [jobs EXCEPT ![l.job] = Completed(@)]
       /\ done' = [done EXCEPT ![l.job] = @ \cup {l.gen}]
  /\ Proceed(w, batch[w])
  /\ UNCHANGED <<toCancel, retried>>

\* The payload raised: fail_job, and the handler commits. Gmail and SES name the
\* errors that may be retried.
FailProviderJob(w, retryable) ==
  /\ pc[w] = "executing"
  /\ jobs' = [jobs EXCEPT ![current[w].job] = Failed(@, retryable)]
  /\ Proceed(w, batch[w])
  /\ UNCHANGED <<toCancel, done, retried>>

-----------------------------------------------------------------------------
(* Analysis jobs: a transaction before and one after the model call *)

BeginAnalysis(w) ==
  /\ pc[w] = "working"
  /\ \E l \in batch[w] :
       /\ l.job \in AnalysisJobs /\ Owns(w, l)
       /\ jobs' = [jobs EXCEPT ![l.job].lease = AnalysisLeaseTicks]
       /\ TakeUp(w, l, "analysing")
  /\ UNCHANGED <<toCancel, done, retried>>

FinishAnalysis(w) ==
  /\ pc[w] = "analysing"
  /\ LET l == current[w] IN
       /\ Owns(w, l) /\ ~DeadlinePassed(jobs[l.job])
       /\ jobs' = [jobs EXCEPT ![l.job] = Completed(@)]
       /\ done' = [done EXCEPT ![l.job] = @ \cup {l.gen}]
  /\ Proceed(w, batch[w])
  /\ UNCHANGED <<toCancel, retried>>

\* The error path of live.py: fail_job only while the lease is still this worker's.
AnalysisError(w, l) ==
  jobs' = IF Owns(w, l) THEN [jobs EXCEPT ![l.job] = Failed(@, @.attempts < MaxAttempts)]
          ELSE jobs

\* The first transaction raises (stale lease, unusable input, no budget) ...
RejectAnalysis(w) ==
  /\ pc[w] = "working"
  /\ \E l \in batch[w] :
       /\ l.job \in AnalysisJobs
       /\ AnalysisError(w, l)
       /\ Proceed(w, batch[w] \ {l})
  /\ UNCHANGED <<toCancel, done, retried>>

\* ... or the model call, or the second transaction, which then rolls back.
FailAnalysis(w) ==
  /\ pc[w] = "analysing"
  /\ AnalysisError(w, current[w])
  /\ Proceed(w, batch[w])
  /\ UNCHANGED <<toCancel, done, retried>>

-----------------------------------------------------------------------------
(* Environment *)

\* heartbeat_job: a minute from now, even when more is left.
Heartbeat(w) ==
  /\ w \in HeartbeatWorkers
  /\ \E l \in batch[w] \cup ({current[w]} \ {None}) :
       /\ Owns(w, l) /\ ~Locked(l.job)
       /\ jobs[l.job].lease >= 0
       /\ jobs' = [jobs EXCEPT ![l.job].lease = LeaseTicks]
  /\ UNCHANGED <<workerVars, toCancel, done, retried>>

\* The invocation dies: the Lambda timeout, lost database, a failed flush. Its open
\* transaction rolls back and its leases are forgotten.
Crash(w) ==
  /\ pc[w] # "idle"
  /\ pc' = [pc EXCEPT ![w] = "idle"]
  /\ batch' = [batch EXCEPT ![w] = {}]
  /\ current' = [current EXCEPT ![w] = None]
  /\ handled' = [handled EXCEPT ![w] = 0]
  /\ UNCHANGED <<jobVars, toCancel>>

\* Time passes for every row.
Countdown(n) == IF n = None \/ n = -1 THEN n ELSE n - 1

Tick ==
  /\ \E j \in Jobs : \/ jobs[j].wait > 0
                     \/ jobs[j].lease \notin {None, -1}
                     \/ jobs[j].deadline \notin {None, -1}
  /\ jobs' = [j \in Jobs |-> [jobs[j] EXCEPT !.wait = IF @ > 0 THEN @ - 1 ELSE 0,
                                             !.lease = Countdown(@),
                                             !.deadline = Countdown(@)]]
  /\ UNCHANGED <<workerVars, toCancel, done, retried>>

-----------------------------------------------------------------------------

\* What a running invocation does next, other than crash.
WorkerStep(w) ==
  \/ Claim(w) \/ ClaimAborts(w)
  \/ StartProviderJob(w) \/ SkipStaleLease(w)
  \/ FinishProviderJob(w) \/ \E retryable \in BOOLEAN : FailProviderJob(w, retryable)
  \/ BeginAnalysis(w) \/ FinishAnalysis(w) \/ RejectAnalysis(w) \/ FailAnalysis(w)

Next ==
  \/ \E j \in Jobs : Enqueue(j) \/ RetryFailedJob(j)
  \/ DisconnectRead \/ DisconnectWrite
  \/ \E w \in Workers : StartInvocation(w) \/ WorkerStep(w) \/ Heartbeat(w) \/ Crash(w)
  \/ Tick

Spec == Init /\ [][Next]_vars

\* The schedule invokes the Lambda every minute and time passes (weak fairness). An
\* invocation may crash, but not for ever before its next step (strong fairness: every
\* crash interrupts the step).
Fairness ==
  /\ \A w \in Workers : WF_vars(StartInvocation(w)) /\ SF_vars(WorkerStep(w))
  /\ WF_vars(Tick)

FairSpec == Spec /\ Fairness

-----------------------------------------------------------------------------
(* Properties *)

\* The leases invocation w keeps in memory.
Held(w) == batch[w] \cup ({current[w]} \ {None})

\* While a provider call is in flight its transaction still owns the job: neither the
\* sweep of another invocation nor a disconnect has taken the row away under it, however
\* long the call lasts (the row lock, not the lease, is what guarantees it).
ExecutionIsCurrent == \A w \in Workers : pc[w] = "executing" => Owns(w, current[w])

\* A lease in an invocation's memory never runs ahead of the row, and no two invocations
\* remember the same generation: the generation alone tells the holder from the superseded.
LeasesAreFenced ==
  \A w \in Workers : \A l \in Held(w) :
    /\ l.gen <= jobs[l.job].fence
    /\ jobs[l.job].state = "RUNNING" /\ l.gen = jobs[l.job].fence => jobs[l.job].owner = w
    /\ \A v \in Workers \ {w} : l \notin Held(v)

\* A result is committed at most once per job, by the last generation ever claimed, and
\* the job stays finished (a disconnect that read it earlier may still mark it cancelled).
\* README.md: "stale worker cannot commit after losing ownership".
CommittedWorkIsFinal ==
  \A j \in Jobs : done[j] # {} =>
    /\ done[j] = {jobs[j].fence}
    /\ \/ jobs[j].state = "SUCCEEDED"
       \/ jobs[j].state = "CANCELLED" /\ j \in GmailJobs

\* A runnable row whose attempts are used up breaks the CHECK of the next claim and aborts
\* the batch it is in. The job layer itself never makes one: only an operator's retry can.
PoisonOnlyByOperator ==
  \A j \in Jobs : jobs[j].state \in {"QUEUED", "RETRY_WAIT"} /\ jobs[j].attempts = MaxAttempts
                   => j \in retried

\* The table implements the life of a job that JobLifecycle promises: only an open
\* generation postpones, gives up or commits, a generation opens only on a runnable row with
\* attempts left, SUCCEEDED and CANCELLED jobs never run again.
Lifecycle == INSTANCE JobLifecycle WITH
  CancellableJobs <- GmailJobs,
  state           <- [j \in Jobs |-> jobs[j].state],
  generation      <- [j \in Jobs |-> jobs[j].fence],
  result          <- done
JobsFollowTheirLifecycle == Lifecycle!Spec

\* A lease is always given up: by its holder, or by the sweep once it has expired.
LeasesAreReleased == \A j \in Jobs : (jobs[j].state = "RUNNING") ~> (jobs[j].state # "RUNNING")

\* Every job that is enqueued reaches a final state or a human. The other jobs of the
\* table, whatever becomes of them, do not keep it from that.
\* TDD.md section 60: "Poison jobs do not block unrelated tenants."
Settled(j) == jobs[j].state \in {"SUCCEEDED", "FAILED_REQUIRES_REVIEW", "CANCELLED"}
EveryJobSettles == \A j \in Jobs \ RetriedJobs : (jobs[j].state = "QUEUED") ~> Settled(j)
=============================================================================

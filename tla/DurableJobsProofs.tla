-------------------------- MODULE DurableJobsProofs --------------------------
(***************************************************************************)
(* Safety of DurableJobs for every set of jobs and workers and every bound.*)
(*                                                                         *)
(* The argument: a lemma describes what each action does to ONE row        *)
(* (RowStep); the inductive invariant IInv and the refinement of           *)
(* JobLifecycle follow from it, with no further look at the actions.       *)
(***************************************************************************)
EXTENDS DurableJobs, TLAPS

\* A worker in the middle of a job knows its lease.
StagesHaveLeases ==
  \A w \in Workers : pc[w] \in {"executing", "analysing"} => current[w] \in Lease

\* The generation counts the attempts; a job that does not exist yet has none.
AttemptsAreGenerations ==
  \A j \in Jobs : /\ jobs[j].attempts = jobs[j].fence
                  /\ jobs[j].state = "ABSENT" => jobs[j].fence = 0

\* A disconnect only ever read rows that exist.
CancelledJobsExist == toCancel # None => \A j \in toCancel : jobs[j].state # "ABSENT"

IInv ==
  /\ TypeOK
  /\ StagesHaveLeases
  /\ AttemptsAreGenerations
  /\ CancelledJobsExist
  /\ ExecutionIsCurrent
  /\ LeasesAreFenced
  /\ CommittedWorkIsFinal
  /\ PoisonOnlyByOperator

-----------------------------------------------------------------------------
(* The writes on one row *)

\* Taking a claimed row: a new generation, one more attempt.
LEMMA ClaimedRow ==
  ASSUME NEW r \in JobRow, NEW w \in Workers, r.attempts < MaxAttempts
  PROVE  /\ Claimed(r, w) \in JobRow
         /\ Claimed(r, w).state = "RUNNING"
         /\ Claimed(r, w).owner = w
         /\ Claimed(r, w).fence = r.fence + 1
         /\ Claimed(r, w).attempts = r.attempts + 1
<1>1. r.attempts + 1 \in 0..MaxAttempts
  BY BoundsAssumption DEF JobRow
<1>2. LeaseTicks \in Left /\ "RUNNING" \in JobStates
  BY BoundsAssumption DEF Left, JobStates
<1>3. r.fence + 1 \in Nat
  BY DEF JobRow
<1> QED
  BY <1>1, <1>2, <1>3 DEF Claimed, JobRow

\* Releasing a row keeps its generation and its attempts.
LEMMA ReleasedRow ==
  ASSUME NEW r \in JobRow, NEW s \in JobStates, NEW n \in Nat
  PROVE  /\ Released(r, s, n) \in JobRow
         /\ Released(r, s, n).state = s
         /\ Released(r, s, n).fence = r.fence
         /\ Released(r, s, n).attempts = r.attempts
BY DEF Released, JobRow, Left

\* Completing a row keeps its shape.
LEMMA CompletedRow ==
  ASSUME NEW r \in JobRow
  PROVE  /\ Completed(r) \in JobRow
         /\ Completed(r).state = "SUCCEEDED"
         /\ Completed(r).fence = r.fence
         /\ Completed(r).attempts = r.attempts
<1>1. r.wait \in Nat /\ "SUCCEEDED" \in JobStates
  BY DEF JobRow, JobStates
<1> QED
  BY <1>1, ReleasedRow DEF Completed

\* A failed job waits for a retry only while it has attempts left.
LEMMA FailedRow ==
  ASSUME NEW r \in JobRow, NEW retryable
  PROVE  /\ Failed(r, retryable) \in JobRow
         /\ \/ Failed(r, retryable).state = "RETRY_WAIT" /\ r.attempts < MaxAttempts
            \/ Failed(r, retryable).state = "FAILED_REQUIRES_REVIEW"
         /\ Failed(r, retryable).fence = r.fence
         /\ Failed(r, retryable).attempts = r.attempts
<1>1. /\ r.wait \in Nat /\ BackoffTicks \in Nat
      /\ "RETRY_WAIT" \in JobStates /\ "FAILED_REQUIRES_REVIEW" \in JobStates
  BY BoundsAssumption DEF JobRow, JobStates
<1> QED
  BY <1>1, ReleasedRow DEF Failed

\* The same of a job whose lease ran out.
LEMMA RecoveredRow ==
  ASSUME NEW r \in JobRow
  PROVE  /\ Recovered(r) \in JobRow
         /\ \/ Recovered(r).state = "RETRY_WAIT" /\ r.attempts < MaxAttempts
            \/ Recovered(r).state = "FAILED_REQUIRES_REVIEW"
         /\ Recovered(r).fence = r.fence
         /\ Recovered(r).attempts = r.attempts
<1>1. /\ r.wait \in Nat /\ 0 \in Nat
      /\ "RETRY_WAIT" \in JobStates /\ "FAILED_REQUIRES_REVIEW" \in JobStates
  BY DEF JobRow, JobStates
<1> QED
  BY <1>1, ReleasedRow DEF Recovered

\* The clock touches none of what identifies a lease.
LEMMA CountdownType ==
  ASSUME NEW n \in Left
  PROVE  Countdown(n) \in Left
BY BoundsAssumption DEF Countdown, Left

-----------------------------------------------------------------------------
(* Types *)

\* The loop of the handler moves on within its types.
LEMMA ProceedType ==
  ASSUME TypeOK, NEW w \in Workers, NEW rest \in SUBSET Lease, Proceed(w, rest)
  PROVE  /\ pc' \in [Workers -> {"idle", "claiming", "working", "executing", "analysing"}]
         /\ batch' \in [Workers -> SUBSET Lease]
         /\ current' \in [Workers -> Lease \cup {None}]
         /\ handled' \in [Workers -> Nat]
BY DEF TypeOK, Proceed

\* So does taking up a lease.
LEMMA TakeUpType ==
  ASSUME TypeOK, NEW w \in Workers, NEW l \in batch[w], NEW stage \in {"executing", "analysing"},
         TakeUp(w, l, stage)
  PROVE  /\ pc' \in [Workers -> {"idle", "claiming", "working", "executing", "analysing"}]
         /\ batch' \in [Workers -> SUBSET Lease]
         /\ current' \in [Workers -> Lease \cup {None}]
         /\ handled' \in [Workers -> Nat]
         /\ l \in Lease
BY DEF TypeOK, TakeUp

\* Every action keeps the types.
LEMMA TypeStep ==
  ASSUME TypeOK, StagesHaveLeases, [Next]_vars
  PROVE  TypeOK'
<1> USE DEF TypeOK, jobVars, workerVars
<1>1. ASSUME NEW j \in Jobs, Enqueue(j)
      PROVE  TypeOK'
  <2>1. DeadlineTicks \in Left /\ None \in Left /\ "QUEUED" \in JobStates
    BY BoundsAssumption DEF Left, JobStates
  <2>2. [jobs[j] EXCEPT !.state = "QUEUED",
                        !.deadline = IF j \in AnalysisJobs THEN DeadlineTicks ELSE None] \in JobRow
    BY <2>1 DEF JobRow
  <2> QED
    BY <1>1, <2>2 DEF Enqueue
<1>2. ASSUME NEW j \in Jobs, RetryFailedJob(j)
      PROVE  TypeOK'
  <2>1. Released(jobs[j], "RETRY_WAIT", 0) \in JobRow
    BY ReleasedRow DEF JobStates
  <2> QED
    BY <1>2, <2>1 DEF RetryFailedJob
<1>3. CASE DisconnectRead
  BY <1>3 DEF DisconnectRead
<1>4. CASE DisconnectWrite
  <2>1. ASSUME NEW j \in Jobs
        PROVE  [jobs[j] EXCEPT !.state = "CANCELLED"] \in JobRow
    BY DEF JobRow, JobStates
  <2> QED
    BY <1>4, <2>1 DEF DisconnectWrite
<1>5. ASSUME NEW w \in Workers, StartInvocation(w)
      PROVE  TypeOK'
  BY <1>5, RecoveredRow DEF StartInvocation
<1>6. ASSUME NEW w \in Workers, Claim(w)
      PROVE  TypeOK'
  <2>1. PICK S \in Selections(w) : Claim(w)!2!(S)
    BY <1>6 DEF Claim
  <2> DEFINE run == {j \in S : ~DeadlineReached(jobs[j])}
  <2>2. S \subseteq Jobs
    BY <2>1 DEF Selections, Claimable
  <2>3. \A j \in run : jobs[j].attempts < MaxAttempts
    BY <2>1, <2>2, BoundsAssumption DEF ViolatesCheck, JobRow
  <2>4. \A j \in run : Claimed(jobs[j], w) \in JobRow
    BY <2>2, <2>3, ClaimedRow
  <2>5. \A j \in Jobs : [jobs[j] EXCEPT !.state = "FAILED_REQUIRES_REVIEW"] \in JobRow
    BY DEF JobRow, JobStates
  <2>6. jobs' \in [Jobs -> JobRow]
    BY <2>1, <2>4, <2>5
  <2>7. \A j \in run : [job |-> j, gen |-> jobs[j].fence + 1] \in Lease
    BY <2>2 DEF Lease, JobRow
  <2>8. batch' \in [Workers -> SUBSET Lease]
    BY <2>1, <2>7
  <2> QED
    BY <1>6, <2>1, <2>6, <2>8 DEF Claim
<1>7. ASSUME NEW w \in Workers, ClaimAborts(w)
      PROVE  TypeOK'
  BY <1>7 DEF ClaimAborts
<1>8. ASSUME NEW w \in Workers, StartProviderJob(w)
      PROVE  TypeOK'
  <2>1. PICK l \in batch[w] : TakeUp(w, l, "executing")
    BY <1>8 DEF StartProviderJob
  <2> QED
    BY <1>8, <2>1, TakeUpType DEF StartProviderJob
<1>9. ASSUME NEW w \in Workers, SkipStaleLease(w)
      PROVE  TypeOK'
  <2>1. PICK l \in batch[w] : Proceed(w, batch[w] \ {l})
    BY <1>9 DEF SkipStaleLease
  <2>2. batch[w] \ {l} \in SUBSET Lease
    OBVIOUS
  <2> QED
    BY <1>9, <2>1, <2>2, ProceedType DEF SkipStaleLease
<1>10. ASSUME NEW w \in Workers, FinishProviderJob(w)
       PROVE  TypeOK'
  <2>1. current[w] \in Lease /\ batch[w] \in SUBSET Lease
    BY <1>10 DEF FinishProviderJob, StagesHaveLeases
  <2>2. current[w].job \in Jobs /\ current[w].gen \in Nat
    BY <2>1 DEF Lease
  <2>3. Completed(jobs[current[w].job]) \in JobRow
    BY <2>2, CompletedRow
  <2> QED
    BY <1>10, <2>1, <2>2, <2>3, ProceedType DEF FinishProviderJob
<1>11. ASSUME NEW w \in Workers, NEW retryable \in BOOLEAN, FailProviderJob(w, retryable)
       PROVE  TypeOK'
  <2>1. current[w] \in Lease /\ batch[w] \in SUBSET Lease
    BY <1>11 DEF FailProviderJob, StagesHaveLeases
  <2>2. current[w].job \in Jobs
    BY <2>1 DEF Lease
  <2>3. Failed(jobs[current[w].job], retryable) \in JobRow
    BY <2>2, FailedRow
  <2> QED
    BY <1>11, <2>1, <2>2, <2>3, ProceedType DEF FailProviderJob
<1>12. ASSUME NEW w \in Workers, BeginAnalysis(w)
       PROVE  TypeOK'
  <2>1. PICK l \in batch[w] : /\ jobs' = [jobs EXCEPT ![l.job].lease = AnalysisLeaseTicks]
                             /\ TakeUp(w, l, "analysing")
    BY <1>12 DEF BeginAnalysis
  <2>2. l.job \in Jobs
    BY <2>1, TakeUpType DEF Lease
  <2>3. [jobs[l.job] EXCEPT !.lease = AnalysisLeaseTicks] \in JobRow
    BY <2>2, BoundsAssumption DEF JobRow, Left
  <2> QED
    BY <1>12, <2>1, <2>2, <2>3, TakeUpType DEF BeginAnalysis
<1>13. ASSUME NEW w \in Workers, FinishAnalysis(w)
       PROVE  TypeOK'
  <2>1. current[w] \in Lease /\ batch[w] \in SUBSET Lease
    BY <1>13 DEF FinishAnalysis, StagesHaveLeases
  <2>2. current[w].job \in Jobs /\ current[w].gen \in Nat
    BY <2>1 DEF Lease
  <2>3. Completed(jobs[current[w].job]) \in JobRow
    BY <2>2, CompletedRow
  <2> QED
    BY <1>13, <2>1, <2>2, <2>3, ProceedType DEF FinishAnalysis
<1>14. ASSUME NEW w \in Workers, NEW l \in Lease, AnalysisError(w, l)
       PROVE  jobs' \in [Jobs -> JobRow]
  <2>1. l.job \in Jobs
    BY DEF Lease
  <2>2. Failed(jobs[l.job], jobs[l.job].attempts < MaxAttempts) \in JobRow
    BY <2>1, FailedRow
  <2> QED
    BY <1>14, <2>1, <2>2 DEF AnalysisError
<1>15. ASSUME NEW w \in Workers, RejectAnalysis(w)
       PROVE  TypeOK'
  <2>1. PICK l \in batch[w] : AnalysisError(w, l) /\ Proceed(w, batch[w] \ {l})
    BY <1>15 DEF RejectAnalysis
  <2>2. batch[w] \ {l} \in SUBSET Lease /\ l \in Lease
    OBVIOUS
  <2> QED
    BY <1>14, <1>15, <2>1, <2>2, ProceedType DEF RejectAnalysis
<1>16. ASSUME NEW w \in Workers, FailAnalysis(w)
       PROVE  TypeOK'
  <2>1. current[w] \in Lease /\ batch[w] \in SUBSET Lease
    BY <1>16 DEF FailAnalysis, StagesHaveLeases
  <2> QED
    BY <1>14, <1>16, <2>1, ProceedType DEF FailAnalysis
<1>17. ASSUME NEW w \in Workers, Heartbeat(w)
       PROVE  TypeOK'
  <2>1. PICK l \in batch[w] \cup ({current[w]} \ {None}) :
                jobs' = [jobs EXCEPT ![l.job].lease = LeaseTicks]
    BY <1>17 DEF Heartbeat
  <2>2. l.job \in Jobs
    BY <2>1 DEF Lease
  <2>3. [jobs[l.job] EXCEPT !.lease = LeaseTicks] \in JobRow
    BY <2>2, BoundsAssumption DEF JobRow, Left
  <2> QED
    BY <1>17, <2>1, <2>2, <2>3 DEF Heartbeat
<1>18. ASSUME NEW w \in Workers, Crash(w)
       PROVE  TypeOK'
  BY <1>18 DEF Crash
<1>19. CASE Tick
  <2>1. ASSUME NEW j \in Jobs
        PROVE  [jobs[j] EXCEPT !.wait = IF @ > 0 THEN @ - 1 ELSE 0,
                               !.lease = Countdown(@),
                               !.deadline = Countdown(@)] \in JobRow
    <3>1. /\ Countdown(jobs[j].lease) \in Left
          /\ Countdown(jobs[j].deadline) \in Left
      BY CountdownType DEF JobRow
    <3>2. (IF jobs[j].wait > 0 THEN jobs[j].wait - 1 ELSE 0) \in Nat
      BY DEF JobRow
    <3> QED
      BY <3>1, <3>2 DEF JobRow
  <2> QED
    BY <1>19, <2>1 DEF Tick
<1>20. CASE UNCHANGED vars
  BY <1>20 DEF vars
<1> QED
  BY <1>1, <1>2, <1>3, <1>4, <1>5, <1>6, <1>7, <1>8, <1>9, <1>10, <1>11, <1>12, <1>13,
     <1>15, <1>16, <1>17, <1>18, <1>19, <1>20 DEF Next, WorkerStep

-----------------------------------------------------------------------------
(* What a step does to one row *)

\* Generation, attempts and result stay as they are.
Kept(j) == /\ jobs'[j].fence = jobs[j].fence
           /\ jobs'[j].attempts = jobs[j].attempts
           /\ done'[j] = done[j]

RowStay(j) == Kept(j) /\ jobs'[j].state = jobs[j].state /\ jobs'[j].owner = jobs[j].owner

RowSubmit(j) == Kept(j) /\ jobs[j].state = "ABSENT" /\ jobs'[j].state = "QUEUED"

RowPostpone(j) == /\ Kept(j) /\ jobs[j].attempts < MaxAttempts
                  /\ jobs[j].state = "RUNNING" /\ jobs'[j].state = "RETRY_WAIT"

RowGiveUp(j) == /\ Kept(j) /\ jobs[j].state \in {"RUNNING", "QUEUED", "RETRY_WAIT"}
                /\ jobs'[j].state = "FAILED_REQUIRES_REVIEW"

RowReopen(j) == /\ Kept(j) /\ j \in retried'
                /\ jobs[j].state \in {"FAILED_REQUIRES_REVIEW", "RETRY_WAIT"}
                /\ jobs'[j].state = "RETRY_WAIT"

RowCancel(j) == /\ Kept(j) /\ j \in GmailJobs
                /\ jobs[j].state # "ABSENT" /\ jobs'[j].state = "CANCELLED"

RowCommit(j) == /\ jobs[j].state = "RUNNING" /\ jobs'[j].state = "SUCCEEDED"
                /\ jobs'[j].fence = jobs[j].fence /\ jobs'[j].attempts = jobs[j].attempts
                /\ done'[j] = done[j] \cup {jobs[j].fence}

RowMove(j) == \/ RowStay(j) \/ RowSubmit(j) \/ RowPostpone(j) \/ RowGiveUp(j)
              \/ RowReopen(j) \/ RowCancel(j) \/ RowCommit(j)

RowTake(j) == /\ jobs[j].state \in {"QUEUED", "RETRY_WAIT"} /\ jobs'[j].state = "RUNNING"
              /\ jobs[j].attempts < MaxAttempts
              /\ jobs'[j].fence = jobs[j].fence + 1
              /\ jobs'[j].attempts = jobs[j].attempts + 1
              /\ done'[j] = done[j]

\* The one row a failing job is written to: postponed or given up.
LEMMA FailedStep ==
  ASSUME TypeOK, NEW w, NEW l \in Lease, NEW retryable, Owns(w, l),
         jobs' = [jobs EXCEPT ![l.job] = Failed(@, retryable)], UNCHANGED done
  PROVE  \A j \in Jobs : RowMove(j)
<1> DEFINE r == jobs[l.job]
<1>1. l.job \in Jobs /\ r \in JobRow /\ r.state = "RUNNING"
  BY DEF Lease, TypeOK, Owns
<1>2. jobs'[l.job] = Failed(r, retryable)
  BY <1>1 DEF TypeOK
<1>3. RowPostpone(l.job) \/ RowGiveUp(l.job)
  <2> HIDE DEF r
  <2>1. Kept(l.job)
    BY <1>1, <1>2, FailedRow DEF Kept, r
  <2> QED
    BY <1>1, <1>2, <2>1, FailedRow DEF RowPostpone, RowGiveUp, r
<1>4. \A j \in Jobs \ {l.job} : RowStay(j)
  BY DEF TypeOK, RowStay, Kept
<1> QED
  BY <1>3, <1>4 DEF RowMove

\* The one row a finished job is written to.
LEMMA CompletedStep ==
  ASSUME TypeOK, NEW w, NEW l \in Lease, Owns(w, l),
         jobs' = [jobs EXCEPT ![l.job] = Completed(@)],
         done' = [done EXCEPT ![l.job] = @ \cup {l.gen}]
  PROVE  \A j \in Jobs : RowMove(j)
<1>1. l.job \in Jobs /\ jobs[l.job] \in JobRow /\ jobs[l.job].state = "RUNNING"
  BY DEF Lease, TypeOK, Owns
<1>2. jobs'[l.job] = Completed(jobs[l.job]) /\ done'[l.job] = done[l.job] \cup {jobs[l.job].fence}
  BY <1>1 DEF TypeOK, Owns
<1>3. RowCommit(l.job)
  BY <1>1, <1>2, CompletedRow DEF RowCommit
<1>4. \A j \in Jobs \ {l.job} : RowStay(j)
  BY DEF TypeOK, RowStay, Kept
<1> QED
  BY <1>3, <1>4 DEF RowMove

\* A renewed lease moves nothing else.
LEMMA LeaseOnlyStep ==
  ASSUME TypeOK, NEW k, NEW n, jobs' = [jobs EXCEPT ![k].lease = n], UNCHANGED done
  PROVE  \A j \in Jobs : RowMove(j)
BY DEF TypeOK, JobRow, RowMove, RowStay, Kept

\* Rows as they were.
LEMMA NoRowStep ==
  ASSUME UNCHANGED <<jobs, done>>
  PROVE  \A j \in Jobs : RowMove(j)
BY DEF RowMove, RowStay, Kept

\* The batch claim: some rows are taken, those past their deadline are given up.
LEMMA ClaimStep ==
  ASSUME TypeOK, NEW w \in Workers, Claim(w)
  PROVE  \A j \in Jobs : RowMove(j) \/ RowTake(j)
<1>1. PICK S \in Selections(w) : Claim(w)!2!(S)
  BY DEF Claim
<1> DEFINE run == {j \in S : ~DeadlineReached(jobs[j])}
<1>2. S \subseteq Claimable /\ done' = done
  BY <1>1 DEF Selections, Claim, Claimable
<1> SUFFICES ASSUME NEW j \in Jobs
             PROVE  RowMove(j) \/ RowTake(j)
  OBVIOUS
<1>3. jobs[j] \in JobRow
  BY DEF TypeOK
<1>4. CASE j \in run
  <2>1. jobs'[j] = Claimed(jobs[j], w)
    BY <1>1, <1>4
  <2>2. jobs[j].state \in {"QUEUED", "RETRY_WAIT"}
    BY <1>2, <1>4 DEF Claimable
  <2>3. jobs[j].attempts < MaxAttempts
    BY <1>1, <1>3, <1>4, BoundsAssumption DEF ViolatesCheck, JobRow
  <2> QED
    BY <1>2, <1>3, <2>1, <2>2, <2>3, ClaimedRow DEF RowTake
<1>5. CASE j \in S \ run
  <2>1. jobs'[j] = [jobs[j] EXCEPT !.state = "FAILED_REQUIRES_REVIEW"]
    BY <1>1, <1>5
  <2>2. jobs[j].state \in {"QUEUED", "RETRY_WAIT"}
    BY <1>2, <1>5 DEF Claimable
  <2>3. RowGiveUp(j)
    BY <1>2, <1>3, <2>1, <2>2 DEF RowGiveUp, Kept, JobRow
  <2> QED
    BY <2>3 DEF RowMove
<1>6. CASE j \notin S
  <2>1. jobs'[j] = jobs[j]
    BY <1>1, <1>6
  <2> QED
    BY <1>2, <2>1 DEF RowMove, RowStay, Kept
<1> QED
  BY <1>4, <1>5, <1>6

\* Every step moves every row along its life, and takes rows only in a claim.
LEMMA RowSteps ==
  ASSUME TypeOK, StagesHaveLeases, CancelledJobsExist, ExecutionIsCurrent, [Next]_vars
  PROVE  /\ retried \subseteq retried'
         /\ \/ \A j \in Jobs : RowMove(j)
            \/ \E w \in Workers : Claim(w) /\ \A j \in Jobs : RowMove(j) \/ RowTake(j)
<1> USE DEF jobVars, workerVars
<1> DEFINE Goal == retried \subseteq retried' /\ \A j \in Jobs : RowMove(j)
<1>1. ASSUME NEW k \in Jobs, Enqueue(k)
      PROVE  Goal
  <2>1. RowSubmit(k)
    BY <1>1 DEF Enqueue, TypeOK, JobRow, RowSubmit, Kept
  <2>2. \A j \in Jobs \ {k} : RowStay(j)
    BY <1>1 DEF Enqueue, TypeOK, RowStay, Kept
  <2> QED
    BY <1>1, <2>1, <2>2 DEF Enqueue, RowMove
<1>2. ASSUME NEW k \in Jobs, RetryFailedJob(k)
      PROVE  Goal
  <2>1. jobs'[k] = Released(jobs[k], "RETRY_WAIT", 0) /\ jobs[k] \in JobRow
    BY <1>2 DEF RetryFailedJob, TypeOK
  <2>2. RowReopen(k)
    <3>1. "RETRY_WAIT" \in JobStates /\ 0 \in Nat
      BY DEF JobStates
    <3>2. /\ jobs'[k].state = "RETRY_WAIT"
          /\ jobs'[k].fence = jobs[k].fence /\ jobs'[k].attempts = jobs[k].attempts
      BY <2>1, <3>1, ReleasedRow
    <3> QED
      BY <1>2, <3>2 DEF RetryFailedJob, RowReopen, Kept
  <2>3. \A j \in Jobs \ {k} : RowStay(j)
    BY <1>2 DEF RetryFailedJob, TypeOK, RowStay, Kept
  <2> QED
    BY <1>2, <2>2, <2>3 DEF RetryFailedJob, RowMove
<1>3. CASE DisconnectRead
  BY <1>3, NoRowStep DEF DisconnectRead
<1>4. CASE DisconnectWrite
  <2>1. \A j \in Jobs \cap toCancel : RowCancel(j)
    BY <1>4, JobsAssumption DEF DisconnectWrite, TypeOK, JobRow, CancelledJobsExist, RowCancel, Kept
  <2>2. \A j \in Jobs \ toCancel : RowStay(j)
    BY <1>4 DEF DisconnectWrite, TypeOK, RowStay, Kept
  <2> QED
    BY <1>4, <2>1, <2>2 DEF DisconnectWrite, RowMove
<1>5. ASSUME NEW w \in Workers, StartInvocation(w)
      PROVE  Goal
  <2>1. ASSUME NEW j \in Jobs
        PROVE  RowMove(j)
    <3>1. CASE Expired(j)
      <4>1. jobs'[j] = Recovered(jobs[j]) /\ jobs[j] \in JobRow /\ jobs[j].state = "RUNNING"
        BY <1>5, <3>1 DEF StartInvocation, TypeOK, Expired
      <4>2. Kept(j)
        BY <1>5, <4>1, RecoveredRow DEF StartInvocation, Kept
      <4> QED
        BY <4>1, <4>2, RecoveredRow DEF RowMove, RowPostpone, RowGiveUp
    <3>2. CASE ~Expired(j)
      BY <1>5, <3>2 DEF StartInvocation, RowMove, RowStay, Kept
    <3> QED
      BY <3>1, <3>2
  <2> QED
    BY <1>5, <2>1 DEF StartInvocation
<1>6. ASSUME NEW w \in Workers, Claim(w)
      PROVE  retried \subseteq retried' /\ \A j \in Jobs : RowMove(j) \/ RowTake(j)
  BY <1>6, ClaimStep DEF Claim
<1>7. ASSUME NEW w \in Workers, ClaimAborts(w)
      PROVE  Goal
  BY <1>7, NoRowStep DEF ClaimAborts
<1>8. ASSUME NEW w \in Workers, StartProviderJob(w)
      PROVE  Goal
  BY <1>8, NoRowStep DEF StartProviderJob
<1>9. ASSUME NEW w \in Workers, SkipStaleLease(w)
      PROVE  Goal
  BY <1>9, NoRowStep DEF SkipStaleLease
<1>10. ASSUME NEW w \in Workers, FinishProviderJob(w)
       PROVE  Goal
  <2>1. current[w] \in Lease /\ Owns(w, current[w])
    BY <1>10 DEF FinishProviderJob, StagesHaveLeases, ExecutionIsCurrent
  <2> QED
    BY <1>10, <2>1, CompletedStep DEF FinishProviderJob
<1>11. ASSUME NEW w \in Workers, NEW retryable \in BOOLEAN, FailProviderJob(w, retryable)
       PROVE  Goal
  <2>1. current[w] \in Lease /\ Owns(w, current[w])
    BY <1>11 DEF FailProviderJob, StagesHaveLeases, ExecutionIsCurrent
  <2> QED
    BY <1>11, <2>1, FailedStep DEF FailProviderJob
<1>12. ASSUME NEW w \in Workers, BeginAnalysis(w)
       PROVE  Goal
  BY <1>12, LeaseOnlyStep DEF BeginAnalysis
<1>13. ASSUME NEW w \in Workers, FinishAnalysis(w)
       PROVE  Goal
  <2>1. current[w] \in Lease
    BY <1>13 DEF FinishAnalysis, StagesHaveLeases
  <2> QED
    BY <1>13, <2>1, CompletedStep DEF FinishAnalysis
<1>14. ASSUME NEW w \in Workers, NEW l \in Lease, AnalysisError(w, l), UNCHANGED done
       PROVE  \A j \in Jobs : RowMove(j)
  <2>1. CASE Owns(w, l)
    <3> DEFINE more == jobs[l.job].attempts < MaxAttempts
    <3>1. jobs' = [jobs EXCEPT ![l.job] = Failed(@, more)]
      BY <1>14, <2>1 DEF AnalysisError, Lease, TypeOK
    <3> HIDE DEF more
    <3> QED
      BY <1>14, <2>1, <3>1, FailedStep
  <2>2. CASE ~Owns(w, l)
    BY <1>14, <2>2, NoRowStep DEF AnalysisError
  <2> QED
    BY <2>1, <2>2
<1>15. ASSUME NEW w \in Workers, RejectAnalysis(w)
       PROVE  Goal
  <2>1. PICK l \in batch[w] : AnalysisError(w, l)
    BY <1>15 DEF RejectAnalysis
  <2>2. l \in Lease
    BY DEF TypeOK
  <2> QED
    BY <1>14, <1>15, <2>1, <2>2 DEF RejectAnalysis
<1>16. ASSUME NEW w \in Workers, FailAnalysis(w)
       PROVE  Goal
  <2>1. current[w] \in Lease
    BY <1>16 DEF FailAnalysis, StagesHaveLeases
  <2> QED
    BY <1>14, <1>16, <2>1 DEF FailAnalysis
<1>17. ASSUME NEW w \in Workers, Heartbeat(w)
       PROVE  Goal
  BY <1>17, LeaseOnlyStep DEF Heartbeat
<1>18. ASSUME NEW w \in Workers, Crash(w)
       PROVE  Goal
  BY <1>18, NoRowStep DEF Crash
<1>19. CASE Tick
  BY <1>19 DEF Tick, TypeOK, JobRow, RowMove, RowStay, Kept
<1>20. CASE UNCHANGED vars
  BY <1>20, NoRowStep DEF vars
<1> QED
  BY <1>1, <1>2, <1>3, <1>4, <1>5, <1>6, <1>7, <1>8, <1>9, <1>10, <1>11, <1>12, <1>13,
     <1>15, <1>16, <1>17, <1>18, <1>19, <1>20 DEF Next, WorkerStep

-----------------------------------------------------------------------------
(* Provider calls and leases *)

\* A row on which a provider call is in flight moves only when that call ends.
LEMMA LockedRowStays ==
  ASSUME TypeOK, StagesHaveLeases, CancelledJobsExist, ExecutionIsCurrent, [Next]_vars,
         NEW w \in Workers, pc[w] = "executing",
         pc'[w] = "executing" /\ current'[w] = current[w]
  PROVE  LET j == current[w].job IN
           /\ jobs'[j].state = jobs[j].state
           /\ jobs'[j].owner = jobs[j].owner
           /\ jobs'[j].fence = jobs[j].fence
<1> USE DEF jobVars, workerVars
<1> DEFINE k == current[w].job
           Same == /\ jobs'[k].state = jobs[k].state
                   /\ jobs'[k].owner = jobs[k].owner
                   /\ jobs'[k].fence = jobs[k].fence
<1>1. k \in Jobs /\ jobs[k] \in JobRow
  BY DEF StagesHaveLeases, Lease, TypeOK
<1>2. jobs[k].state = "RUNNING" /\ jobs[k].owner = w /\ Locked(k)
  BY DEF ExecutionIsCurrent, Owns, Locked
<1> SUFFICES Same
  OBVIOUS
<1> HIDE DEF k
<1>3. ASSUME NEW j \in Jobs, Enqueue(j) \/ RetryFailedJob(j)
      PROVE  Same
  BY <1>1, <1>2, <1>3 DEF Enqueue, RetryFailedJob, TypeOK
<1>4. CASE DisconnectRead \/ DisconnectWrite
  BY <1>1, <1>2, <1>4 DEF DisconnectRead, DisconnectWrite, TypeOK
<1>5. ASSUME NEW v \in Workers, StartInvocation(v)
      PROVE  Same
  BY <1>1, <1>2, <1>5 DEF StartInvocation, Expired
<1>6. ASSUME NEW v \in Workers, Claim(v)
      PROVE  Same
  <2>1. PICK S \in Selections(v) : Claim(v)!2!(S)
    BY <1>6 DEF Claim
  <2>2. k \notin S
    BY <1>2 DEF Selections, Claimable
  <2> QED
    BY <1>1, <2>1, <2>2
<1>7. ASSUME NEW v \in Workers,
             ClaimAborts(v) \/ StartProviderJob(v) \/ SkipStaleLease(v) \/ Crash(v)
      PROVE  Same
  BY <1>7 DEF ClaimAborts, StartProviderJob, SkipStaleLease, Crash
<1>8. ASSUME NEW v \in Workers, NEW l, NEW row, Owns(v, l), v # w,
             jobs' = [jobs EXCEPT ![l.job] = row]
      PROVE  Same
  <2>1. l.job # k
    BY <1>2, <1>8 DEF Owns
  <2> QED
    BY <1>1, <1>8, <2>1 DEF TypeOK
<1>9. ASSUME NEW v \in Workers, pc[v] # "executing" \/ pc'[v] # "executing"
      PROVE  v # w
  BY <1>9
<1>10. ASSUME NEW v \in Workers, NEW rest, Proceed(v, rest)
       PROVE  pc'[v] # "executing"
  BY <1>10 DEF Proceed, TypeOK
<1>11. ASSUME NEW v \in Workers, FinishProviderJob(v)
       PROVE  Same
  <2>1. Owns(v, current[v]) /\ v # w
    BY <1>9, <1>10, <1>11 DEF FinishProviderJob, ExecutionIsCurrent
  <2> QED
    BY <1>8, <1>11, <2>1 DEF FinishProviderJob
<1>12. ASSUME NEW v \in Workers, NEW retryable \in BOOLEAN, FailProviderJob(v, retryable)
       PROVE  Same
  <2>1. Owns(v, current[v]) /\ v # w
    BY <1>9, <1>10, <1>12 DEF FailProviderJob, ExecutionIsCurrent
  <2>2. jobs' = [jobs EXCEPT ![current[v].job] = Failed(jobs[current[v].job], retryable)]
    BY <1>12 DEF FailProviderJob
  <2> QED
    BY <1>8, <2>1, <2>2
<1>13. ASSUME NEW v \in Workers, BeginAnalysis(v)
       PROVE  Same
  BY <1>1, <1>13 DEF BeginAnalysis, TypeOK, JobRow
<1>14. ASSUME NEW v \in Workers, FinishAnalysis(v)
       PROVE  Same
  <2>1. Owns(v, current[v]) /\ v # w
    BY <1>9, <1>14 DEF FinishAnalysis
  <2>2. jobs' = [jobs EXCEPT ![current[v].job] = Completed(jobs[current[v].job])]
    BY <1>14 DEF FinishAnalysis
  <2> QED
    BY <1>8, <2>1, <2>2
<1>15. ASSUME NEW v \in Workers, NEW l, v # w, AnalysisError(v, l)
       PROVE  Same
  <2>1. CASE Owns(v, l)
    <3>1. PICK row : jobs' = [jobs EXCEPT ![l.job] = row]
      BY <1>15, <2>1 DEF AnalysisError
    <3> QED
      BY <1>8, <1>15, <2>1, <3>1
  <2>2. CASE ~Owns(v, l)
    BY <1>15, <2>2 DEF AnalysisError
  <2> QED
    BY <2>1, <2>2
<1>16. ASSUME NEW v \in Workers, RejectAnalysis(v) \/ FailAnalysis(v)
       PROVE  Same
  <2>1. v # w
    BY <1>9, <1>16 DEF RejectAnalysis, FailAnalysis
  <2> QED
    BY <1>15, <1>16, <2>1 DEF RejectAnalysis, FailAnalysis
<1>17. ASSUME NEW v \in Workers, Heartbeat(v)
       PROVE  Same
  BY <1>1, <1>17 DEF Heartbeat, TypeOK, JobRow
<1>18. CASE Tick
  BY <1>1, <1>18 DEF Tick, JobRow
<1>19. CASE UNCHANGED vars
  BY <1>19 DEF vars
<1> QED
  BY <1>3, <1>4, <1>5, <1>6, <1>7, <1>11, <1>12, <1>13, <1>14, <1>16, <1>17, <1>18, <1>19
     DEF Next, WorkerStep

\* A worker is in the middle of a job because it was, or because it took the lease up now.
LEMMA StageStep ==
  ASSUME TypeOK, [Next]_vars, NEW w \in Workers, pc'[w] \in {"executing", "analysing"}
  PROVE  \/ pc'[w] = pc[w] /\ current'[w] = current[w]
         \/ /\ current'[w] \in batch[w]
            /\ pc'[w] = "executing" => Owns(w, current'[w]) /\ UNCHANGED jobs
<1> USE DEF TypeOK, jobVars, workerVars
<1> DEFINE Was == pc'[w] = pc[w] /\ current'[w] = current[w]
<1>1. ASSUME NEW v \in Workers, NEW rest, Proceed(v, rest)
      PROVE  Was
  BY <1>1 DEF Proceed
<1>2. CASE \E j \in Jobs : Enqueue(j) \/ RetryFailedJob(j)
  BY <1>2 DEF Enqueue, RetryFailedJob
<1>3. CASE DisconnectRead \/ DisconnectWrite \/ Tick \/ UNCHANGED vars
  BY <1>3 DEF DisconnectRead, DisconnectWrite, Tick, vars
<1>4. ASSUME NEW v \in Workers,
             StartInvocation(v) \/ ClaimAborts(v) \/ Heartbeat(v) \/ Crash(v)
      PROVE  Was
  BY <1>4 DEF StartInvocation, ClaimAborts, Heartbeat, Crash
<1>5. ASSUME NEW v \in Workers, Claim(v)
      PROVE  Was
  BY <1>5 DEF Claim
<1>6. ASSUME NEW v \in Workers, StartProviderJob(v) \/ BeginAnalysis(v)
      PROVE  \/ Was
             \/ /\ current'[w] \in batch[w]
                /\ pc'[w] = "executing" => Owns(w, current'[w]) /\ UNCHANGED jobs
  BY <1>6 DEF StartProviderJob, BeginAnalysis, TakeUp
<1>7. ASSUME NEW v \in Workers,
             \/ SkipStaleLease(v) \/ FinishProviderJob(v)
             \/ \E retryable \in BOOLEAN : FailProviderJob(v, retryable)
             \/ FinishAnalysis(v) \/ RejectAnalysis(v) \/ FailAnalysis(v)
      PROVE  Was
  BY <1>1, <1>7 DEF SkipStaleLease, FinishProviderJob, FailProviderJob, FinishAnalysis,
                    RejectAnalysis, FailAnalysis
<1> QED
  BY <1>2, <1>3, <1>4, <1>5, <1>6, <1>7 DEF Next, WorkerStep

\* Provider calls in flight stay current.
LEMMA ExecutionStep ==
  ASSUME TypeOK, StagesHaveLeases, CancelledJobsExist, ExecutionIsCurrent, [Next]_vars
  PROVE  StagesHaveLeases' /\ ExecutionIsCurrent'
<1>1. StagesHaveLeases'
  BY StageStep DEF StagesHaveLeases, TypeOK
<1>2. ASSUME NEW w \in Workers, pc'[w] = "executing"
      PROVE  Owns(w, current[w])'
  <2>1. CASE pc'[w] = pc[w] /\ current'[w] = current[w]
    <3>1. Owns(w, current[w])
      BY <1>2, <2>1 DEF ExecutionIsCurrent
    <3> QED
      BY <1>2, <2>1, <3>1, LockedRowStays DEF Owns
  <2>2. CASE current'[w] \in batch[w] /\ Owns(w, current'[w]) /\ UNCHANGED jobs
    BY <2>2 DEF Owns
  <2> QED
    BY <1>2, <2>1, <2>2, StageStep
<1> QED
  BY <1>1, <1>2 DEF ExecutionIsCurrent

\* Only a claim adds a lease to an invocation's memory.
LEMMA HeldStep ==
  ASSUME TypeOK, [Next]_vars, NEW w \in Workers
  PROVE  Held(w)' \subseteq Held(w) \/ Claim(w)
<1> USE DEF TypeOK, jobVars, workerVars, Held
<1> DEFINE Was == Held(w)' \subseteq Held(w)
<1>1. ASSUME NEW v \in Workers, NEW rest, Proceed(v, rest), rest \subseteq batch[v]
      PROVE  Was
  BY <1>1 DEF Proceed
<1>2. CASE \E j \in Jobs : Enqueue(j) \/ RetryFailedJob(j)
  BY <1>2 DEF Enqueue, RetryFailedJob
<1>3. CASE DisconnectRead \/ DisconnectWrite \/ Tick \/ UNCHANGED vars
  BY <1>3 DEF DisconnectRead, DisconnectWrite, Tick, vars
<1>4. ASSUME NEW v \in Workers,
             StartInvocation(v) \/ ClaimAborts(v) \/ Heartbeat(v) \/ Crash(v)
      PROVE  Was
  BY <1>4 DEF StartInvocation, ClaimAborts, Heartbeat, Crash
<1>5. ASSUME NEW v \in Workers, Claim(v)
      PROVE  Was \/ v = w
  BY <1>5 DEF Claim
<1>6. ASSUME NEW v \in Workers, StartProviderJob(v) \/ BeginAnalysis(v)
      PROVE  Was
  <2>1. PICK l \in batch[v], stage \in {"executing", "analysing"} : TakeUp(v, l, stage)
    BY <1>6 DEF StartProviderJob, BeginAnalysis
  <2>2. CASE v = w
    <3>1. batch'[w] = batch[w] \ {l} /\ current'[w] = l
      BY <2>1, <2>2 DEF TakeUp
    <3> QED
      BY <2>1, <2>2, <3>1
  <2>3. CASE v # w
    <3>1. batch'[w] = batch[w] /\ current'[w] = current[w]
      BY <2>1, <2>3 DEF TakeUp
    <3> QED
      BY <3>1
  <2> QED
    BY <2>2, <2>3
<1>7. ASSUME NEW v \in Workers,
             \/ SkipStaleLease(v) \/ FinishProviderJob(v)
             \/ \E retryable \in BOOLEAN : FailProviderJob(v, retryable)
             \/ FinishAnalysis(v) \/ RejectAnalysis(v) \/ FailAnalysis(v)
      PROVE  Was
  BY <1>1, <1>7 DEF SkipStaleLease, FinishProviderJob, FailProviderJob, FinishAnalysis,
                    RejectAnalysis, FailAnalysis
<1> QED
  BY <1>2, <1>3, <1>4, <1>5, <1>6, <1>7 DEF Next, WorkerStep

\* A claim opens a generation above every one that is remembered; no other step opens one.
LEMMA LeasesStep ==
  ASSUME TypeOK, TypeOK', StagesHaveLeases, CancelledJobsExist, ExecutionIsCurrent,
         LeasesAreFenced, [Next]_vars
  PROVE  LeasesAreFenced'
<1>1. ASSUME NEW w \in Workers, NEW l \in Held(w)
      PROVE  l.job \in Jobs /\ l.gen \in Nat
  BY <1>1 DEF Held, TypeOK, Lease
<1>2. \A j \in Jobs : jobs[j].fence \in Nat /\ jobs'[j].fence \in Nat
  BY DEF TypeOK, JobRow
<1>3. CASE \A j \in Jobs : RowMove(j)
  <2>1. ASSUME NEW j \in Jobs
        PROVE  /\ jobs'[j].fence = jobs[j].fence
               /\ jobs'[j].state = "RUNNING" => /\ jobs[j].state = "RUNNING"
                                               /\ jobs'[j].owner = jobs[j].owner
    BY <1>3 DEF RowMove, RowStay, RowSubmit, RowPostpone, RowGiveUp, RowReopen, RowCancel,
                RowCommit, Kept
  <2>2. \A w \in Workers : Held(w)' \subseteq Held(w)
    <3>1. ASSUME NEW w \in Workers, Claim(w)
          PROVE  Held(w)' \subseteq Held(w)
      <4>1. PICK S \in Selections(w) : Claim(w)!2!(S)
        BY <3>1 DEF Claim
      <4>2. S \subseteq Claimable
        BY <4>1 DEF Selections
      <4>3. ASSUME NEW j \in S, ~DeadlineReached(jobs[j])
            PROVE  FALSE
        <5>1. jobs'[j] = Claimed(jobs[j], w) /\ jobs[j].state # "RUNNING"
          BY <4>1, <4>2, <4>3 DEF Claimable
        <5>2. jobs'[j].state = "RUNNING"
          BY <4>2, <5>1 DEF Claimed, Claimable, TypeOK, JobRow
        <5> QED
          BY <2>1, <4>2, <5>1, <5>2 DEF Claimable
      <4>4. batch'[w] = {}
        BY <4>1, <4>3 DEF TypeOK
      <4> QED
        BY <3>1, <4>4 DEF Claim, Held
    <3> QED
      BY <3>1, HeldStep
  <2> QED
    BY <1>1, <2>1, <2>2 DEF LeasesAreFenced
<1>4. CASE \E w \in Workers : Claim(w) /\ \A j \in Jobs : RowMove(j) \/ RowTake(j)
  <2>1. PICK c \in Workers : Claim(c) /\ \A j \in Jobs : RowMove(j) \/ RowTake(j)
    BY <1>4
  <2>2. PICK S \in Selections(c) : Claim(c)!2!(S)
    BY <2>1 DEF Claim
  <2> DEFINE run == {j \in S : ~DeadlineReached(jobs[j])}
             fresh == {[job |-> j, gen |-> jobs[j].fence + 1] : j \in run}
  <2>3. run \subseteq Jobs
    BY <2>2 DEF Selections, Claimable
  <2>4. ASSUME NEW j \in run
        PROVE  jobs'[j].fence = jobs[j].fence + 1 /\ jobs'[j].owner = c
    <3>1. jobs'[j] = Claimed(jobs[j], c) /\ jobs[j] \in JobRow
      BY <2>2, <2>3 DEF TypeOK
    <3> QED
      BY <3>1 DEF Claimed, JobRow
  <2>5. ASSUME NEW j \in Jobs \ run
        PROVE  /\ jobs'[j].fence = jobs[j].fence
               /\ jobs'[j].state = "RUNNING" => /\ jobs[j].state = "RUNNING"
                                               /\ jobs'[j].owner = jobs[j].owner
    <3>1. jobs[j] \in JobRow
      BY DEF TypeOK
    <3> QED
      BY <2>2, <3>1 DEF JobRow
  <2>6. ASSUME NEW w \in Workers, NEW l \in Held(w)'
        PROVE  l \in Held(w) \/ (w = c /\ l \in fresh)
    BY <2>1, <2>2 DEF Claim, Held, TypeOK
  <2>7. ASSUME NEW l \in fresh
        PROVE  /\ l.job \in run /\ l.gen = jobs'[l.job].fence
               /\ l.gen > jobs[l.job].fence
    BY <1>2, <2>3, <2>4
  <2>8. ASSUME NEW w \in Workers, NEW l \in Held(w)
        PROVE  /\ l.gen <= jobs'[l.job].fence
               /\ jobs'[l.job].state = "RUNNING" /\ l.gen = jobs'[l.job].fence
                    => jobs'[l.job].owner = w
    <3>1. l.job \in Jobs /\ l.gen \in Nat /\ l.gen <= jobs[l.job].fence
      BY <1>1 DEF LeasesAreFenced
    <3>2. CASE l.job \in run
      BY <1>2, <2>4, <3>1, <3>2
    <3>3. CASE l.job \notin run
      BY <2>5, <3>1, <3>3 DEF LeasesAreFenced
    <3> QED
      BY <3>2, <3>3
  <2>9. ASSUME NEW w \in Workers, NEW l \in Held(w)'
        PROVE  /\ l.gen <= jobs'[l.job].fence
               /\ jobs'[l.job].state = "RUNNING" /\ l.gen = jobs'[l.job].fence
                    => jobs'[l.job].owner = w
    <3>1. CASE l \in Held(w)
      BY <2>8, <3>1
    <3>2. CASE w = c /\ l \in fresh
      BY <1>2, <2>3, <2>4, <2>7, <3>2
    <3> QED
      BY <2>6, <3>1, <3>2
  <2>10. ASSUME NEW w \in Workers, NEW v \in Workers \ {w}, NEW l \in Held(w)', l \in Held(v)'
         PROVE  FALSE
    <3>1. ASSUME NEW u \in Workers, l \in Held(u), l \in fresh
          PROVE  FALSE
      <4>1. l.gen \in Nat /\ l.gen <= jobs[l.job].fence /\ jobs[l.job].fence \in Nat
        BY <1>1, <1>2, <3>1 DEF LeasesAreFenced
      <4>2. l.gen > jobs[l.job].fence
        BY <2>7, <3>1
      <4> QED
        BY <4>1, <4>2
    <3> QED
      BY <2>6, <2>10, <3>1 DEF LeasesAreFenced
  <2> QED
    BY <2>9, <2>10 DEF LeasesAreFenced
<1> QED
  BY <1>3, <1>4, RowSteps

-----------------------------------------------------------------------------
(* Theorems *)

\* The initial table is empty and nobody works.
LEMMA InitIInv == Init => IInv
<1> SUFFICES ASSUME Init
             PROVE  IInv
  OBVIOUS
<1> USE DEF Init
<1>1. TypeOK
  BY BoundsAssumption DEF TypeOK, JobRow, JobStates, Left
<1>2. StagesHaveLeases /\ AttemptsAreGenerations /\ CancelledJobsExist /\ ExecutionIsCurrent
  BY DEF StagesHaveLeases, AttemptsAreGenerations, CancelledJobsExist, ExecutionIsCurrent
<1>3. LeasesAreFenced
  BY DEF LeasesAreFenced, Held
<1>4. CommittedWorkIsFinal /\ PoisonOnlyByOperator
  BY DEF CommittedWorkIsFinal, PoisonOnlyByOperator
<1> QED
  BY <1>1, <1>2, <1>3, <1>4 DEF IInv

\* Results, attempts and cancellations follow from what each row may do.
LEMMA RowInvariantsStep ==
  ASSUME IInv, TypeOK', [Next]_vars
  PROVE  AttemptsAreGenerations' /\ CommittedWorkIsFinal' /\ PoisonOnlyByOperator'
<1>1. ASSUME NEW j \in Jobs
      PROVE  RowMove(j) \/ RowTake(j)
  BY RowSteps DEF IInv
<1>2. retried \subseteq retried'
  BY RowSteps DEF IInv
<1>3. ASSUME NEW j \in Jobs
      PROVE  /\ jobs[j].attempts \in Nat /\ jobs[j].fence \in Nat
             /\ jobs[j].attempts <= MaxAttempts /\ MaxAttempts \in 1..3
  BY BoundsAssumption DEF IInv, TypeOK, JobRow
<1>4. ASSUME NEW j \in Jobs
      PROVE  /\ jobs'[j].attempts = jobs'[j].fence
             /\ jobs'[j].state = "ABSENT" => jobs'[j].fence = 0
  <2>1. /\ jobs[j].attempts = jobs[j].fence
        /\ jobs[j].state = "ABSENT" => jobs[j].fence = 0
    BY DEF IInv, AttemptsAreGenerations
  <2> QED
    BY <1>1, <1>3, <2>1 DEF RowMove, RowTake, RowStay, RowSubmit, RowPostpone, RowGiveUp,
                            RowReopen, RowCancel, RowCommit, Kept
<1>5. ASSUME NEW j \in Jobs, done'[j] # {}
      PROVE  /\ done'[j] = {jobs'[j].fence}
             /\ \/ jobs'[j].state = "SUCCEEDED"
                \/ jobs'[j].state = "CANCELLED" /\ j \in GmailJobs
  <2>1. done[j] # {} => /\ done[j] = {jobs[j].fence}
                        /\ \/ jobs[j].state = "SUCCEEDED"
                           \/ jobs[j].state = "CANCELLED" /\ j \in GmailJobs
    BY DEF IInv, CommittedWorkIsFinal
  <2> QED
    BY <1>1, <1>5, <2>1 DEF RowMove, RowTake, RowStay, RowSubmit, RowPostpone, RowGiveUp,
                            RowReopen, RowCancel, RowCommit, Kept
<1>6. ASSUME NEW j \in Jobs,
             jobs'[j].state \in {"QUEUED", "RETRY_WAIT"}, jobs'[j].attempts = MaxAttempts
      PROVE  j \in retried'
  <2>1. /\ jobs[j].state \in {"QUEUED", "RETRY_WAIT"} /\ jobs[j].attempts = MaxAttempts
             => j \in retried
        /\ jobs[j].state = "ABSENT" => jobs[j].attempts = 0
    BY DEF IInv, PoisonOnlyByOperator, AttemptsAreGenerations
  <2> QED
    BY <1>1, <1>2, <1>3, <1>6, <2>1
       DEF RowMove, RowTake, RowStay, RowSubmit, RowPostpone, RowGiveUp,
           RowReopen, RowCancel, RowCommit, Kept
<1> QED
  BY <1>4, <1>5, <1>6 DEF AttemptsAreGenerations, CommittedWorkIsFinal, PoisonOnlyByOperator

\* What a disconnect has read does not vanish before it writes.
LEMMA CancelledJobsStep ==
  ASSUME IInv, TypeOK', [Next]_vars
  PROVE  CancelledJobsExist'
<1>1. ASSUME NEW j \in Jobs, jobs[j].state # "ABSENT"
      PROVE  jobs'[j].state # "ABSENT"
  <2>1. RowMove(j) \/ RowTake(j)
    BY RowSteps DEF IInv
  <2> QED
    BY <1>1, <2>1 DEF RowMove, RowTake, RowStay, RowSubmit, RowPostpone, RowGiveUp,
                      RowReopen, RowCancel, RowCommit
<1>2. CASE DisconnectRead
  <2>1. \A j \in toCancel' : j \in Jobs /\ jobs[j].state # "ABSENT"
    BY <1>2, JobsAssumption DEF DisconnectRead
  <2> QED
    BY <1>1, <2>1 DEF CancelledJobsExist
<1>3. CASE DisconnectWrite
  BY <1>3 DEF DisconnectWrite, CancelledJobsExist
<1>4. CASE UNCHANGED toCancel
  <2>1. toCancel # None => toCancel \subseteq Jobs
    BY JobsAssumption DEF IInv, TypeOK
  <2> QED
    BY <1>1, <1>4, <2>1 DEF IInv, CancelledJobsExist
<1>5. DisconnectRead \/ DisconnectWrite \/ UNCHANGED toCancel
  BY DEF Next, vars, WorkerStep, Enqueue, RetryFailedJob, StartInvocation, Claim, ClaimAborts,
         StartProviderJob, SkipStaleLease, FinishProviderJob, FailProviderJob, BeginAnalysis,
         FinishAnalysis, RejectAnalysis, FailAnalysis, Heartbeat, Crash, Tick
<1> QED
  BY <1>2, <1>3, <1>4, <1>5

\* IInv is inductive.
LEMMA NextIInv == IInv /\ [Next]_vars => IInv'
<1> SUFFICES ASSUME IInv, [Next]_vars
             PROVE  IInv'
  OBVIOUS
<1>1. TypeOK'
  BY TypeStep DEF IInv
<1>2. StagesHaveLeases' /\ ExecutionIsCurrent'
  BY ExecutionStep DEF IInv
<1>3. LeasesAreFenced'
  BY <1>1, LeasesStep DEF IInv
<1>4. AttemptsAreGenerations' /\ CommittedWorkIsFinal' /\ PoisonOnlyByOperator'
  BY <1>1, RowInvariantsStep
<1>5. CancelledJobsExist'
  BY <1>1, CancelledJobsStep
<1> QED
  BY <1>1, <1>2, <1>3, <1>4, <1>5 DEF IInv

\* IInv holds throughout.
THEOREM Invariance == Spec => []IInv
BY InitIInv, NextIInv, PTL DEF Spec

\* The variables keep their types: no job is ever claimed more than max_attempts times.
THEOREM TypeCorrect == Spec => []TypeOK
<1>1. IInv => TypeOK
  BY DEF IInv
<1> QED
  BY <1>1, Invariance, PTL

\* No sweep, claim or disconnect takes a job away under a provider call in flight.
THEOREM ExecutionsStayCurrent == Spec => []ExecutionIsCurrent
<1>1. IInv => ExecutionIsCurrent
  BY DEF IInv
<1> QED
  BY <1>1, Invariance, PTL

\* The fencing generation separates the holder of a job from everyone who once held it.
THEOREM FencingIsSound == Spec => []LeasesAreFenced
<1>1. IInv => LeasesAreFenced
  BY DEF IInv
<1> QED
  BY <1>1, Invariance, PTL

\* A job commits at most one result, in its last generation, and is then finished.
THEOREM OneResultPerJob == Spec => []CommittedWorkIsFinal
<1>1. IInv => CommittedWorkIsFinal
  BY DEF IInv
<1> QED
  BY <1>1, Invariance, PTL

\* Without an operator's retry no claim can violate the attempts CHECK.
THEOREM NoPoisonWithoutOperator == Spec => []PoisonOnlyByOperator
<1>1. IInv => PoisonOnlyByOperator
  BY DEF IInv
<1> QED
  BY <1>1, Invariance, PTL

-----------------------------------------------------------------------------
(* Refinement *)

\* The empty table is where every life starts.
LEMMA InitRefines == Init => Lifecycle!Init
BY DEF Init, Lifecycle!Init

\* Every step moves every job along its life.
LEMMA StepRefines == IInv /\ [Next]_vars => [Lifecycle!Next]_Lifecycle!lifeVars
<1> SUFFICES ASSUME IInv, [Next]_vars, NEW j \in Jobs
             PROVE  Lifecycle!Step(j)
  BY DEF Lifecycle!Next
<1>1. RowMove(j) \/ RowTake(j)
  BY RowSteps DEF IInv
<1>2. /\ jobs[j].attempts = jobs[j].fence /\ jobs[j].fence \in Nat
      /\ done[j] # {} => jobs[j].state # "RUNNING"
  BY DEF IInv, TypeOK, JobRow, AttemptsAreGenerations, CommittedWorkIsFinal
<1> USE DEF Lifecycle!Step, Lifecycle!Move, Lifecycle!Runnable, Kept
<1>3. CASE RowStay(j)
  BY <1>3 DEF RowStay, Lifecycle!Stay
<1>4. CASE RowSubmit(j)
  BY <1>4 DEF RowSubmit, Lifecycle!Submit
<1>5. CASE RowPostpone(j)
  BY <1>2, <1>5 DEF RowPostpone, Lifecycle!Postpone
<1>6. CASE RowGiveUp(j)
  BY <1>6 DEF RowGiveUp, Lifecycle!GiveUp
<1>7. CASE RowReopen(j)
  BY <1>7 DEF RowReopen, Lifecycle!Reopen
<1>8. CASE RowCancel(j)
  BY <1>8 DEF RowCancel, Lifecycle!Cancel
<1>9. CASE RowCommit(j)
  BY <1>2, <1>9 DEF RowCommit, Lifecycle!Commit
<1>10. CASE RowTake(j)
  BY <1>2, <1>10 DEF RowTake, Lifecycle!Take
<1> QED
  BY <1>1, <1>3, <1>4, <1>5, <1>6, <1>7, <1>8, <1>9, <1>10 DEF RowMove

\* The job table, with its workers, leases, clock, crashes and races, implements the life of
\* a job that JobLifecycle promises.
THEOREM JobsRefineLifecycle == Spec => JobsFollowTheirLifecycle
<1>1. Init => Lifecycle!Init
  BY InitRefines
<1>2. IInv /\ [Next]_vars => [Lifecycle!Next]_Lifecycle!lifeVars
  BY StepRefines
<1> QED
  BY <1>1, <1>2, Invariance, PTL DEF Spec, JobsFollowTheirLifecycle, Lifecycle!Spec
=============================================================================

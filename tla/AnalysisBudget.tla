--------------------------- MODULE AnalysisBudget ---------------------------
(***************************************************************************)
(* Live analyses and the model budget they draw on: the two transactions   *)
(* of execute_live_analysis_job (agents/live.py) with the model calls      *)
(* between them, the ledger of agents/persistence.py, and the workflow and *)
(* decision rows of agents/workflow.py.                                    *)
(*                                                                         *)
(* Tokens and cost go through the same steps with the same comparisons, so *)
(* one amount stands for both; the windows of a tenant and of the          *)
(* deployment are reserved and settled in one transaction. Claims and      *)
(* leases are those of DurableJobs, reduced to the attempt that holds the  *)
(* job: a sweep may take it from an invocation that still runs. The clock  *)
(* is left out: a deadline may have passed wherever the code looks at it.  *)
(***************************************************************************)
EXTENDS Integers, FiniteSets, FiniteSetsExt, Functions

CONSTANTS
  Workers,          \* concurrent invocations
  Jobs,             \* analysis.prepare jobs
  Request,          \* the request of a job; POST /requests/{id}/analyze adds jobs to a request
  Tenant,           \* the tenant of a job
  Amount,           \* reserved for an attempt: MAX_INPUT_TOKENS + MAX_OUTPUT_TOKENS
  Overrun,          \* what a role call may use past the limit before it is counted (external)
  TenantLimit,      \* tenant_token_limit_per_day
  DeploymentLimit,  \* deployment_token_limit_per_day
  MaxAttempts,      \* Job.max_attempts
  Volatile,         \* which create_workflow calls digest the evidence ids of the attempt
  MaxScope,         \* bound: scopes confirmed
  MaxDays,          \* bound: days
  None              \* SQL NULL

Calls == {"reserve", "persist"}

ASSUME BudgetAssumption ==
  /\ Amount \in Nat \ {0} /\ Overrun \in Nat
  /\ TenantLimit \in Nat /\ DeploymentLimit \in Nat
  /\ MaxAttempts \in Nat \ {0} /\ MaxScope \in Nat /\ MaxDays \in Nat \ {0}
  /\ Volatile \subseteq Calls
  /\ IsFiniteSet(Jobs)

VARIABLES
  job,        \* Job rows: state, attempt_count
  txn,        \* what an invocation holds, or None
  workflow,   \* WorkflowInstance.input_digest under the key of a request, or None
  windows,    \* AnalysisBudgetWindow rows by scope_key and day: reserved, used; or None
  ledger,     \* AnalysisBudgetReservation pair of an attempt, or None
  decisions,  \* AnalysisDecision a job made of its request: the scope version it assesses, or None
  scope,      \* current_scope_version_id of the project
  day,        \* the UTC date
  spent       \* history: what the model calls of an attempt have used

rows == <<job, workflow, windows, ledger, decisions>>
vars == <<rows, txn, scope, day, spent>>

Attempts == 1..MaxAttempts
Days == 1..MaxDays
Scopes == {Tenant[j] : j \in Jobs} \cup {"deployment"}
Requests == {Request[j] : j \in Jobs}

Limit(s) == IF s = "deployment" THEN DeploymentLimit ELSE TenantLimit
ScopesOf(j) == {Tenant[j], "deployment"}

Digest == [scope : 0..MaxScope, evidence : (Jobs \X Attempts) \cup {None}]
JobRow == [state : {"QUEUED", "RUNNING", "RETRY_WAIT", "SUCCEEDED", "FAILED_REQUIRES_REVIEW"},
           attempt : 0..MaxAttempts]
WindowRow == [reserved : Nat, used : Nat]
Reservation == [day : Days, status : {"RESERVED", "RECONCILED"}, used : Nat]
Txn == [job : Jobs, attempt : Attempts, step : {"reserve", "invoke", "persist", "fail"},
        scope : 0..MaxScope, used : Nat]

ASSUME NoneAssumption == None \notin Nat \cup Digest \cup WindowRow \cup Reservation \cup Txn

TypeOK ==
  /\ job \in [Jobs -> JobRow]
  /\ txn \in [Workers -> Txn \cup {None}]
  /\ \A w \in Workers : txn[w] # None => txn[w].attempt <= job[txn[w].job].attempt
  /\ workflow \in [Requests -> Digest \cup {None}]
  /\ windows \in [Scopes -> [Days -> WindowRow \cup {None}]]
  /\ ledger \in [Jobs -> [Attempts -> Reservation \cup {None}]]
  /\ decisions \in [Jobs -> 0..MaxScope \cup {None}]
  /\ scope \in 0..MaxScope
  /\ day \in Days
  /\ spent \in [Jobs -> [Attempts -> Nat]]

Init ==
  /\ job = [j \in Jobs |-> [state |-> "QUEUED", attempt |-> 0]]
  /\ txn = [w \in Workers |-> None]
  /\ workflow = [r \in Requests |-> None]
  /\ windows = [s \in Scopes |-> [d \in Days |-> None]]
  /\ ledger = [j \in Jobs |-> [a \in Attempts |-> None]]
  /\ decisions = [j \in Jobs |-> None]
  /\ scope = 0
  /\ day = 1
  /\ spent = [j \in Jobs |-> [a \in Attempts |-> 0]]

-----------------------------------------------------------------------------
(* The job *)

\* claim_jobs
Claim(w, j) ==
  /\ txn[w] = None
  /\ job[j].state \in {"QUEUED", "RETRY_WAIT"}
  /\ job' = [job EXCEPT ![j] = [state |-> "RUNNING", attempt |-> @.attempt + 1]]
  /\ txn' = [txn EXCEPT ![w] = [job |-> j, attempt |-> job[j].attempt + 1, step |-> "reserve",
                                scope |-> 0, used |-> 0]]
  /\ UNCHANGED <<workflow, windows, ledger, decisions, scope, day, spent>>

\* Mutant of Current: no lease check.
AlwaysCurrent(w) == TRUE

\* The lease of invocation w still holds.
Current(w) == job[txn[w].job] = [state |-> "RUNNING", attempt |-> txn[w].attempt]

Ended(j, state) == [job EXCEPT ![j].state = state]

\* Mutant of Retried: one attempt too many.
RetriedOnceMore(j) ==
  {Ended(j, state) : state \in {s \in {"RETRY_WAIT", "FAILED_REQUIRES_REVIEW"} :
                                 s = "RETRY_WAIT" => job[j].attempt <= MaxAttempts}}

\* fail_job and recover_expired_jobs: a retry needs an attempt that is left and a deadline that
\* has not passed.
Retried(j) ==
  {Ended(j, state) : state \in {s \in {"RETRY_WAIT", "FAILED_REQUIRES_REVIEW"} :
                                 s = "RETRY_WAIT" => job[j].attempt < MaxAttempts}}

\* recover_expired_jobs: the lease ran out, whether or not its invocation is still alive.
Recover(j) ==
  /\ job[j].state = "RUNNING"
  /\ job' \in Retried(j)
  /\ UNCHANGED <<workflow, windows, ledger, decisions, txn, scope, day, spent>>

\* claim_jobs of a job whose deadline has passed.
Expire(j) ==
  /\ job[j].state \in {"QUEUED", "RETRY_WAIT"}
  /\ job' = Ended(j, "FAILED_REQUIRES_REVIEW")
  /\ UNCHANGED <<workflow, windows, ledger, decisions, txn, scope, day, spent>>

Crash(w) ==
  /\ txn[w] # None
  /\ txn' = [txn EXCEPT ![w] = None]
  /\ UNCHANGED <<rows, scope, day, spent>>

-----------------------------------------------------------------------------
(* The ledger of persistence.py *)

Window(s, d) == IF windows[s][d] = None THEN [reserved |-> 0, used |-> 0] ELSE windows[s][d]

\* Mutant of Fits: what is reserved and not settled yet is forgotten.
FitsUsed(s) == Window(s, day).used + Amount <= Limit(s)

Fits(s) == Window(s, day).reserved + Window(s, day).used + Amount <= Limit(s)

\* reserve_analysis_budget, reserve_deployment_budget
Reserved(j) ==
  [s \in Scopes |->
     IF s \in ScopesOf(j)
     THEN [windows[s] EXCEPT ![day] = [reserved |-> Window(s, day).reserved + Amount,
                                       used     |-> Window(s, day).used]]
     ELSE windows[s]]

\* Mutant of Settled: the window of today is settled.
SettledToday(j, a, used) ==
  [s \in Scopes |->
     IF s \in ScopesOf(j) /\ ledger[j][a].status = "RESERVED"
     THEN [windows[s] EXCEPT ![day] = [reserved |-> Window(s, day).reserved - Amount,
                                       used     |-> Window(s, day).used + used]]
     ELSE windows[s]]

\* reconcile_analysis_budget on both windows: those the reservation was made in.
Settled(j, a, used) ==
  [s \in Scopes |->
     IF s \in ScopesOf(j) /\ ledger[j][a].status = "RESERVED"
     THEN [windows[s] EXCEPT ![ledger[j][a].day] = [reserved |-> @.reserved - Amount,
                                                    used     |-> @.used + used]]
     ELSE windows[s]]

Reconciled(j, a, used) ==
  [ledger EXCEPT ![j][a] = IF @.status = "RESERVED"
                           THEN [@ EXCEPT !.status = "RECONCILED", !.used = used] ELSE @]

\* input_digest as a create_workflow call computes it in an attempt of a job.
DigestOf(call, version, j, a) ==
  [scope |-> version, evidence |-> IF call \in Volatile THEN <<j, a>> ELSE None]

\* Mutant of Conflicts: the key alone finds the workflow.
NeverConflicts(j, digest) == FALSE

\* create_workflow: the key names the request and its version, not the input.
Conflicts(j, digest) == workflow[Request[j]] \notin {None, digest}

-----------------------------------------------------------------------------
(* execute_live_analysis_job *)

\* An exception in one of its transactions leaves nothing of it behind.
Refuse(w) ==
  /\ txn' = [txn EXCEPT ![w].step = "fail"]
  /\ UNCHANGED <<workflow, windows, ledger, decisions, job>>

\* The first transaction: lease check, snapshot, _reserve_live_budgets. Whatever else it looks up
\* (project, contact, evidence, prices, a window another invocation just inserted) may refuse.
Reserve(w) ==
  /\ txn[w] # None /\ txn[w].step = "reserve"
  /\ LET j == txn[w].job
         a == txn[w].attempt
         digest == DigestOf("reserve", scope, j, a)
     IN \/ /\ Current(w) /\ ~Conflicts(j, digest) /\ \A s \in ScopesOf(j) : Fits(s)
           /\ workflow' = [workflow EXCEPT ![Request[j]] = digest]
           /\ windows' = Reserved(j)
           /\ ledger' = [ledger EXCEPT ![j][a] = [day |-> day, status |-> "RESERVED", used |-> 0]]
           /\ txn' = [txn EXCEPT ![w].step = "invoke", ![w].scope = scope]
           /\ UNCHANGED <<decisions, job>>
        \/ Refuse(w)
  /\ UNCHANGED <<scope, day, spent>>

\* invoke_live_strands_analysis within AnalysisLimits: record_usage raises after the call that
\* went over the limit, and a deadline, a provider or a schema may stop it at any point.
Invoke(w) ==
  /\ txn[w] # None /\ txn[w].step = "invoke"
  /\ \E used \in 0..(Amount + Overrun) :
       /\ spent' = [spent EXCEPT ![txn[w].job][txn[w].attempt] = used]
       /\ \/ /\ 0 < used /\ used <= Amount
             /\ txn' = [txn EXCEPT ![w].step = "persist", ![w].used = used]
          \/ txn' = [txn EXCEPT ![w].step = "fail"]
  /\ UNCHANGED <<rows, scope, day>>

\* The second transaction: _settle_live_budgets, persist_live_analysis, complete_job, all or
\* nothing. prepare_analysis refuses outputs that name unknown references, recipients or terms,
\* complete_job a deadline that has passed.
Persist(w) ==
  /\ txn[w] # None /\ txn[w].step = "persist"
  /\ LET j == txn[w].job
         a == txn[w].attempt
     IN \/ /\ Current(w) /\ ~Conflicts(j, DigestOf("persist", txn[w].scope, j, a))
           /\ windows' = Settled(j, a, txn[w].used)
           /\ ledger' = Reconciled(j, a, txn[w].used)
           /\ decisions' = [decisions EXCEPT ![j] = txn[w].scope]
           /\ job' = Ended(j, "SUCCEEDED")
           /\ txn' = [txn EXCEPT ![w] = None]
           /\ UNCHANGED workflow
        \/ Refuse(w)
  /\ UNCHANGED <<scope, day, spent>>

\* Mutant of FailureCharge: a failed attempt is charged nothing.
NoCharge == 0

\* What a failed attempt is charged, whatever it used: conservative.
FailureCharge == Amount

\* The exception handler: commits only while the lease holds.
Fail(w) ==
  /\ txn[w] # None /\ txn[w].step = "fail"
  /\ LET j == txn[w].job
         a == txn[w].attempt
     IN IF Current(w)
        THEN /\ job' \in Retried(j)
             /\ IF ledger[j][a] # None
                THEN /\ windows' = Settled(j, a, FailureCharge)
                     /\ ledger' = Reconciled(j, a, FailureCharge)
                ELSE UNCHANGED <<windows, ledger>>
        ELSE UNCHANGED <<job, windows, ledger>>
  /\ txn' = [txn EXCEPT ![w] = None]
  /\ UNCHANGED <<workflow, decisions, scope, day, spent>>

-----------------------------------------------------------------------------
\* confirm_scope while analyses run.
ConfirmScope ==
  /\ scope < MaxScope
  /\ scope' = scope + 1
  /\ UNCHANGED <<rows, txn, day, spent>>

Midnight ==
  /\ day < MaxDays
  /\ day' = day + 1
  /\ UNCHANGED <<rows, txn, scope, spent>>

Next ==
  \/ \E w \in Workers :
       \/ \E j \in Jobs : Claim(w, j)
       \/ Reserve(w) \/ Invoke(w) \/ Persist(w) \/ Fail(w) \/ Crash(w)
  \/ \E j \in Jobs : Recover(j) \/ Expire(j)
  \/ ConfirmScope \/ Midnight

Spec == Init /\ [][Next]_vars

-----------------------------------------------------------------------------
(* Properties *)

AttemptsIn(s, d) ==
  {p \in Jobs \X Attempts :
     /\ s \in ScopesOf(p[1])
     /\ ledger[p[1]][p[2]] # None /\ ledger[p[1]][p[2]].day = d}

Total(S, amount) == SumFunctionOnSet(amount, S)

\* The two totals of a window are those of its reservations, whatever attempts crash, lose their
\* lease or end on another day (reserve_analysis_budget, reconcile_analysis_budget).
WindowsBalance ==
  \A s \in Scopes, d \in Days :
    LET open == [p \in AttemptsIn(s, d) |->
                   IF ledger[p[1]][p[2]].status = "RESERVED" THEN Amount ELSE 0]
        done == [p \in AttemptsIn(s, d) |-> ledger[p[1]][p[2]].used]
    IN Window(s, d) = [reserved |-> Total(AttemptsIn(s, d), open),
                       used     |-> Total(AttemptsIn(s, d), done)]

\* What the model calls of a day have really used stays within the limit, also while it runs, but
\* for the excess of the call that ran over (AnalysisLimits.record_usage sees it afterwards).
SpendIsWithinLimits ==
  \A s \in Scopes, d \in Days :
    LET real == [p \in AttemptsIn(s, d) |-> Min({spent[p[1]][p[2]], Amount})]
    IN Total(AttemptsIn(s, d), real) <= Limit(s)

\* Every token an attempt used is in the ledger, reserved or used, but for that excess.
SpendIsAccountedFor ==
  \A j \in Jobs, a \in Attempts :
    LET real == Min({spent[j][a], Amount})
    IN real > 0 => /\ ledger[j][a] # None
                   /\ ledger[j][a].status = "RECONCILED" => real <= ledger[j][a].used

\* A job commits at most one decision, of the attempt that holds it: a decided job is never
\* claimed again, and what it decided is not changed. (A request has as many decisions as jobs
\* that succeed: create_analysis_decision inserts without a look.)
JobsDecideOnce ==
  [][\A j \in Jobs : decisions[j] # None => decisions'[j] = decisions[j] /\ job'[j] = job[j]]_vars

\* Whatever jobs a request is given, before and after scopes are confirmed, all that is decided
\* of it assesses one scope version (the conflict of create_workflow under the shared key).
DecisionsShareTheirScope ==
  \A i, j \in Jobs :
    Request[i] = Request[j] /\ decisions[i] # None /\ decisions[j] # None
      => decisions[i] = decisions[j]

\* An attempt that holds its lease after its model calls is not refused over its input: it finds
\* the workflow that it has reserved for itself (create_workflow, in both transactions).
AttemptsMatchTheirWorkflow ==
  \A w \in Workers :
    txn[w] # None /\ txn[w].step = "persist" /\ Current(w)
      => ~Conflicts(txn[w].job, DigestOf("persist", txn[w].scope, txn[w].job, txn[w].attempt))

=============================================================================

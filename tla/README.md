# ScopeGuard: specifications, model checks and proofs

ScopeGuard turns a client's messages into change orders: it analyses a request
against the confirmed scope, lets the freelancer approve a proposal, mails it to
the client, records the client's decision, amends the scope and collects a
payment. What is hard about it is not the text but the bookkeeping: leases,
retries, uncertain provider calls, revisions, stale reads. This directory
specifies that bookkeeping in TLA+, checks it with TLC and proves the safety of all
eight components with TLAPS.

Paths below are relative to `src/`; line numbers are in `PROJECT.json` ("map").

## 1. Inventory

| Part | Code | State it keeps | Operations |
|---|---|---|---|
| Durable jobs | `services/workers/durable.py`, `domain/models.py` `Job` | state, lease, owner, fencing generation, attempts, deadline per row | enqueue, claim, heartbeat, complete, fail, recover |
| Lambda worker | `workers/lambda_handler.py`, `handlers.py`, `recovery.py` | the leases an invocation holds in memory | sweep, claim batches, execute, give up |
| Live analysis | `agents/live.py`, `agents/persistence.py`, `agents/workflow.py` | workflow, budget reservations, decisions | begin, model call, persist and settle |
| External actions | `workers/durable.py` `ExternalAction`, `ActionAttempt` | state, attempts (at most 3), receipt | prepare, begin, complete, retry, unknown, review, confirm, cancel |
| Change orders | `change_orders/service.py` | order, revisions, capabilities, approvals, scope amendments | assemble, revise, approve, decide, withdraw, accept |
| Gmail send | `integrations/gmail.py` `dispatch_gmail_send` | (the action, the job, the order) | send, refresh the token, classify the outcome |
| Mailbox sync | `integrations/gmail.py` | connection, cursor, sync checkpoint, watch | push, history page, gap, backfill, renew, stop, disconnect |
| Payments | `payments/service.py`, `integrations/razorpay.py` | request, link attempts, observations, webhook ingress | prepare, dispatch, webhook, normalize, replay, reconcile, replace |
| Outbox | `workers/durable.py` `publish_outbox`, `workers/transactions.py` | outbox events, consumer receipts | publish, rediscover, receive once |
| Capacity | `workers/capacity.py` | reservations per tenant | reserve, release, recover (called by tests only) |
| Contracts and requests | `contracts/service.py`, `contracts/requests.py` | documents, candidates, scope versions, routing decisions, requests | upload, confirm, ingest, route, replay, clarify, merge, split |
| Pure rules | `agents/gates.py`, `agents/costs.py`, `domain/money.py`, `domain/terms.py` | none | evidence gate, total, due date, working days |
| API | `api/routes.py`, `api/service.py`, `api/operations.py` | idempotency records | CRUD, `execute_idempotent`, operator retry and resolution |

How they interact. An API request is one database transaction; it enqueues jobs
and outbox events in it. Every minute the schedule invokes the Lambda, and
invocations may overlap. An invocation first sweeps (expired leases, orphaned
actions, pending webhooks, outbox), then claims batches of at most five jobs, at
most twenty-five in all, in a transaction of their own, and works them one after
the other. A *provider* job runs in one transaction from the check of its lease to
its completion, the provider's HTTP call included. An *analysis* job has a
transaction before the model call and one after it. The database runs at READ
COMMITTED; `SELECT ... FOR UPDATE` waits for the row lock, but SQLAlchemy does not
refresh an object the session has loaded before, so code that reads first and
locks later decides on the old values.

The hard behaviours, and what correctness means for each part:

- **Jobs.** Leases that expire under their holder, invocations that overlap or
  die, skip-locked sweeps, deadlines, bounded attempts, operator retries.
  Correct: one result per job, by the current generation; nothing is executed
  under a lost lease; leases are given up; every job ends or reaches a human.
- **Change orders and sends.** Clients, freelancer, operator, sweep and worker act
  on one order; a provider call may succeed without an answer. Correct: no
  duplicate mail unless acknowledged; what is sent is what was approved; the client
  is asked only about something that was sent; scope versions are amended once.
- **Payments.** Late, repeated and out-of-order observations; uncertain link
  creation. Correct: PAID rests on money and stays, one live link, one
  observation per event. (Section 5 has what the code does of this.)
- **Mailbox sync.** Overlapping pages and gaps. Correct: the cursor advances and
  no message before it is missed.
- **Outbox.** At least once, with wakeups for what was lost.
- **Budgets.** What the model calls used is on record, within the limits, whatever dies.
- **Contracts and scope.** A command takes effect once; nobody overwrites what he has not
  seen; the project is on its newest scope; candidates come from the reviewed bytes.
- **Routing.** No message is dropped, moved, or split from its thread; a request shows
  messages of its own project only.

`PROJECT.json` lists every hazard with its line and the properties that cover it, or
says why none does.

## 2. Modules

| Module | What it is | Proofs |
|---|---|---|
| `JobLifecycle` | abstract: what the job layer promises of one job | |
| `DurableJobs` | jobs table, invocations, transactions, leases and time | `DurableJobsProofs` |
| `ChangeOrders` | one change order, its revisions, its send, client requests, operator, sweep | `ChangeOrdersProofs` |
| `Payments` | one payment request, its link attempts, webhooks, observations, the provider | `PaymentsProofs` |
| `MailboxSync` | one Gmail account, its jobs, the mailbox behind the API | `MailboxSyncProofs` |
| `AnalysisBudget` | analyses, their two transactions and the budget ledger | `AnalysisBudgetProofs` |
| `Outbox` | outbox entries, overlapping sweeps, the bus | `OutboxProofs` |
| `ScopeBaseline` | a project's contract, its scope versions, the API's idempotent commands | `ScopeBaselineProofs` |
| `Routing` | messages, routing decisions, thread assignments, requests | `RoutingProofs` |
| `MC...` | the instance of a module that TLC checks, with its symmetry | |

Each module is about one row, or a few, that several actors contend for. They meet where
one uses the other's result: `DurableJobs` gives every other module its jobs, whose life
they keep as far as they need it (a job may be claimed, crash and come back while tries are
left, as `JobLifecycle` allows); `AmendElsewhere` of `ChangeOrders` and `Accept` of
`ScopeBaseline` are acceptances seen from either side; `Routing` uses the confirmed project of
`ScopeBaseline` and the pages of `MailboxSync`, of which it keeps one message; an analysis
of `AnalysisBudget` is an analysis job of `DurableJobs` with its ledger.

Mutants (operators commented "Mutant of ...") stand before the definition they
vary. They are plausible bugs of that code; each passing property has one that
breaks it. Variables called history are written for the properties and read by no action.

### DurableJobs

One row of `jobs` is a record with the columns that decide anything. Times are
the ticks left until `lease_until`, `available_at` and `deadline_at`; a tick
(`Tick`) lets time pass for all rows. `-1` is "past", which separates `<` from
`<=`: the sweep takes a lease that is past, the claim one that is past or due;
`complete_job` refuses a deadline that is past, the others one that is reached.

| Action | Code |
|---|---|
| `Enqueue`, `RetryFailedJob` | `enqueue_job`, `api/operations.retry_failed_job` |
| `DisconnectRead`, `DisconnectWrite` | the unlocked read and the write by primary key of `disconnect_gmail` |
| `StartInvocation` | `recover_expired_jobs` at the head of `handler` |
| `Claim`, `ClaimAborts` | `claim_jobs`, and its flush when a row breaks `ck_jobs_attempts` |
| `StartProviderJob` ... `FailProviderJob` | `execute_claimed_job`: the row stays locked between start and end |
| `BeginAnalysis` ... `FailAnalysis` | `execute_live_analysis_job` |
| `Heartbeat` | `heartbeat_job`; nothing but the tests calls it, so `HeartbeatWorkers` says who does |
| `Crash` | Lambda timeout or lost database: the open transaction rolls back |

`done` (the generations that committed a result) and `retried` are history
variables, written for the properties and read by no action.

The rest of the sweep (outbox, webhooks, maintenance) writes other tables and is
left out; it is assumed to succeed. The payload of a job is left out too: it
succeeds, fails for good, or fails so that it may be retried.

### ChangeOrders

The scope is a number (versions only grow), a grant the set of marks its capability carries,
an action its state and number of attempts, a message a count per revision. A send is three
steps. `PickSend` claims the job and reads the action without a lock (`_action_for_job`).
`StartSend` locks action and order, judges the order as it is and the action as it was read,
and calls Gmail; `RefuseSend` and `CrashJob` end the job before that. One of `SendSucceeds`,
`SendIsUncertain`, `SendIsThrottled`, `SendIsRejected`, `ResendTimesOut`, `ReauthRequired`,
`CrashSend` ends it after; in between the send holds the order's lock, so every action that
locks the order has the guard `OrderIsFree`. A client request is two steps, `OpenRequest`
(the read) and its decision; so is an operator's or the sweep's resolution. The send job
keeps of DurableJobs what its life allows: runnable while tries are left, then succeeded or
failed. `row_version` is left out: both kinds of callers send the value they want it
compared with, and a stale request compares it with the stale value. `approve_freelancer`
compares the revision's baseline with a project it read before it waited for the order, so
that any baseline may pass and the comparison is no guard. Connected accounts are left out
as well: any job may find none (`RefuseSend`) or one. `lapses` counts the calls whose loss
leaves no trace in the database and `acks` the retries with `duplicate_risk_acknowledged`;
both are history.

Left out: creation of the order (`Init` is the state `assemble_change_order` leaves),
token exchange and receipts, audit records, the payment request of an acceptance.
`expire_stale_offers` and `reconcile_gmail_unknown` have no caller. An action whose
attempts are used up is not dispatched; since each attempt needs a try of its one
job, that cannot be reached before the job's own budget is spent.

### Payments

Calls that lock the payment first and keep it to their commit are one action:
`PrepareLink`, `ReplaceLink`, `Create` (`dispatch_payment_link`: `CreateLink`, `FailLink`,
`RefuseCreate`; `CrashCreate` loses the transaction but not the provider's link) and
`Reconcile`, by the job, which commits a failure, or by the route, which rolls it back.
`Receive` is `accept_payment_webhook`.

A webhook job and a sweep are open transactions, records in `txn`. Such a transaction holds
the webhooks it has locked (`locked`), the ones it has still to work on (`todo`) and what it
has written (`own`); it reads the committed rows under its own writes (`View`) and puts only
the columns it wrote over them at its commit (`Save`), whatever they are by then. That is how
a stale read becomes a lost update in the code: the request and its attempts are not locked.

| Action | Code |
|---|---|
| `StartNormalize`, `FinishNormalize`, `SkipNormalize` | the job: `normalize_payment_webhook`, its commit, its early ends |
| `StartSweep` | the selections `FOR UPDATE SKIP LOCKED` of a sweep |
| `NormalizeTurn` | one round of `normalize_pending_payment_webhooks`, in a savepoint: what raises leaves no trace |
| `StartReplay`, `ReplayTurn` | `replay_unmatched_payment_observations`, one observation a round |
| `ReplayRefused`, `AbortSweep` | a refused transition escapes the replay, of this request or of another, and undoes the sweep |
| `CommitSweep` | the commit of `run_recovery_sweep` |
| `Crash` | the invocation dies, or its database session does |

An event carries what the code compares (`Payload`): its name, whether it has the frozen terms
(`exact`), what its payment entity reports (`pay`, which need not be what the name says), and
whether it names an order. `Verdict` is what `observe_payment_event` asks for, which requires
`PaymentAttempt.captured`; `ReplayVerdict` what the replay asks for, which goes by the name and
the presence of a payment. `onName` is history: a replay made the request PAID on an event
whose payment reported no capture.

What a reconciliation fetches is handed on without the `entity` that `_entity` looks for, so
that its observation names no link, is UNMATCHED and stays so; only the lookup of a link that
was never saved changes the rows (`LinkFound`, `LinkMissing`). The row locks of a sweep's flushed
writes are not modelled, so a writer that would wait for them may also come before them:
more behaviours than the code has. Waiting at the unique key of a payment is (`RowIsTaken`).
`LinkMoves` is the provider and its customer. Left out: receipt pages and listings; other
requests, but for `AbortSweep`; `REVERSED` has no writer.

### MailboxSync

Message i of the mailbox has history id i. `Connect`, `Disconnect` and `Push` are routes,
`Maintain` is `schedule_gmail_maintenance`. `RunBackfill` and `RunStop` lock the connection
before they read it. A history page is `StartHistory` (read and list) and `FinishHistory`
or `FinishGap`; a renewal `StartRenew` and `FinishRenew`. Several jobs of the mailbox may run
at the same time (`reads`): the code has no lease per mailbox. `Refresh` and `TokenIsRejected`
happen within a page; `Retried` is a crash or a retryable error, `GivenUp` a job out of
attempts. A `Push` has the form of a Pub/Sub envelope, which starts at the cursor, or of
`accept_gmail_push`, which starts where its body says. External: `Arrive`, `Change` (the user
labels or deletes a message), `HistoryExpires`, `WatchExpires`.

Three details decide the properties. A gap pauses the connection, and every job but the
backfill it enqueues refuses a paused one; but a job that had read the connection before
commits its page over the pause and writes the sync IDLE, after which the backfill is refused
as well. A stored message that was relabelled since is refused by `ingest_external_event`,
which fails its page; what came before it on the page stays (`Ingested`). And the cursor is
compared with the one that was read, not with the one that is there.

`checkpoint`, `passed` (messages that were not stored when the cursor was moved over them by a
job that a push had told where to start, or by a renewal that had read no cursor) and `overrun`
(a page was committed over a gap's pause) are history. Left out: coverage cut-offs, alerts,
hydration limits.

### AnalysisBudget

`Claim`, `Recover`, `Expire` and `Crash` are `DurableJobs` reduced to the attempt that holds the
job. A request has any number of jobs (`Request`): `POST /requests/{id}/analyze` adds one without
a look, and all of them share the workflow row of the request. `Reserve` is the first transaction
with `_reserve_live_budgets` (its `create_workflow` included), `Invoke` the model calls, `Persist`
the second transaction (settlement, workflow, decision, completion), `Fail` the transaction that
charges a failed attempt. Either of the first two may be refused for any reason (`Refuse`): what
else it looks up, what the model named, a deadline that passed. `Midnight` changes the day of the
windows, `ConfirmScope` the input of the digest. Tokens and cost take the same comparisons, so
that one amount stands for both. `spent` is history.

### Outbox

`Enqueue` writes job and entry in one commit. A sweep is `Discover` (the query for lost
wakeups), `Select` (the batch, `FOR UPDATE SKIP LOCKED`), and for each entry, oldest first
(`Due`), `Attempt`, the bus's `Accept` or `Reject`, and `Save`; the first `Save` gives up
the locks of the whole batch. `SweepCrash` ends it anywhere. `Retry` sends a job to
RETRY_WAIT, which writes no entry; `Age` lets an entry become old enough to be replaced.
External: `Lose`, `Deliver`.

### ScopeBaseline

A command of the API is `Begin` (idempotency record and rows are read) and `Finish` (write,
then insert the record), or `Abandon`. A confirmation has a step between them: `Number`
takes the candidates' locks and max + 1. `Finish` succeeds if the expected version is seen,
the key is unused and the number vacant. `GrantExpires`, `CompleteUpload`, `ExtractScope`
and `CorrectCandidate` are the document's life; `Accept` is a client's acceptance, which
holds the project's lock. Left out: what a document says, purge, manual corrections.

### Routing

`BeginSync`/`FinishSync`, `BeginResolve`/`FinishResolve` and `BeginMerge`/`FinishMerge` are
transactions that read first and write last, with others in between; `Abandon` ends one
without a commit. `Replay`, `CreateRequest`, `ConfirmScope` and `DeleteProject` are one
action: the unique key of a message refuses a replay whose read was overtaken,
`create_request` reads places, which do not change once they are made
(`RoutedMailStaysPut`), and the other two belong to `ScopeBaseline`. The messages come
through Gmail, so every one has a thread. Left out: `clarify_request`, assignment and
resolution of requests, which each write one row under its row version; `split_request`,
which is a creation; request versions. `forced` is history.

## 3. Runs

| Run | Expect | Shows |
|---|---|---|
| `JobsSafety` | pass | type, execution under a current lease, fencing, one final result, no poison without an operator, refinement of `JobLifecycle` |
| `JobsLiveness` | pass | leases are released; every job settles |
| `OrderSends` | pass | type, nothing happens to the order under an open send, every extra message is accounted for, the client is asked only after a delivery |
| `OrderDecisions` | pass | at most one acceptance per scope version |
| `OrderCrash` | violation | a crash forgets the dispatch, and the message is sent again |
| `Payments` | pass | PAID rests on a collected link, or on a replay that believed a name; one link per attempt and crash; one observation per event; webhooks settle unless sweeps are aborted for ever |
| `Mailbox` | pass | with two jobs at a time: the cursor skips nothing, a gap's pause can end and what arrives is stored, but for the causes the properties name |
| `Analysis` | pass | windows balance with the ledger and the limits; what was spent is in the ledger; a job decides once; the decisions on a request assess one scope version |
| `AnalysisDigest` | violation | with the two digests of the code an attempt is refused by its own reservation |
| `Outbox` | pass | publication marks are honest; a rejected entry does not hold up its batch; every waiting job is woken |
| `Scope` | pass | commands take effect once, edits build on each other, the newest scope is current, candidates have their source, versions never change |
| `Routing` | pass | nothing is dropped, threads stay together, requests keep to their project, routed mail stays |

The two violations are disagreements between the code and `docs/OPERATIONS.md` or
`docs/TDD.md`; `PROJECT.json` ("findings") quotes both sides. Section 5 lists the others
that were met and the constants that reproduce them.

**Bounds.** In `Jobs...` and `Order...`: two workers (an overlap needs two, and a third only
repeats the second's role: a row has one holder and any number of superseded
ones), three jobs, one of each kind; leases of zero ticks, so that a lease may
expire in any state; two attempts, so that a first one, a last one and the refusal
of a third occur; batches of two, invocations of two jobs, so that a batch can be
split, filled and continued. `JobsLiveness` has two jobs and no operator or
disconnect. `OrderSends`: two revisions (one can be superseded), two attempts (one
can be repeated), a crash, expired tokens, one client request. `OrderDecisions`:
two client requests, so that each can be stale with regard to the other, two
revisions, one amendment from elsewhere, one attempt.

- `Payments`: two attempts and two links (one can be replaced, one can be lost), two open
  transactions (a job against a sweep, or two sweeps), two webhooks, a crash; three links,
  webhooks and crashes in all (`MaxEvents`; four of them satisfy the safety properties as
  well, in 1.5 million states). Eight payloads (`MCPayloads`): a capture as it should be,
  under a name that promises too much, without a payment, with other terms; an
  authorization; closures. A link may be paid before its URL was saved (`PaidUnseen`): the
  replay exists for it. A new link names no order yet (`OrderAtOnce = FALSE`; TRUE satisfies
  the safety properties too). The three attempts of the code are the constant
  `MaxLinkAttempts`.
- `Mailbox`: two messages on pages of one, so that a listing has a first and a last page
  and a backfill a continuation; two jobs at a time; three troubles of any kind (connects
  among them), so that a reconnect and an expired history, or a push and a crash, meet.
- `Analysis`: two jobs of one request that share a window and a workflow, limits that hold two
  reservations of the tenant and three of the deployment, so that an overrun or a leak
  refuses the next one; two attempts, two days, one new scope.
- `Outbox`: two sweeps over a batch of two, one entry of which the bus always rejects; two
  entries per job, so that a wakeup can be lost and replaced once.
- `Scope`: two tabs, three keys (one repeated, two that race), two candidates that overlap
  or do not, one acceptance.
- `Routing`: two messages of one thread, two projects, two tabs and the sync, two of them
  open at once: every property is about two transactions.

Counters are capped by guards with the `Max...` constants. Deadlock is checked for the
jobs; elsewhere the bounded environment really may stop, and the runs do not check it.

**What the instances assume of the code.** `Analysis` takes `Volatile = {}`, as if both
digests left the evidence ids out: otherwise no analysis ever reaches its second commit and
what the run says of decisions would be empty; `AnalysisDigest` takes the code as it is, and
the theorems hold for every `Volatile`. `Payments` takes `CreateOperation =
"payment_links.create"`, the name under which the action is prepared: with the name that
`handlers.py:77` uses no link ever exists. `Routing` has one sync at a time: the lease per
mailbox of `docs/TDD.md`, which the code lacks. The digests are the finding of
`AnalysisDigest`, the other two are in section 5.

**Fairness.**
- `JobsLiveness`: the schedule starts an invocation for an idle worker again and again and
  time passes (weak fairness: the EventBridge rule of
  `infra/cloudformation/staging.yaml` fires every minute), and an invocation which is about to
  take its next step infinitely often takes it once (strong fairness: a crash may interrupt any
  step, but not all of them for ever). Provider and model calls end: HTTP timeouts and the
  Lambda timeout of 900 s.
- `Payments`: the schedule starts a sweep, and a queued webhook job is run (strong, since
  crashes and locks come between; jobs come back while tries are left); an open transaction
  goes on by itself until it ends (weak). `WebhooksSettle` promises nothing if sweeps are
  aborted for ever: no fairness of the schedule helps against an observation that raises in
  each of them.
- `Mailbox`: the schedule runs and a page that was read is finished (weak); a history or
  backfill job that could start again and again starts once (strong: jobs are claimed oldest
  first).
- `Outbox`: sweeps go on, time passes, and the bus delivers (weak).

No fairness is assumed of people, heartbeats, enqueuing, the user's mailbox or the
provider's customers, and none of dispatchers: nobody promises that a woken job is claimed.

## 4. Proofs

`DurableJobsProofs` proves, for any finite set of jobs, any set of workers and any
durations and batch sizes (assumptions `JobsAssumption`, `WorkersAssumption`,
`BoundsAssumption`):

| Theorem | Statement |
|---|---|
| `TypeCorrect` | `Spec => []TypeOK` |
| `ExecutionsStayCurrent` | `Spec => []ExecutionIsCurrent` |
| `FencingIsSound` | `Spec => []LeasesAreFenced` |
| `OneResultPerJob` | `Spec => []CommittedWorkIsFinal` |
| `NoPoisonWithoutOperator` | `Spec => []PoisonOnlyByOperator` |
| `JobsRefineLifecycle` | `Spec => JobsFollowTheirLifecycle` |

None of these is inductive alone. `IInv` conjoins them with three facts:
`StagesHaveLeases` (an invocation that works has a current lease),
`AttemptsAreGenerations` (attempts and generations rise together, which is why the
generation is bounded), and `CancelledJobsExist` (a disconnect only writes rows that
exist). Without the first, "the executing worker owns its row" says nothing of which
row; without the second, the lifecycle's bound on generations does not follow from
the table's bound on attempts.

The argument: `RowSteps` says that a step changes each row by a small move (a claim
or one of the other writes); `LockedRowStays` that a row under a provider call is
touched by its own worker only; `StageStep`, `HeldStep` and `LeasesStep` carry the
in-memory leases over a step; `RowInvariantsStep` the facts about one row;
`NextIInv` combines them and `Invariance` closes the induction. `StepRefines` maps
each row's move to an action of `JobLifecycle`.

`ChangeOrdersProofs` proves, for any number of revisions, client requests, attempts,
crashes and amendments (`BoundsAssumption`, `NoneAssumption`):

| Theorem | Statement |
|---|---|
| `OrderTypes` | `Spec => []TypeOK` |
| `SendsHoldTheirOrder` | `Spec => []OpenSendIsPending` |
| `DuplicatesAreAccountedFor` | `Spec => []MailIsAccountedFor` |
| `ClientsAreAskedAfterMail` | `Spec => []AwaitedClientHasMail` |
| `BaselinesAreAmendedOnce` | `Spec => []OneAcceptancePerBaseline` |

Its `IInv` adds four facts. `JobsAreBudgeted`: an open job is runnable, a job that may
be picked has tries left, and the action of an open send had been read as dispatchable
(the type of the counters and the send's job depend on it). `ActionsAreApproved`:
actions, jobs and resolutions belong to written revisions, and the revision that waits
for the freelancer has none, so an approval never overwrites the history of an earlier
send. `SendableMailIsExcused`: a revision whose action is dispatchable, or was when the
open job read it, has no message beyond its acknowledgements and lapses; this is what a
send consumes and what a retry, a crash or a second POST restores, and why
`MailIsAccountedFor` alone is not inductive. `OffersAreWritten`: grants, client reads
and acceptances concern written revisions and past scope versions, so that a new
revision's baseline is nobody's yet. One lemma per part shows that every action
preserves it (`TypeStep`, `BudgetStep`, `ApprovedStep`, `OpenSendStep`, `MailStep`,
`AwaitedStep`, `OffersStep`).

`ScopeBaselineProofs` (`BaselineAssumption`, `NoneAssumption`) proves, for any tabs, keys, rows,
candidates and number of acceptances:

| Theorem | Statement |
|---|---|
| `BaselineInvariant` | `Spec => []IInv` |
| `CommandsAreIdempotent` | `Spec => []CommandsTakeEffectOnce` |
| `NoEditIsLost` | `Spec => []EditsBuildOnEachOther` |
| `NewestStaysCurrent` | `Spec => []NewestScopeIsCurrent` |
| `CandidatesAreSourced` | `Spec => []CandidatesHaveTheirSource` |
| `VersionsAreImmutable` | `Spec => ScopeVersionsAreImmutable` |

`IInv` adds `OpenCommandsAreSound` (a confirmation keeps a number at most one past the newest
version, so that a vacant number is the next one; this is why max + 1 without the project's
lock is enough), `ExtractionsSpendTheGrant` (a document under review has had its one
extraction) and `EditsAreBehind` (the version an edit expected is behind its row since, so
that a second edit of it is refused). Lemmas on counting in a log carry the idempotency.

`RoutingProofs` (`RoutingAssumption`) proves, for any projects, messages, threads, tabs and
bounds:

| Theorem | Statement |
|---|---|
| `NothingIsDropped` | `Spec => []NothingFallsBetween` |
| `ThreadsAreNotSplit` | `Spec => []ThreadsStayTogether` |
| `RequestsAreOfOneProject` | `Spec => []RequestsKeepToTheirProject` |
| `MailStaysWhereItIs` | `Spec => RoutedMailStaysPut` |

A transaction decides on what it has read. `IInv` says what is still true of it at the
commit: a place and an assignment that were read are still so (`SyncIsSound`,
`ResolutionsAreSound`), a decision being resolved is still open, because its row is locked,
and the mail a merge moves is in its target's project (`MergesAreSound`). What was absent
when it was read may have come since; there the unique keys refuse the commit.

`AnalysisBudgetProofs` (`BudgetAssumption`, `NoneAssumption`) proves, for any jobs,
invocations, requests, digests, amounts, limits, attempts and days:

| Theorem | Statement |
|---|---|
| `LedgerTypes` | `Spec => []TypeOK` |
| `NothingIsSpentUnseen` | `Spec => []SpendIsAccountedFor` |
| `WindowsHoldOpenReservations` | `Spec => []ReservedIsOpen` |
| `JobsNeverDecideTwice` | `Spec => JobsDecideOnce` |
| `OneScopePerRequest` | `Spec => []DecisionsShareTheirScope` |
| `LedgerBalances` | `Spec => []WindowsBalance` |
| `SpendNeverExceedsLimits` | `Spec => []SpendIsWithinLimits` |

`IInv` adds `AttemptsHaveOneHolder`, `StepsFollowTheLedger` (what an invocation at each step
may rely on: its reservation is open, the workflow has the scope it read), `UntriedIsBlank`,
`JobsAreBudgeted` and `DecisionsFollowTheWorkflow` (a decision assesses the scope version
that the workflow of its request was created with, which no later job changes).
`ReservedIsOpen` counts the open reservations of a window; without it a settlement could
drive the window below zero, and `TypeOK` is not inductive.

The sums of different amounts come in a second induction, whose invariant `BalanceInv` stands
on the first: what a window has used is the total of its settled reservations (`UsedIsTotal`),
every window is within its limit (`WindowsFit`), and an open reservation was charged nothing
(`OpenIsUnused`). A settlement may not exceed the amount reserved (`PersistsFit`), which is why
a reservation that fits is enough. `Total` is a fold; its lemmas (`SumsExist`, `TotalTakesOut`,
`TotalChanges`, `TotalsAreBounded`) take a smallest set for which they fail and remove an
element of it, since the induction theorems of the library cannot be used.

`MailboxSyncProofs` (`MailboxAssumption`, `NoneAssumption`) proves, for any number of jobs at a
time, messages, page size and troubles:

| Theorem | Statement |
|---|---|
| `MailboxTypes` | `Spec => []TypeOK` |
| `CursorSkipsNothing` | `Spec => []NothingSkipped` |
| `PausesCanEnd` | `Spec => []PausedIsResumable` |

`NothingSkipped` is about the cursor, but the cursor jumps to where a listing ends, and other
jobs have moved it meanwhile. `IInv` therefore says what a job knows without the cursor: every
history job starts, and every listed page continues, where everything after the checkpoint is
stored or passed; a job that a push has told where to start answers only for what lies between
its own start and its page (`UpTo`, `HistoryIsReached`, `ReadsAreSound`). An id that is reached
stays so whatever others do, because mail, checkpoint, stored and passed messages only grow.
So the overlap of jobs needs no assumption; the two ways to pass a message are exactly those
that `passed` records.

`OutboxProofs` (`OutboxAssumption`: the jobs are finitely many) proves, for any sweeps, batch
limit and bounds:

| Theorem | Statement |
|---|---|
| `OutboxTypes` | `Spec => []TypeOK` |
| `PublishedWasSent` | `Spec => []PublicationsAreHonest` |

`IInv` adds `SweepsKnowTheirEntry`: a sweep that calls the bus has committed the attempt on
the entry it is at, and one that saves an accepted entry has sent it; other sweeps may have
the same entry by then, since the first commit gives up the locks, but nothing they do takes
that back. `EntriesAreFew` counts the entries of a job, of which a rediscovery adds one to
those of a job that was found; the bound on the whole outbox follows by a count over the jobs
(`RowsAreFew`), and that of a batch by `FirstAreFew`.

`PaymentsProofs` (`PaymentsAssumption`) proves, for any number of open webhook jobs and sweeps,
any payloads, and any number of attempts, links, webhooks and crashes:

| Theorem | Statement |
|---|---|
| `PaymentTypes` | `Spec => []TypeOK` |
| `PaidRestsOnMoney` | `Spec => []PaidIsCollected` |
| `LinksAreFew` | `Spec => []LinksAreAccountedFor` |
| `OneObservationPerEvent` | `Spec => []EventsAreObservedOnce` |
| `PaidFallsOnlyToStaleReads` | `Spec => PaidFallsToStaleReads` |

A transaction writes over rows it read earlier and did not lock. `IInv` says why that does not
harm the first four: what an open transaction has written is sound whenever it commits
(`TransactionsAreSound`): an observation it inserted is of a webhook that it holds and that
nobody has observed; a status PAID rests on money, which is never given back, or on a name; a
webhook it is done with is observed. Held webhooks are held by one (`LocksAreApart`), received
events and the rows made of them are true of their link (`EventsAreReal`, `CapturesAreReal`).
`CreatesAreOwed` counts the links of an attempt against the job that is to make one: a job that
is given up is gone, so that only crashes add to them. `TransactionStaysSound` carries a
transaction over the steps of others, `StepKeepsIInv` covers every step of a transaction that
stays open, one lemma each the commits.

What is harmed is the status itself: `PaidIsFinal` is violated (section 5). The last theorem says
how: PAID is lost only at the commit of a webhook job or a sweep that wrote the request, and
none that reads the request PAID decides to move it.

**Only model-checked.** Liveness (`LeasesAreReleased`, `EveryJobSettles`,
`WebhooksSettle`, `ArrivalsAreIngested`, `EntriesArePublished`, `JobsAreWoken`)
is out of the prover's reach. Every other property of a passing run has a theorem. The
violation runs are counterexamples and have no theorem. `TypeOK` of `MailboxSync`,
`Routing` and `ScopeBaseline` is in no run; it is part of their inductive invariants.

## 5. Disagreements that can be reproduced

Beside the two violation runs, these properties are stated in the modules and violated by
what the code does. Each is reproduced by its module's `.cfg` with the constants given and
the property in place of the cfg's own.

| Property | Module, constants | What happens | What is said |
|---|---|---|---|
| `EveryJobSettles` | `DurableJobs`, `JobsLiveness.cfg`: `Jobs = {poison, send}`, `AnalysisJobs = {}`, `RetriedJobs = {poison}`, `Workers = {w1}` | an operator retries a job without attempts left; every claim that picks it breaks `ck_jobs_attempts`, and the other job with it | `docs/TDD.md:742` "Poison jobs do not block unrelated tenants." |
| `NoUnacknowledgedDuplicate` | `ChangeOrders`, `OrderSends.cfg`: `MaxRevisions = 1`, `Requests = {}`, `MaxCrashes = 0` | a second POST after a token refresh loses its answer, is taken for a refresh that failed, and is sent again | `docs/TDD.md:388` "If unresolved after bounded reconciliation, require review and do not automatically resend" |
| `SendsAreCurrent` | `OrderSends.cfg`: `MaxCrashes = 0`, `TokensExpire = FALSE` | a replaced revision is sent once the next one is approved | `docs/TDD.md:583` "It cancels unstarted actions and revokes prior grants/approvals for future execution" |
| `WithdrawnStaysWithdrawn` | the same with `MaxRevisions = 1` | a client accepts an order withdrawn since it was read | `docs/TDD.md:581` "withdrawal revokes acceptance immediately" |
| `ReceiptIsFinal` | the same | an operator's retry on a stale read regresses a confirmed receipt | `services/workers/durable.py:69` lets no transition leave `RECEIPT_CONFIRMED`; `docs/TDD.md:587` "do not regress a terminal business state" |
| `PaidIsFinal` | `Payments`, `Payments.cfg` with `SPECIFICATION Spec` | a webhook job or a sweep that read the request before it was paid writes over PAID at its commit (`PaidFallsOnlyToStaleReads`) | `docs/ARCHITECTURE_REVIEW.md:408` "Paid state does not regress" |
| `PaidIsNeverOnName` | the same | the replay moves a request to PAID on an event named paid whose payment is only authorized (`payments/service.py:794`) | `docs/TDD.md:436` "Never normalize a payment event to PAID solely from its name." |
| `OneLinkIsActive` | the same | create-link is called again, with another idempotency key, while the first attempt is in flight; both jobs make a link | `docs/TDD.md:617` "only one verified payable link may be active" |
| `GenuineWebhooksSettle` | `Payments.cfg` | an observation that the replay refuses to apply, a capture of a cancelled request say, raises and aborts every sweep; the invocation then claims no job, of any tenant | `docs/OPERATIONS.md:42` "Retry with backoff for 24 hours, then manual review" |
| (none; no link exists) | `Payments.cfg`: `CreateOperation = "create_payment_link"` | `handlers.py:77` looks the action up under another operation than it was prepared with: the job is poisoned | the name in `prepare_payment_link` |
| `NothingIsPassed` | `MailboxSync`, `Mailbox.cfg` with `SPECIFICATION Spec` | a push by `accept_gmail_push` starts a job beyond the cursor, or a renewal that had read no cursor writes one; the cursor moves over messages nobody has stored | `docs/TDD.md:100` "Sync reads history from the committed cursor through all pages" |
| `CursorOnlyAdvances` | the same | two jobs overlap; the later one moves the cursor back to where its own listing ended | `docs/TDD.md:100` "A per-mailbox lease coalesces pushes", "It never regresses the cursor" |
| `PauseIsNeverStuck` | the same | one history job records a gap (`gmail.py:592`); another, which had read the connection before, commits its page over the pause and writes the sync IDLE (`gmail.py:526`): the backfill that should resume the connection is refused | `docs/TDD.md:102` "perform bounded full sync plus checkpoint catch-up" |
| `AcceptedWorkStaysInScope` | `ScopeBaseline`, `Scope.cfg` | a confirmation whose parent was read before an acceptance becomes current without it | `docs/TDD.md:478` "Already accepted work remains in the effective scope unless explicitly rescinded through a reviewed amendment" |
| `EntriesArePublished` | `Outbox`, `Outbox.cfg`: `BatchLimit = 1` | rejected entries fill every batch and hold up the rest | `docs/ARCHITECTURE_REVIEW.md:29` "surface permanently failing records" |

Three more were met in the code and are part of the models rather than properties of them. Every
analysis job of a request may commit a decision of its own: `POST /requests/{id}/analyze`
(`api/routes.py:886`) enqueues jobs without a look and `create_analysis_decision`
(`agents/persistence.py:319`) inserts without a unique key; what is checked is that a job
decides once and that all decisions of a request assess one scope. Reconciling a link that is
known changes nothing (`payments/service.py:868`, no `entity` in what is handed on), and as its
observation belongs to no request, every sweep may schedule another one; `docs/TDD.md:444` says
"Scheduled checks catch lost webhooks: every 15 minutes for pending links". And a webhook that its
request refuses is tried again by each sweep, in a savepoint that leaves no trace of it, if its
job was poisoned before.

## 6. Not modelled

- *Lock waits and deadlocks.* PostgreSQL aborts one transaction of a cycle; the models have
  that as a crash or an abandoned transaction. The cycles are listed as hazards.
- *Analysis capacity* (`workers/capacity.py`), `expire_stale_offers`, `reconcile_gmail_unknown`,
  `record_consumer_receipt`: nothing but tests calls them.
- *SES notifications*: the same action machine and send pattern as the Gmail send.
- *Evidence gates, money, terms*: pure functions of one call, tested at their boundaries.
- *Change orders' assembly, sessions and receipts*: each is made once, by one actor.
- *CRUD, listing, authentication, extraction, prompts, schemas, evaluation, connector
  tables, web client, infrastructure*: no state that several actors contend for. The
  constraints and timings they set appear as guards and constants.

What could be added: the SES send as a second instance of the send pattern, a composition of
`MailboxSync` and `Routing` in which the page and its messages are one transaction, a
mailbox lease in the design's form as an abstract specification for `MailboxSync`, and a second
request in `Payments`, so that `AbortSweep` would have its cause in the model.

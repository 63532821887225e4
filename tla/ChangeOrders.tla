---------------------------- MODULE ChangeOrders ----------------------------
(***************************************************************************)
(* One change order and the email that offers it to the client:            *)
(* services/change_orders/service.py, the Gmail dispatch of                *)
(* integrations/gmail.py, the action state machine of workers/durable.py,  *)
(* the orphan sweep of workers/recovery.py and the operator's resolution   *)
(* of api/operations.py.                                                   *)
(*                                                                         *)
(* A committed transaction is one action, with four exceptions that the   *)
(* properties are about:                                                   *)
(*  - a send holds the rows of its action and of the order, uncommitted,   *)
(*    from StartSend to the end of the provider call;                      *)
(*  - a client's request reads the order and the grant, waits for the row  *)
(*    locks, and then decides on what it had read: a locking SELECT does   *)
(*    not refresh an object that the session has already loaded;           *)
(*  - so do the operator's resolution of an action and the orphan sweep,   *)
(*    and so does a send job with its action (but not with its order).     *)
(*                                                                         *)
(* The send jobs are those of DurableJobs, reduced to what their life      *)
(* allows (JobLifecycle): runnable with tries left, succeeded or failed.   *)
(*                                                                         *)
(* row_version is left out: the freelancer and the client send the value   *)
(* they want it compared with, and a request that read a stale order       *)
(* compares it with the stale value, so that any value may match.          *)
(***************************************************************************)
EXTENDS Integers, FiniteSets

CONSTANTS
  MaxRevisions, \* revisions the freelancer writes
  Requests,     \* client requests in flight, each from a session of its own
  MaxAttempts,  \* DEFAULT_MAX_ATTEMPTS, of actions and of jobs
  MaxCrashes,   \* crashes of the worker during a send
  MaxAmendments,\* amendments of other orders of the project
  TokensExpire, \* whether an access token may expire (401) in these behaviours
  None

ASSUME BoundsAssumption ==
  /\ MaxRevisions \in Nat \ {0} /\ MaxAttempts \in Nat \ {0}
  /\ MaxCrashes \in Nat /\ MaxAmendments \in Nat
  /\ TokensExpire \in BOOLEAN

VARIABLES
  order,     \* the change order: status and current revision
  grant,     \* per revision, what has happened to its REVIEW capability
  baseline,  \* per revision, the scope version it amends
  scope,     \* the project's current scope version
  approvals, \* the client's decisions on record
  action,    \* per revision, the state of its send action and its attempts
  job,       \* per revision, its send job
  picked,    \* per revision, the state of its action that its open job has read, or None
  sending,   \* the revision whose send transaction is open, or None
  pending,   \* per client request, what it has read, or None
  resolving, \* what an operator or the sweep has read of an action, or None
  \* The world outside, and what the properties look at:
  mail,      \* per revision, the messages Gmail has accepted
  acks,      \* per revision, operator retries that accept the risk of a duplicate
  lapses,    \* per revision, calls whose outcome the program does not know it lost
  crashes,
  amendments \* amendments of other orders

orderVars   == <<order, grant, baseline>>
projectVars == <<scope, amendments>>
sendVars    == <<action, job, picked, sending>>
worldVars   == <<mail, acks, lapses, crashes>>
vars == <<order, grant, baseline, scope, approvals, action, job, picked, sending, pending, resolving,
          mail, acks, lapses, crashes, amendments>>

-----------------------------------------------------------------------------

Revisions == 1..MaxRevisions

Statuses == {"AWAITING_FREELANCER_APPROVAL", "SEND_PENDING", "AWAITING_CLIENT_APPROVAL",
             "REVISION_REQUESTED", "CLIENT_APPROVED", "REJECTED_BY_FREELANCER",
             "REJECTED_BY_CLIENT", "WITHDRAWN"}

ActionStates == {"ABSENT", "READY", "DISPATCHING", "RETRY_WAIT", "SUCCEEDED", "UNKNOWN_OUTCOME",
                 "REVIEW_REQUIRED", "RECEIPT_CONFIRMED", "CANCELLED"}

ASSUME NoneAssumption == None \notin Nat \cup ActionStates

Decisions == {"APPROVED", "REJECTED", "REQUEST_CHANGES"}

\* The operator's resolutions of an action, and the sweep's.
Verdicts == {"retry", "confirm_receipt", "cancel", "orphaned"}

TypeOK ==
  /\ order \in [status : Statuses, current : Revisions]
  /\ grant \in [Revisions -> SUBSET {"activated", "consumed", "revoked"}]
  /\ baseline \in [Revisions -> Nat]
  /\ scope \in Nat
  /\ approvals \subseteq Revisions \X Decisions
  /\ action \in [Revisions -> [state : ActionStates, attempts : 0..MaxAttempts]]
  /\ job \in [Revisions -> [state : {"ABSENT", "RUNNABLE", "SUCCEEDED", "FAILED"},
                            tries : 0..MaxAttempts]]
  /\ picked \in [Revisions -> ActionStates \cup {None}]
  /\ sending \in Revisions \cup {None}
  /\ pending \in [Requests -> [rev : Revisions, status : Statuses] \cup {None}]
  /\ resolving \in [rev : Revisions, verdict : Verdicts, seen : ActionStates] \cup {None}
  /\ mail \in [Revisions -> Nat] /\ acks \in [Revisions -> Nat] /\ lapses \in [Revisions -> Nat]
  /\ crashes \in 0..MaxCrashes /\ amendments \in 0..MaxAmendments

\* assemble_change_order has made the first revision.
Init ==
  /\ order = [status |-> "AWAITING_FREELANCER_APPROVAL", current |-> 1]
  /\ grant = [r \in Revisions |-> {}]
  /\ baseline = [r \in Revisions |-> 0]
  /\ scope = 0
  /\ approvals = {}
  /\ action = [r \in Revisions |-> [state |-> "ABSENT", attempts |-> 0]]
  /\ job = [r \in Revisions |-> [state |-> "ABSENT", tries |-> 0]]
  /\ picked = [r \in Revisions |-> None]
  /\ sending = None
  /\ pending = [q \in Requests |-> None]
  /\ resolving = None
  /\ mail = [r \in Revisions |-> 0]
  /\ acks = [r \in Revisions |-> 0]
  /\ lapses = [r \in Revisions |-> 0]
  /\ crashes = 0
  /\ amendments = 0

\* An open send holds the locks of the order and of its action.
OrderIsFree == sending = None

MoveOrder(status) == order' = [order EXCEPT !.status = status]

\* _revoke_capabilities: every grant of the order that is not revoked yet.
Written(r) == r <= order.current
Revoked(g, marks) == [r \in Revisions |-> IF Written(r) /\ "revoked" \notin g[r]
                                          THEN g[r] \cup marks ELSE g[r]]

\* The order's latest send action, by creation: there is one per approved revision.
LatestAction == {r \in Revisions : /\ action[r].state # "ABSENT"
                                   /\ \A s \in Revisions : action[s].state # "ABSENT" => s <= r}

SetAction(r, state) == action' = [action EXCEPT ![r].state = state]

\* ACTION_TRANSITIONS, for the states a resolution may start from.
Allowed(from, verdict) ==
  CASE verdict = "retry"           -> from \in {"UNKNOWN_OUTCOME", "REVIEW_REQUIRED"}
    [] verdict = "confirm_receipt" -> from \in {"SUCCEEDED", "UNKNOWN_OUTCOME", "REVIEW_REQUIRED"}
    [] verdict = "cancel"          -> from \in {"READY", "RETRY_WAIT", "REVIEW_REQUIRED"}
    [] verdict = "orphaned"        -> from = "DISPATCHING"

Resolved(verdict) ==
  CASE verdict = "retry"           -> "RETRY_WAIT"
    [] verdict = "confirm_receipt" -> "RECEIPT_CONFIRMED"
    [] verdict = "cancel"          -> "CANCELLED"
    [] verdict = "orphaned"        -> "UNKNOWN_OUTCOME"

-----------------------------------------------------------------------------
(* The freelancer *)

\* create_revision: a new revision on the current baseline; the old grants are revoked, the
\* old send action is left as it is. (Revise alone is a mutant: the order is not locked.)
Revise ==
  /\ order.status \notin {"CLIENT_APPROVED", "WITHDRAWN"}
  /\ order.current < MaxRevisions
  /\ order' = [status |-> "AWAITING_FREELANCER_APPROVAL", current |-> order.current + 1]
  /\ grant' = Revoked(grant, {"revoked", "consumed"})
  /\ baseline' = [baseline EXCEPT ![order.current + 1] = scope]
  /\ UNCHANGED <<projectVars, approvals, sendVars, pending, resolving, worldVars>>

CreateRevision == OrderIsFree /\ Revise

\* approve_freelancer: the grant is activated, the send action and its job are made. The
\* baseline is compared with a project read before the order's lock, when it may still have
\* been at the revision's baseline: the comparison bars nothing, and is no guard here.
ApproveFreelancer ==
  LET r == order.current IN
  /\ OrderIsFree
  /\ order.status = "AWAITING_FREELANCER_APPROVAL"
  /\ "revoked" \notin grant[r]
  /\ MoveOrder("SEND_PENDING")
  /\ grant' = [grant EXCEPT ![r] = @ \cup {"activated"}]
  /\ SetAction(r, "READY")
  /\ job' = [job EXCEPT ![r].state = "RUNNABLE"]
  /\ UNCHANGED <<baseline, projectVars, approvals, picked, sending, pending, resolving, worldVars>>

\* freelancer_decide: rejected or waived.
FreelancerDecide(target) ==
  /\ OrderIsFree
  /\ order.status = "AWAITING_FREELANCER_APPROVAL"
  /\ MoveOrder(target)
  /\ grant' = Revoked(grant, {"revoked"})
  /\ UNCHANGED <<baseline, projectVars, approvals, sendVars, pending, resolving, worldVars>>

\* withdraw_change_order, with _cancel_pending_send.
Withdraw ==
  /\ OrderIsFree
  /\ order.status \notin {"CLIENT_APPROVED", "WITHDRAWN", "REJECTED_BY_CLIENT",
                          "REJECTED_BY_FREELANCER"}
  /\ \A r \in LatestAction : action[r].state \notin {"DISPATCHING", "UNKNOWN_OUTCOME"}
  /\ MoveOrder("WITHDRAWN")
  /\ action' = [r \in Revisions |->
                  IF r \in LatestAction /\ action[r].state \in {"READY", "RETRY_WAIT"}
                  THEN [action[r] EXCEPT !.state = "CANCELLED"] ELSE action[r]]
  /\ grant' = Revoked(grant, {"revoked"})
  /\ UNCHANGED <<baseline, projectVars, approvals, job, picked, sending, pending, resolving,
                 worldVars>>

\* disconnect_gmail: every action that is not under way is cancelled, the order stays.
DisconnectGmail ==
  /\ OrderIsFree
  /\ \E r \in Revisions : action[r].state \in {"READY", "RETRY_WAIT"}
  /\ action' = [r \in Revisions |->
                  IF action[r].state \in {"READY", "RETRY_WAIT"}
                  THEN [action[r] EXCEPT !.state = "CANCELLED"] ELSE action[r]]
  /\ UNCHANGED <<orderVars, projectVars, approvals, job, picked, sending, pending, resolving,
                 worldVars>>

-----------------------------------------------------------------------------
(* The client *)

\* _session_scope: the session, the grant and the order are read, none of the last two locked.
OpenRequest(q) ==
  /\ pending[q] = None
  /\ \E r \in Revisions :
       /\ "activated" \in grant[r] /\ grant[r] \cap {"consumed", "revoked"} = {}
       /\ pending' = [pending EXCEPT ![q] = [rev |-> r, status |-> order.status]]
  /\ UNCHANGED <<orderVars, projectVars, approvals, sendVars, resolving, worldVars>>

\* Any check fails, or the request is given up: the transaction rolls back.
RefuseRequest(q) ==
  /\ pending[q] # None
  /\ pending' = [pending EXCEPT ![q] = None]
  /\ UNCHANGED <<orderVars, projectVars, approvals, sendVars, resolving, worldVars>>

\* accept_client. The order is judged as it was read first; the project's baseline, the
\* action and the payment request are read under their locks. (AcceptOffer alone is a
\* mutant: the baseline is not checked again.)
AcceptOffer(q) ==
  /\ pending[q] # None /\ OrderIsFree
  /\ LET r == pending[q].rev
         attempted == action[r].state \in {"DISPATCHING", "UNKNOWN_OUTCOME"}
     IN /\ \/ pending[q].status = "AWAITING_CLIENT_APPROVAL"
           \/ pending[q].status = "SEND_PENDING" /\ attempted
        /\ <<r, "APPROVED">> \notin approvals
        /\ approvals' = approvals \cup {<<r, "APPROVED">>}
        /\ grant' = [grant EXCEPT ![r] = @ \cup {"consumed"}]
        /\ IF attempted THEN SetAction(r, "RECEIPT_CONFIRMED") ELSE UNCHANGED action
  /\ MoveOrder("CLIENT_APPROVED")
  /\ scope' = scope + 1
  /\ pending' = [pending EXCEPT ![q] = None]
  /\ UNCHANGED <<baseline, amendments, job, picked, sending, resolving, worldVars>>

AcceptClient(q) == pending[q] # None /\ baseline[pending[q].rev] = scope /\ AcceptOffer(q)

\* client_decide: a rejection or a request for changes. The same decision is recorded once.
ClientDecide(q, decision) ==
  /\ pending[q] # None /\ OrderIsFree
  /\ pending[q].status = "AWAITING_CLIENT_APPROVAL"
  /\ LET r == pending[q].rev IN
       /\ <<r, decision>> \notin approvals
       /\ approvals' = approvals \cup {<<r, decision>>}
       /\ grant' = Revoked([grant EXCEPT ![r] = @ \cup {"consumed"}], {"revoked"})
  /\ MoveOrder(IF decision = "REJECTED" THEN "REJECTED_BY_CLIENT" ELSE "REVISION_REQUESTED")
  /\ pending' = [pending EXCEPT ![q] = None]
  /\ UNCHANGED <<baseline, projectVars, sendVars, resolving, worldVars>>

-----------------------------------------------------------------------------
(* The send worker: dispatch_gmail_send in the transaction of its job *)

\* The claim of the job, and _action_for_job in the transaction that runs it.
PickSend(r) ==
  /\ job[r].state = "RUNNABLE" /\ picked[r] = None
  /\ picked' = [picked EXCEPT ![r] = action[r].state]
  /\ job' = [job EXCEPT ![r].tries = @ + 1]
  /\ UNCHANGED <<orderVars, projectVars, approvals, action, sending, pending, resolving,
                 worldVars>>

\* begin_gmail_send and begin_action_dispatch, with an account connected (again). The order
\* is read under its lock, the action was read before. DISPATCHING is written, not committed.
StartSend(r) ==
  /\ OrderIsFree
  /\ picked[r] \in {"READY", "RETRY_WAIT"} /\ action[r].attempts < MaxAttempts
  /\ order.status = "SEND_PENDING"
  /\ sending' = r
  /\ UNCHANGED <<orderVars, projectVars, approvals, action, job, picked, pending, resolving,
                 worldVars>>

\* The job's transaction ends without a trace in the action.
EndJob(r, jobState) ==
  /\ picked' = [picked EXCEPT ![r] = None]
  /\ job' = [job EXCEPT ![r].state = jobState]
  /\ UNCHANGED <<orderVars, projectVars, approvals, action, pending, resolving, acks>>

\* No connected account, content that cannot be sent, an order or action that is not
\* dispatchable: the job fails before the provider is called.
RefuseSend(r) ==
  /\ picked[r] # None /\ sending # r
  /\ EndJob(r, "FAILED")
  /\ UNCHANGED <<sending, mail, lapses, crashes>>

\* The transaction commits: the action's state and attempt, and the job's.
CommitSend(r, state, jobState) ==
  /\ action' = [action EXCEPT ![r] = [state |-> state, attempts |-> @.attempts + 1]]
  /\ job' = [job EXCEPT ![r].state = jobState]
  /\ picked' = [picked EXCEPT ![r] = None]
  /\ sending' = None
  /\ UNCHANGED <<grant, baseline, projectVars, approvals, pending, resolving>>

\* Mutant of Retried: the budget of the job is not looked at.
RetriedUnbounded(r) == "RUNNABLE"

\* A job that may be retried runs again while tries are left.
Retried(r) == IF job[r].tries < MaxAttempts THEN "RUNNABLE" ELSE "FAILED"

\* Gmail takes the message: with a call whose answer is lost, it may have or not.
Delivered(r) == mail' = [mail EXCEPT ![r] = @ + 1]
MaybeDelivered(r) == UNCHANGED mail \/ Delivered(r)

\* record_gmail_send_success.
SendSucceeds(r) ==
  /\ sending = r
  /\ CommitSend(r, "SUCCEEDED", "SUCCEEDED")
  /\ IF order.status = "SEND_PENDING" THEN MoveOrder("AWAITING_CLIENT_APPROVAL")
     ELSE UNCHANGED order
  /\ Delivered(r)
  /\ UNCHANGED <<acks, lapses, crashes>>

\* Mutants of SendIsUncertain: the lost answer is taken for a throttled call; for a success.
UncertainIsRetried(r) ==
  /\ sending = r
  /\ CommitSend(r, "RETRY_WAIT", Retried(r))
  /\ MaybeDelivered(r)
  /\ UNCHANGED <<order, acks, lapses, crashes>>

UncertainIsSuccess(r) ==
  /\ sending = r
  /\ CommitSend(r, "SUCCEEDED", "SUCCEEDED")
  /\ MoveOrder("AWAITING_CLIENT_APPROVAL")
  /\ MaybeDelivered(r)
  /\ UNCHANGED <<acks, lapses, crashes>>

\* Timeout, 5xx or an unusable answer: record_gmail_send_unknown.
SendIsUncertain(r) ==
  /\ sending = r
  /\ CommitSend(r, "UNKNOWN_OUTCOME", "FAILED")
  /\ MaybeDelivered(r)
  /\ UNCHANGED <<order, acks, lapses, crashes>>

\* 429, or a token refresh that may be tried again: mark_action_retry.
SendIsThrottled(r) ==
  /\ sending = r
  /\ CommitSend(r, "RETRY_WAIT", Retried(r))
  /\ UNCHANGED <<order, worldVars>>

\* 4xx: mark_action_review_required.
SendIsRejected(r) ==
  /\ sending = r
  /\ CommitSend(r, "REVIEW_REQUIRED", "FAILED")
  /\ UNCHANGED <<order, worldVars>>

\* 401, a refreshed token, and a second POST whose answer is lost: the except clause is that
\* of the refresh, mark_action_retry.
ResendTimesOut(r) ==
  /\ TokensExpire
  /\ sending = r
  /\ CommitSend(r, "RETRY_WAIT", Retried(r))
  /\ MaybeDelivered(r)
  /\ lapses' = [lapses EXCEPT ![r] = @ + 1]
  /\ UNCHANGED <<order, acks, crashes>>

\* 401 and a refresh token that is refused: the ConflictError leaves the action as begun.
ReauthRequired(r) ==
  /\ TokensExpire
  /\ sending = r
  /\ CommitSend(r, "DISPATCHING", "FAILED")
  /\ UNCHANGED <<order, worldVars>>

\* The worker dies before the call, or during it: DISPATCHING and the attempt roll back, and
\* the job is found with its lease expired.
CrashJob(r) ==
  /\ crashes < MaxCrashes
  /\ picked[r] # None /\ sending # r
  /\ EndJob(r, Retried(r))
  /\ crashes' = crashes + 1
  /\ UNCHANGED <<sending, mail, lapses>>

CrashSend(r) ==
  /\ crashes < MaxCrashes
  /\ sending = r
  /\ sending' = None
  /\ EndJob(r, Retried(r))
  /\ MaybeDelivered(r)
  /\ lapses' = [lapses EXCEPT ![r] = @ + 1]
  /\ crashes' = crashes + 1

-----------------------------------------------------------------------------
(* Operator and sweep *)

\* get_action, and the SELECT of recover_orphaned_actions: read without a lock.
ReadAction(r, verdict) ==
  /\ resolving = None
  /\ action[r].state # "ABSENT"
  /\ Allowed(action[r].state, verdict)
  /\ resolving' = [rev |-> r, verdict |-> verdict, seen |-> action[r].state]
  /\ UNCHANGED <<orderVars, projectVars, approvals, sendVars, pending, worldVars>>

\* retry_action (with the risk acknowledged), confirm_action_receipt, cancel_action and
\* mark_action_unknown: the transition is judged on what was read.
ResolveAction ==
  /\ resolving # None
  /\ sending # resolving.rev
  /\ Allowed(resolving.seen, resolving.verdict)
  /\ SetAction(resolving.rev, Resolved(resolving.verdict))
  /\ acks' = IF resolving.verdict = "retry" THEN [acks EXCEPT ![resolving.rev] = @ + 1] ELSE acks
  /\ resolving' = None
  /\ UNCHANGED <<orderVars, projectVars, approvals, job, picked, sending, pending, mail, lapses,
                 crashes>>

\* retry_failed_job. (A job without tries left is DurableJobs' poisoned row: it never runs.)
RetryJob(r) ==
  /\ job[r].state = "FAILED" /\ job[r].tries < MaxAttempts
  /\ job' = [job EXCEPT ![r].state = "RUNNABLE"]
  /\ UNCHANGED <<orderVars, projectVars, approvals, action, picked, sending, pending, resolving,
                 worldVars>>

\* Another order of the project is accepted and amends its scope.
AmendElsewhere ==
  /\ amendments < MaxAmendments
  /\ scope' = scope + 1 /\ amendments' = amendments + 1
  /\ UNCHANGED <<orderVars, approvals, sendVars, pending, resolving, worldVars>>

-----------------------------------------------------------------------------

SendEnds(r) == \/ SendSucceeds(r) \/ SendIsUncertain(r) \/ SendIsThrottled(r)
               \/ SendIsRejected(r) \/ ResendTimesOut(r) \/ ReauthRequired(r) \/ CrashSend(r)

Next ==
  \/ CreateRevision \/ ApproveFreelancer \/ Withdraw \/ DisconnectGmail
  \/ \E target \in {"REJECTED_BY_FREELANCER", "WITHDRAWN"} : FreelancerDecide(target)
  \/ \E q \in Requests : \/ OpenRequest(q) \/ RefuseRequest(q) \/ AcceptClient(q)
                         \/ \E d \in Decisions \ {"APPROVED"} : ClientDecide(q, d)
  \/ \E r \in Revisions : \/ PickSend(r) \/ StartSend(r) \/ RefuseSend(r) \/ SendEnds(r)
                          \/ CrashJob(r) \/ RetryJob(r)
  \/ \E r \in Revisions, verdict \in Verdicts : ReadAction(r, verdict)
  \/ ResolveAction \/ AmendElsewhere

Spec == Init /\ [][Next]_vars

-----------------------------------------------------------------------------
(* Properties *)

\* While a message is on its way to Gmail the order waits for it and its job stays open: nobody
\* withdraws, revises, accepts or decides under an open send. (The action may have been
\* cancelled before it: StartSend goes by what the job had read.)
OpenSendIsPending ==
  sending # None => order.status = "SEND_PENDING" /\ job[sending].state = "RUNNABLE"

\* However requests, revisions and amendments of other orders interleave, of the revisions
\* written against one scope version one is accepted at most, and every acceptance moves the
\* scope past it: the baseline check under the project's lock is what decides, since the
\* order's own checks are made on a stale read. (An order may still be accepted twice: a
\* stale rejection reopens it, and its next revision has a new baseline.)
Accepted == {r \in Revisions : <<r, "APPROVED">> \in approvals}
OneAcceptancePerBaseline ==
  \A r \in Accepted : /\ baseline[r] < scope
                       /\ \A s \in Accepted \ {r} : baseline[s] # baseline[r]

\* Every message beyond the first is accounted for: by an operator who accepted the risk, or
\* by a call whose outcome was lost without a trace (a crash, or the second POST after a 401).
\* No other path of the program sends a revision twice.
MailIsAccountedFor == \A r \in Revisions : mail[r] <= 1 + acks[r] + lapses[r]

\* The client is asked for a decision only once Gmail has taken a message of the order.
\* TDD.md section 32: the order moves to AWAITING_CLIENT_APPROVAL "on confirmed provider
\* acceptance".
AwaitedClientHasMail ==
  order.status = "AWAITING_CLIENT_APPROVAL" => \E r \in Revisions : mail[r] > 0

\* No message is sent twice unless the operator accepted the risk. TDD.md section 32: "If
\* unresolved after bounded reconciliation, require review and do not automatically resend."
NoUnacknowledgedDuplicate == \A r \in Revisions : mail[r] <= 1 + acks[r]

\* What is sent is the revision that was approved last. TDD.md section 47: "Editing an
\* unaccepted order creates a new immutable revision. It cancels unstarted actions".
SendsAreCurrent == sending # None => sending = order.current

\* A receipt, once confirmed, stays: no resolution regresses it. ACTION_TRANSITIONS
\* (workers/durable.py:69) lets no transition leave RECEIPT_CONFIRMED, and TDD.md section 47
\* says "Late observations update facts monotonically and do not regress a terminal business
\* state."
ReceiptIsFinal ==
  [][\A r \in Revisions :
       action[r].state = "RECEIPT_CONFIRMED" => action'[r].state = "RECEIPT_CONFIRMED"]_vars

\* A withdrawn order can no longer be accepted. TDD.md section 47: "withdrawal revokes
\* acceptance immediately".
WithdrawnStaysWithdrawn == [][order.status = "WITHDRAWN" => order'.status = "WITHDRAWN"]_vars
=============================================================================

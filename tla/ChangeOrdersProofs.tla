------------------------- MODULE ChangeOrdersProofs -------------------------
(***************************************************************************)
(* Safety of ChangeOrders for every number of revisions, client requests,  *)
(* attempts, crashes and amendments.                                       *)
(*                                                                         *)
(* The invariants the runs check are not inductive: that a message is      *)
(* accounted for rests on what the open job of the revision had read of    *)
(* its action, that a job may be tried again on the tries it has used, and *)
(* that acceptances have distinct baselines on the revisions that exist.   *)
(* IInv adds these facts; each part is shown preserved by itself.          *)
(***************************************************************************)
EXTENDS ChangeOrders, TLAPS

\* A job that runs, or may run, is within its tries; so is the action of an open send.
JobsAreBudgeted ==
  /\ \A r \in Revisions :
       /\ job[r].state = "ABSENT" => job[r].tries = 0
       /\ job[r].state = "RUNNABLE" /\ picked[r] = None => job[r].tries < MaxAttempts
       /\ picked[r] # None => job[r].state = "RUNNABLE"
  /\ sending # None => /\ picked[sending] \in {"READY", "RETRY_WAIT"}
                       /\ action[sending].attempts < MaxAttempts

\* Actions and jobs belong to revisions that have been approved.
ActionsAreApproved ==
  /\ \A r \in Revisions :
       /\ action[r].state # "ABSENT" =>
            /\ r <= order.current
            /\ order.status = "AWAITING_FREELANCER_APPROVAL" => r # order.current
       /\ job[r].state # "ABSENT" => action[r].state # "ABSENT"
  /\ resolving # None => action[resolving.rev].state # "ABSENT"

\* A revision that may be sent has no message that is not acknowledged or lost already.
Sendable(r) == action[r].state \in {"ABSENT", "READY", "RETRY_WAIT"}
               \/ picked[r] \in {"READY", "RETRY_WAIT"}
SendableMailIsExcused == \A r \in Revisions : Sendable(r) => mail[r] <= acks[r] + lapses[r]

\* Only a written revision is offered, read by a client or accepted, and its baseline is a
\* scope version of the past.
OffersAreWritten ==
  /\ \A r \in Revisions : /\ baseline[r] <= scope
                          /\ "activated" \in grant[r] => Written(r)
                          /\ r \in Accepted => Written(r)
  /\ \A q \in Requests : pending[q] # None => Written(pending[q].rev)

IInv ==
  /\ TypeOK
  /\ JobsAreBudgeted
  /\ ActionsAreApproved
  /\ OpenSendIsPending
  /\ SendableMailIsExcused
  /\ MailIsAccountedFor
  /\ AwaitedClientHasMail
  /\ OffersAreWritten
  /\ OneAcceptancePerBaseline

-----------------------------------------------------------------------------
(* Types *)

\* Moves of the order stay within its type and keep its revision.
LEMMA MoveOrderType ==
  ASSUME TypeOK, NEW s \in Statuses, MoveOrder(s)
  PROVE  /\ order' \in [status : Statuses, current : Revisions]
         /\ order'.status = s /\ order'.current = order.current
BY DEF TypeOK, MoveOrder

\* _transition_action writes one state and no attempt.
LEMMA SetActionType ==
  ASSUME TypeOK, NEW r \in Revisions, NEW s \in ActionStates, SetAction(r, s)
  PROVE  /\ action' \in [Revisions -> [state : ActionStates, attempts : 0..MaxAttempts]]
         /\ action'[r].state = s /\ action'[r].attempts = action[r].attempts
         /\ \A t \in Revisions \ {r} : action'[t] = action[t]
BY DEF TypeOK, SetAction

\* Revocation adds marks and never activates.
LEMMA RevokedType ==
  ASSUME NEW g \in [Revisions -> SUBSET {"activated", "consumed", "revoked"}],
         NEW marks \in SUBSET {"consumed", "revoked"}
  PROVE  /\ Revoked(g, marks) \in [Revisions -> SUBSET {"activated", "consumed", "revoked"}]
         /\ \A r \in Revisions : "activated" \in Revoked(g, marks)[r] <=> "activated" \in g[r]
BY DEF Revoked

\* What the end of a send does, whatever its outcome.
LEMMA CommitSendType ==
  ASSUME TypeOK, JobsAreBudgeted, NEW r \in Revisions, sending = r,
         NEW s \in ActionStates, NEW t \in {"RUNNABLE", "SUCCEEDED", "FAILED"},
         CommitSend(r, s, t)
  PROVE  /\ action' \in [Revisions -> [state : ActionStates, attempts : 0..MaxAttempts]]
         /\ job' \in [Revisions -> [state : {"ABSENT", "RUNNABLE", "SUCCEEDED", "FAILED"},
                                    tries : 0..MaxAttempts]]
         /\ picked' \in [Revisions -> ActionStates \cup {None}]
         /\ sending' = None
         /\ action'[r].state = s /\ job'[r].state = t /\ picked'[r] = None
         /\ job'[r].tries = job[r].tries
         /\ \A u \in Revisions \ {r} : /\ action'[u] = action[u] /\ job'[u] = job[u]
                                       /\ picked'[u] = picked[u]
<1>1. sending # None
  BY NoneAssumption DEF Revisions
<1>2. action[r].attempts + 1 \in 0..MaxAttempts
  BY <1>1, BoundsAssumption DEF TypeOK, JobsAreBudgeted
<1>3. action'[r] = [state |-> s, attempts |-> action[r].attempts + 1]
  BY DEF CommitSend, TypeOK
<1> QED
  BY <1>2, <1>3 DEF CommitSend, TypeOK

\* ... and what the end of a job does that leaves its action alone.
LEMMA EndJobType ==
  ASSUME TypeOK, NEW r \in Revisions, NEW t \in {"RUNNABLE", "SUCCEEDED", "FAILED"},
         EndJob(r, t)
  PROVE  /\ job' \in [Revisions -> [state : {"ABSENT", "RUNNABLE", "SUCCEEDED", "FAILED"},
                                    tries : 0..MaxAttempts]]
         /\ picked' \in [Revisions -> ActionStates \cup {None}]
         /\ job'[r].state = t /\ job'[r].tries = job[r].tries /\ picked'[r] = None
         /\ \A u \in Revisions \ {r} : job'[u] = job[u] /\ picked'[u] = picked[u]
BY DEF EndJob, TypeOK

\* fail_job reopens a job only while it has tries left.
LEMMA RetriedType ==
  ASSUME NEW r \in Revisions
  PROVE  /\ Retried(r) \in {"RUNNABLE", "SUCCEEDED", "FAILED"}
         /\ Retried(r) = "RUNNABLE" => job[r].tries < MaxAttempts
BY DEF Retried

\* A lost answer adds at most one message.
LEMMA MailType ==
  ASSUME TypeOK, NEW r \in Revisions, MaybeDelivered(r)
  PROVE  /\ mail' \in [Revisions -> Nat]
         /\ mail'[r] \in {mail[r], mail[r] + 1}
         /\ \A u \in Revisions \ {r} : mail'[u] = mail[u]
BY DEF TypeOK, MaybeDelivered, Delivered

\* Every action keeps the types. The bounds on tries and attempts are the parts that need more.
LEMMA TypeStep ==
  ASSUME TypeOK, JobsAreBudgeted, [Next]_vars
  PROVE  TypeOK'
<1> USE BoundsAssumption
<1>1. CASE CreateRevision
  <2>1. order' \in [status : Statuses, current : Revisions]
    BY <1>1 DEF CreateRevision, Revise, TypeOK, Revisions, Statuses
  <2>2. grant' \in [Revisions -> SUBSET {"activated", "consumed", "revoked"}]
    BY <1>1, RevokedType DEF CreateRevision, Revise, TypeOK
  <2> QED
    BY <1>1, <2>1, <2>2
    DEF CreateRevision, Revise, TypeOK, projectVars, sendVars, worldVars
<1>2. CASE ApproveFreelancer
  <2>1. order.current \in Revisions /\ "SEND_PENDING" \in Statuses /\ "READY" \in ActionStates
    BY DEF TypeOK, Statuses, ActionStates
  <2>2. /\ order' \in [status : Statuses, current : Revisions]
        /\ action' \in [Revisions -> [state : ActionStates, attempts : 0..MaxAttempts]]
    BY <1>2, <2>1, MoveOrderType, SetActionType DEF ApproveFreelancer
  <2>3. /\ grant' \in [Revisions -> SUBSET {"activated", "consumed", "revoked"}]
        /\ job' \in [Revisions -> [state : {"ABSENT", "RUNNABLE", "SUCCEEDED", "FAILED"},
                                   tries : 0..MaxAttempts]]
    BY <1>2, <2>1 DEF ApproveFreelancer, TypeOK
  <2> QED
    BY <1>2, <2>2, <2>3 DEF ApproveFreelancer, TypeOK, projectVars, worldVars
<1>3. ASSUME NEW target \in {"REJECTED_BY_FREELANCER", "WITHDRAWN"}, FreelancerDecide(target)
      PROVE  TypeOK'
  <2>1. target \in Statuses
    BY DEF Statuses
  <2> QED
    BY <1>3, <2>1, MoveOrderType, RevokedType
    DEF FreelancerDecide, TypeOK, projectVars, sendVars, worldVars
<1>4. CASE Withdraw
  <2>1. "WITHDRAWN" \in Statuses /\ "CANCELLED" \in ActionStates
    BY DEF Statuses, ActionStates
  <2>2. action' \in [Revisions -> [state : ActionStates, attempts : 0..MaxAttempts]]
    <3>1. \A r \in Revisions : [action[r] EXCEPT !.state = "CANCELLED"]
                              \in [state : ActionStates, attempts : 0..MaxAttempts]
      BY <2>1 DEF TypeOK
    <3> QED
      BY <1>4, <3>1 DEF Withdraw, TypeOK
  <2> QED
    BY <1>4, <2>1, <2>2, MoveOrderType, RevokedType
    DEF Withdraw, TypeOK, projectVars, worldVars
<1>5. CASE DisconnectGmail
  <2>1. "CANCELLED" \in ActionStates
    BY DEF ActionStates
  <2>2. action' \in [Revisions -> [state : ActionStates, attempts : 0..MaxAttempts]]
    <3>1. \A r \in Revisions : [action[r] EXCEPT !.state = "CANCELLED"]
                              \in [state : ActionStates, attempts : 0..MaxAttempts]
      BY <2>1 DEF TypeOK
    <3> QED
      BY <1>5, <3>1 DEF DisconnectGmail, TypeOK
  <2> QED
    BY <1>5, <2>2 DEF DisconnectGmail, TypeOK, orderVars, projectVars, worldVars
<1>6. ASSUME NEW q \in Requests, OpenRequest(q) \/ RefuseRequest(q)
      PROVE  TypeOK'
  <2>1. PICK p \in [rev : Revisions, status : Statuses] \cup {None} :
          pending' = [pending EXCEPT ![q] = p]
    <3>1. CASE OpenRequest(q)
      <4>1. PICK r \in Revisions :
              pending' = [pending EXCEPT ![q] = [rev |-> r, status |-> order.status]]
        BY <3>1 DEF OpenRequest
      <4>2. [rev |-> r, status |-> order.status] \in [rev : Revisions, status : Statuses]
        BY DEF TypeOK
      <4> QED
        BY <4>1, <4>2
    <3>2. CASE RefuseRequest(q)
      BY <3>2 DEF RefuseRequest
    <3> QED
      BY <1>6, <3>1, <3>2
  <2>2. UNCHANGED <<orderVars, projectVars, approvals, sendVars, resolving, worldVars>>
    BY <1>6 DEF OpenRequest, RefuseRequest
  <2> QED
    BY <2>1, <2>2 DEF TypeOK, orderVars, projectVars, sendVars, worldVars
<1>7. ASSUME NEW q \in Requests, AcceptClient(q)
      PROVE  TypeOK'
  <2> DEFINE r == pending[q].rev
  <2>1. r \in Revisions /\ "CLIENT_APPROVED" \in Statuses /\ "RECEIPT_CONFIRMED" \in ActionStates
    BY <1>7 DEF AcceptClient, TypeOK, Statuses, ActionStates
  <2>2. action' \in [Revisions -> [state : ActionStates, attempts : 0..MaxAttempts]]
    BY <1>7, <2>1, SetActionType DEF AcceptClient, AcceptOffer, TypeOK
  <2>3. approvals' \subseteq Revisions \X Decisions
    BY <1>7, <2>1 DEF AcceptClient, AcceptOffer, TypeOK, Decisions
  <2>4. grant' \in [Revisions -> SUBSET {"activated", "consumed", "revoked"}]
    BY <1>7, <2>1 DEF AcceptClient, AcceptOffer, TypeOK
  <2> QED
    BY <1>7, <2>1, <2>2, <2>3, <2>4, MoveOrderType
    DEF AcceptClient, AcceptOffer, TypeOK, worldVars
<1>8. ASSUME NEW q \in Requests, NEW d \in Decisions \ {"APPROVED"}, ClientDecide(q, d)
      PROVE  TypeOK'
  <2> DEFINE r == pending[q].rev
             g == [grant EXCEPT ![r] = @ \cup {"consumed"}]
  <2>1. r \in Revisions /\ {"REJECTED_BY_CLIENT", "REVISION_REQUESTED"} \subseteq Statuses
    BY <1>8 DEF ClientDecide, TypeOK, Statuses
  <2>2. order' \in [status : Statuses, current : Revisions]
    BY <1>8, <2>1, MoveOrderType DEF ClientDecide
  <2>3. approvals' \subseteq Revisions \X Decisions
    BY <1>8, <2>1 DEF ClientDecide, TypeOK, Decisions
  <2>4. g \in [Revisions -> SUBSET {"activated", "consumed", "revoked"}]
    BY <2>1 DEF TypeOK
  <2>5. grant' \in [Revisions -> SUBSET {"activated", "consumed", "revoked"}]
    BY <1>8, <2>4, RevokedType DEF ClientDecide
  <2> QED
    BY <1>8, <2>2, <2>3, <2>5 DEF ClientDecide, TypeOK, projectVars, sendVars, worldVars
<1>9. ASSUME NEW r \in Revisions, PickSend(r)
      PROVE  TypeOK'
  <2>1. job[r].tries + 1 \in 0..MaxAttempts
    BY <1>9 DEF PickSend, TypeOK, JobsAreBudgeted
  <2>2. job' \in [Revisions -> [state : {"ABSENT", "RUNNABLE", "SUCCEEDED", "FAILED"},
                                tries : 0..MaxAttempts]]
    BY <1>9, <2>1 DEF PickSend, TypeOK
  <2> QED
    BY <1>9, <2>2 DEF PickSend, TypeOK, orderVars, projectVars, worldVars
<1>10. ASSUME NEW r \in Revisions, StartSend(r)
       PROVE  TypeOK'
  BY <1>10 DEF StartSend, TypeOK, orderVars, projectVars, worldVars
<1>11. ASSUME NEW r \in Revisions, RefuseSend(r) \/ CrashJob(r) \/ CrashSend(r)
       PROVE  TypeOK'
  <2>1. PICK t \in {"RUNNABLE", "SUCCEEDED", "FAILED"} : EndJob(r, t)
    BY <1>11, RetriedType DEF RefuseSend, CrashJob, CrashSend
  <2>2. mail' \in [Revisions -> Nat] /\ lapses' \in [Revisions -> Nat] /\ acks' = acks
    <3>1. CASE CrashSend(r)
      BY <3>1, MailType DEF CrashSend, EndJob, TypeOK
    <3>2. CASE RefuseSend(r) \/ CrashJob(r)
      BY <3>2 DEF RefuseSend, CrashJob, EndJob, TypeOK
    <3> QED
      BY <1>11, <3>1, <3>2
  <2>3. crashes' \in 0..MaxCrashes /\ sending' \in Revisions \cup {None}
    BY <1>11 DEF RefuseSend, CrashJob, CrashSend, TypeOK
  <2> QED
    BY <2>1, <2>2, <2>3, EndJobType DEF EndJob, TypeOK, orderVars, projectVars
<1>12. ASSUME NEW r \in Revisions, SendEnds(r), ~ CrashSend(r)
       PROVE  TypeOK'
  <2>1. PICK s \in ActionStates, t \in {"RUNNABLE", "SUCCEEDED", "FAILED"} : CommitSend(r, s, t)
    BY <1>12, RetriedType
    DEF SendEnds, SendSucceeds, SendIsUncertain, SendIsThrottled, SendIsRejected,
        ResendTimesOut, ReauthRequired, ActionStates
  <2>2. sending = r
    BY <1>12 DEF SendEnds, SendSucceeds, SendIsUncertain, SendIsThrottled, SendIsRejected,
                 ResendTimesOut, ReauthRequired
  <2>3. order' \in [status : Statuses, current : Revisions]
    BY <1>12, MoveOrderType
    DEF SendEnds, SendSucceeds, SendIsUncertain, SendIsThrottled, SendIsRejected,
        ResendTimesOut, ReauthRequired, TypeOK, Statuses
  <2>4. /\ mail' \in [Revisions -> Nat] /\ lapses' \in [Revisions -> Nat]
        /\ acks' = acks /\ crashes' = crashes
    BY <1>12, MailType
    DEF SendEnds, SendSucceeds, SendIsUncertain, SendIsThrottled, SendIsRejected,
        ResendTimesOut, ReauthRequired, TypeOK, MaybeDelivered, worldVars
  <2> QED
    BY <2>1, <2>2, <2>3, <2>4, CommitSendType DEF CommitSend, TypeOK, projectVars
<1>13. ASSUME NEW r \in Revisions, RetryJob(r)
       PROVE  TypeOK'
  BY <1>13 DEF RetryJob, TypeOK, orderVars, projectVars, worldVars
<1>14. ASSUME NEW r \in Revisions, NEW verdict \in Verdicts, ReadAction(r, verdict)
       PROVE  TypeOK'
  BY <1>14 DEF ReadAction, TypeOK, orderVars, projectVars, sendVars, worldVars
<1>15. CASE ResolveAction
  <2>1. resolving.rev \in Revisions /\ resolving.verdict \in Verdicts
    BY <1>15 DEF ResolveAction, TypeOK
  <2>2. Resolved(resolving.verdict) \in ActionStates
    BY <2>1 DEF Resolved, Verdicts, ActionStates
  <2> QED
    BY <1>15, <2>1, <2>2, SetActionType DEF ResolveAction, TypeOK, orderVars, projectVars
<1>16. CASE AmendElsewhere
  BY <1>16 DEF AmendElsewhere, TypeOK, orderVars, sendVars, worldVars
<1>17. CASE UNCHANGED vars
  BY <1>17 DEF TypeOK, vars
<1> QED
  BY <1>1, <1>2, <1>3, <1>4, <1>5, <1>6, <1>7, <1>8, <1>9, <1>10, <1>11, <1>12, <1>13, <1>14,
     <1>15, <1>16, <1>17
  DEF Next, SendEnds

-----------------------------------------------------------------------------
(* Jobs and actions *)

\* The actions that do not touch the sends.
LEMMA QuietSteps ==
  /\ CreateRevision => UNCHANGED sendVars
  /\ \A target : FreelancerDecide(target) => UNCHANGED sendVars
  /\ \A q : OpenRequest(q) \/ RefuseRequest(q) => UNCHANGED sendVars
  /\ \A q, d : ClientDecide(q, d) => UNCHANGED sendVars
  /\ \A r, verdict : ReadAction(r, verdict) => UNCHANGED sendVars
  /\ AmendElsewhere => UNCHANGED sendVars
  /\ UNCHANGED vars => UNCHANGED sendVars
<1>1. CreateRevision => UNCHANGED sendVars
  BY DEF CreateRevision, Revise
<1>2. \A target : FreelancerDecide(target) => UNCHANGED sendVars
  BY DEF FreelancerDecide
<1>3. \A q : OpenRequest(q) \/ RefuseRequest(q) => UNCHANGED sendVars
  BY DEF OpenRequest, RefuseRequest
<1>4. \A q, d : ClientDecide(q, d) => UNCHANGED sendVars
  BY DEF ClientDecide
<1>5. \A r, verdict : ReadAction(r, verdict) => UNCHANGED sendVars
  BY DEF ReadAction
<1>6. AmendElsewhere => UNCHANGED sendVars
  BY DEF AmendElsewhere
<1>7. UNCHANGED vars => UNCHANGED sendVars
  BY DEF vars, sendVars
<1> QED
  BY <1>1, <1>2, <1>3, <1>4, <1>5, <1>6, <1>7

\* The tries of the jobs and the attempts of an open send.
LEMMA BudgetStep ==
  ASSUME TypeOK, JobsAreBudgeted, ActionsAreApproved, [Next]_vars
  PROVE  JobsAreBudgeted'
<1> USE BoundsAssumption, NoneAssumption
<1>1. CASE UNCHANGED sendVars
  BY <1>1 DEF JobsAreBudgeted, sendVars
<1>2. CASE ApproveFreelancer
  <2> DEFINE r == order.current
  <2>1. r \in Revisions /\ action[r].state = "ABSENT" /\ job[r].state = "ABSENT"
    BY <1>2 DEF ApproveFreelancer, ActionsAreApproved, TypeOK
  <2>2. /\ job'[r].state = "RUNNABLE" /\ job'[r].tries = 0
        /\ \A u \in Revisions \ {r} : job'[u] = job[u]
    BY <1>2, <2>1 DEF ApproveFreelancer, TypeOK, JobsAreBudgeted
  <2>3. UNCHANGED <<picked, sending>> /\ sending = None
    BY <1>2 DEF ApproveFreelancer, OrderIsFree
  <2> QED
    BY <2>1, <2>2, <2>3 DEF JobsAreBudgeted
<1>3. CASE UNCHANGED <<job, picked, sending>> /\ sending = None
  BY <1>3 DEF JobsAreBudgeted
<1>4. ASSUME NEW r \in Revisions, PickSend(r)
      PROVE  JobsAreBudgeted'
  <2>1. /\ job'[r].state = "RUNNABLE" /\ picked'[r] = action[r].state
        /\ \A u \in Revisions \ {r} : job'[u] = job[u] /\ picked'[u] = picked[u]
        /\ UNCHANGED <<sending, action>>
    BY <1>4 DEF PickSend, TypeOK
  <2>2. picked'[r] # None
    BY <2>1 DEF TypeOK, ActionStates
  <2>3. sending # r
    BY <1>4 DEF PickSend, JobsAreBudgeted, Revisions, ActionStates
  <2> QED
    BY <2>1, <2>2, <2>3 DEF JobsAreBudgeted, TypeOK
<1>5. ASSUME NEW r \in Revisions, StartSend(r)
      PROVE  JobsAreBudgeted'
  BY <1>5 DEF StartSend, JobsAreBudgeted, ActionStates
<1>6. ASSUME NEW r \in Revisions, RefuseSend(r) \/ CrashJob(r) \/ CrashSend(r)
      PROVE  JobsAreBudgeted'
  <2>1. PICK t \in {"RUNNABLE", "SUCCEEDED", "FAILED"} :
          EndJob(r, t) /\ (t = "RUNNABLE" => job[r].tries < MaxAttempts)
    BY <1>6, RetriedType DEF RefuseSend, CrashJob, CrashSend
  <2>2. sending' = None \/ (sending' = sending /\ sending # r)
    <3>1. CASE RefuseSend(r)
      BY <3>1 DEF RefuseSend
    <3>2. CASE CrashJob(r)
      BY <3>2 DEF CrashJob
    <3>3. CASE CrashSend(r)
      BY <3>3 DEF CrashSend
    <3> QED
      BY <1>6, <3>1, <3>2, <3>3
  <2>3. UNCHANGED action
    BY <2>1 DEF EndJob
  <2> QED
    BY <2>1, <2>2, <2>3, EndJobType DEF JobsAreBudgeted, TypeOK
<1>7. ASSUME NEW r \in Revisions, SendEnds(r), ~ CrashSend(r)
      PROVE  JobsAreBudgeted'
  <2>1. PICK s \in ActionStates, t \in {"RUNNABLE", "SUCCEEDED", "FAILED"} :
          CommitSend(r, s, t) /\ (t = "RUNNABLE" => job[r].tries < MaxAttempts)
    BY <1>7, RetriedType
    DEF SendEnds, SendSucceeds, SendIsUncertain, SendIsThrottled, SendIsRejected,
        ResendTimesOut, ReauthRequired, ActionStates
  <2>2. sending = r
    BY <1>7 DEF SendEnds, SendSucceeds, SendIsUncertain, SendIsThrottled, SendIsRejected,
                ResendTimesOut, ReauthRequired
  <2> QED
    BY <2>1, <2>2, CommitSendType DEF JobsAreBudgeted
<1>8. ASSUME NEW r \in Revisions, RetryJob(r)
      PROVE  JobsAreBudgeted'
  <2>1. /\ job'[r].state = "RUNNABLE" /\ job'[r].tries = job[r].tries
        /\ \A u \in Revisions \ {r} : job'[u] = job[u]
        /\ UNCHANGED <<picked, sending, action>>
    BY <1>8 DEF RetryJob, TypeOK
  <2> QED
    BY <1>8, <2>1 DEF RetryJob, JobsAreBudgeted
<1>9. CASE ResolveAction
  <2>1. resolving.rev \in Revisions /\ Resolved(resolving.verdict) \in ActionStates
    BY <1>9 DEF ResolveAction, TypeOK, Verdicts, Resolved, ActionStates
  <2>2. \A u \in Revisions : action'[u].attempts = action[u].attempts
    BY <1>9, <2>1, SetActionType DEF ResolveAction
  <2>3. UNCHANGED <<job, picked, sending>>
    BY <1>9 DEF ResolveAction
  <2> QED
    BY <2>2, <2>3 DEF JobsAreBudgeted, TypeOK
<1>10. /\ Withdraw \/ DisconnectGmail => UNCHANGED <<job, picked, sending>> /\ sending = None
       /\ \A q \in Requests :
            AcceptClient(q) => UNCHANGED <<job, picked, sending>> /\ sending = None
  BY DEF Withdraw, DisconnectGmail, AcceptClient, AcceptOffer, OrderIsFree
<1> QED
  BY <1>1, <1>2, <1>3, <1>4, <1>5, <1>6, <1>7, <1>8, <1>9, <1>10, QuietSteps
  DEF Next, SendEnds

\* What the end of a send does to its order, and to the mail.
LEMMA SendEndsOrder ==
  ASSUME TypeOK, NEW r \in Revisions, SendEnds(r)
  PROVE  /\ sending = r /\ sending' = None
         /\ order'.current = order.current
         /\ \/ order' = order
            \/ order'.status = "AWAITING_CLIENT_APPROVAL" /\ mail'[r] > 0
         /\ mail' \in [Revisions -> Nat] /\ mail'[r] \in {mail[r], mail[r] + 1}
         /\ \A u \in Revisions \ {r} : mail'[u] = mail[u]
         /\ acks' = acks
<1>1. CASE SendSucceeds(r)
  <2>1. /\ mail' = [mail EXCEPT ![r] = @ + 1]
        /\ acks' = acks /\ sending = r /\ sending' = None
    BY <1>1 DEF SendSucceeds, Delivered, CommitSend
  <2>2. /\ order'.current = order.current
        /\ order' = order \/ order'.status = "AWAITING_CLIENT_APPROVAL"
    BY <1>1 DEF SendSucceeds, MoveOrder, TypeOK
  <2> QED
    BY <2>1, <2>2 DEF TypeOK
<1>2. CASE SendIsUncertain(r) \/ ResendTimesOut(r)
  BY <1>2, MailType DEF SendIsUncertain, ResendTimesOut, CommitSend
<1>3. CASE SendIsThrottled(r) \/ SendIsRejected(r) \/ ReauthRequired(r)
  BY <1>3 DEF SendIsThrottled, SendIsRejected, ReauthRequired, CommitSend, TypeOK, worldVars
<1>4. CASE CrashSend(r)
  BY <1>4, MailType DEF CrashSend, EndJob, orderVars
<1> QED
  BY <1>1, <1>2, <1>3, <1>4 DEF SendEnds

\* Actions, jobs and resolutions belong to approved revisions.
LEMMA ApprovedStep ==
  ASSUME TypeOK, TypeOK', JobsAreBudgeted, ActionsAreApproved, OpenSendIsPending, [Next]_vars
  PROVE  ActionsAreApproved'
<1>1. CASE CreateRevision
  <2>1. order'.current = order.current + 1 /\ UNCHANGED <<action, job, resolving>>
    BY <1>1 DEF CreateRevision, Revise, sendVars
  <2>2. \A r \in Revisions : r <= order.current
                             => r <= order.current + 1 /\ r # order.current + 1
    <3>1. order.current \in Revisions /\ Revisions \subseteq Int
      BY DEF TypeOK, Revisions
    <3>2. \A a, b \in Int : a <= b => a <= b + 1 /\ a # b + 1
      OBVIOUS
    <3>3. order.current \in Int /\ \A r \in Revisions : r \in Int
      BY <3>1
    <3> QED
      BY <3>2, <3>3
  <2> QED
    BY <2>1, <2>2 DEF ActionsAreApproved
<1>2. CASE ApproveFreelancer
  <2> DEFINE r == order.current
  <2>1. r \in Revisions /\ "SEND_PENDING" \in Statuses /\ "READY" \in ActionStates
    BY DEF TypeOK, Statuses, ActionStates
  <2>2. /\ order'.current = r /\ order'.status = "SEND_PENDING"
        /\ action'[r].state = "READY" /\ UNCHANGED resolving
        /\ \A u \in Revisions \ {r} : action'[u] = action[u] /\ job'[u] = job[u]
    BY <1>2, <2>1, MoveOrderType, SetActionType DEF ApproveFreelancer, TypeOK
  <2>3. r <= r
    BY <2>1, BoundsAssumption DEF Revisions
  <2>4. \A u \in Revisions : action'[u].state # "ABSENT" => u <= r
    BY <2>1, <2>2, <2>3 DEF ActionsAreApproved
  <2>5. \A u \in Revisions : job'[u].state # "ABSENT" => action'[u].state # "ABSENT"
    BY <2>2 DEF ActionsAreApproved
  <2>6. resolving' # None => action'[resolving'.rev].state # "ABSENT"
    BY <2>2 DEF ActionsAreApproved, TypeOK
  <2> QED
    BY <2>2, <2>4, <2>5, <2>6 DEF ActionsAreApproved
<1>3. ASSUME UNCHANGED <<order, action, job, resolving>>
      PROVE  ActionsAreApproved'
  BY <1>3 DEF ActionsAreApproved
<1>4. ASSUME order'.current = order.current, UNCHANGED resolving,
             order'.status # "AWAITING_FREELANCER_APPROVAL",
             \A r \in Revisions : /\ action'[r].state # "ABSENT" <=> action[r].state # "ABSENT"
                                  /\ job'[r].state # "ABSENT" => action[r].state # "ABSENT"
      PROVE  ActionsAreApproved'
  BY <1>4 DEF ActionsAreApproved, TypeOK
<1>5. ASSUME NEW target \in {"REJECTED_BY_FREELANCER", "WITHDRAWN"}, FreelancerDecide(target)
      PROVE  ActionsAreApproved'
  <2>1. target \in Statuses
    BY DEF Statuses
  <2> QED
    BY <1>4, <1>5, <2>1, MoveOrderType DEF FreelancerDecide, sendVars, ActionsAreApproved
<1>6. CASE Withdraw
  <2>1. "WITHDRAWN" \in Statuses
    BY DEF Statuses
  <2>2. \A r \in Revisions : action'[r].state # "ABSENT" <=> action[r].state # "ABSENT"
    BY <1>6 DEF Withdraw, TypeOK
  <2> QED
    BY <1>4, <1>6, <2>1, <2>2, MoveOrderType DEF Withdraw, ActionsAreApproved
<1>7. CASE DisconnectGmail
  <2>1. \A r \in Revisions : action'[r].state # "ABSENT" <=> action[r].state # "ABSENT"
    BY <1>7 DEF DisconnectGmail, TypeOK
  <2> QED
    BY <1>7, <2>1 DEF DisconnectGmail, orderVars, ActionsAreApproved, TypeOK
<1>8. ASSUME NEW q \in Requests, AcceptClient(q)
      PROVE  ActionsAreApproved'
  <2>1. /\ pending[q].rev \in Revisions /\ "CLIENT_APPROVED" \in Statuses
        /\ "RECEIPT_CONFIRMED" \in ActionStates
    BY <1>8 DEF AcceptClient, TypeOK, Statuses, ActionStates
  <2>2. \A r \in Revisions : action'[r].state # "ABSENT" <=> action[r].state # "ABSENT"
    BY <1>8, <2>1, SetActionType DEF AcceptClient, AcceptOffer
  <2> QED
    BY <1>4, <1>8, <2>1, <2>2, MoveOrderType DEF AcceptClient, AcceptOffer, ActionsAreApproved
<1>9. ASSUME NEW q \in Requests, NEW d \in Decisions \ {"APPROVED"}, ClientDecide(q, d)
      PROVE  ActionsAreApproved'
  <2>1. {"REJECTED_BY_CLIENT", "REVISION_REQUESTED"} \subseteq Statuses
    BY DEF Statuses
  <2> QED
    BY <1>4, <1>9, <2>1, MoveOrderType DEF ClientDecide, sendVars, ActionsAreApproved
<1>10. ASSUME NEW r \in Revisions, RefuseSend(r) \/ CrashJob(r)
       PROVE  ActionsAreApproved'
  <2>1. PICK t \in {"RUNNABLE", "SUCCEEDED", "FAILED"} : EndJob(r, t)
    BY <1>10, RetriedType DEF RefuseSend, CrashJob
  <2>2. job[r].state = "RUNNABLE"
    BY <1>10 DEF RefuseSend, CrashJob, JobsAreBudgeted
  <2> QED
    BY <2>1, <2>2, EndJobType DEF EndJob, orderVars, ActionsAreApproved, TypeOK
<1>11. ASSUME NEW r \in Revisions, CrashSend(r)
       PROVE  ActionsAreApproved'
  <2>1. job[r].state = "RUNNABLE" /\ EndJob(r, Retried(r))
    BY <1>11, NoneAssumption DEF CrashSend, OpenSendIsPending, Revisions
  <2> QED
    BY <2>1, EndJobType, RetriedType DEF EndJob, orderVars, ActionsAreApproved, TypeOK
<1>12. ASSUME NEW r \in Revisions, SendEnds(r), ~ CrashSend(r)
       PROVE  ActionsAreApproved'
  <2>1. PICK s \in ActionStates \ {"ABSENT"}, t \in {"RUNNABLE", "SUCCEEDED", "FAILED"} :
          CommitSend(r, s, t)
    BY <1>12, RetriedType
    DEF SendEnds, SendSucceeds, SendIsUncertain, SendIsThrottled, SendIsRejected,
        ResendTimesOut, ReauthRequired, ActionStates
  <2>2. sending = r /\ order'.current = order.current
        /\ (order' = order \/ order'.status = "AWAITING_CLIENT_APPROVAL")
    BY <1>12, SendEndsOrder
  <2>3. order.status = "SEND_PENDING" /\ job[r].state = "RUNNABLE"
    BY <2>2, NoneAssumption DEF OpenSendIsPending, Revisions
  <2> QED
    BY <1>4, <2>1, <2>2, <2>3, CommitSendType DEF CommitSend, ActionsAreApproved
<1>13. ASSUME NEW r \in Revisions, PickSend(r) \/ RetryJob(r)
       PROVE  ActionsAreApproved'
  <2>1. /\ job[r].state # "ABSENT" /\ UNCHANGED <<order, action, resolving>>
        /\ \A u \in Revisions \ {r} : job'[u] = job[u]
    BY <1>13 DEF PickSend, RetryJob, TypeOK, orderVars
  <2> QED
    BY <2>1 DEF ActionsAreApproved, TypeOK
<1>14. ASSUME NEW r \in Revisions, NEW verdict \in Verdicts, ReadAction(r, verdict)
       PROVE  ActionsAreApproved'
  <2>1. resolving'.rev = r /\ UNCHANGED <<order, action, job>>
    BY <1>14 DEF ReadAction, orderVars, sendVars
  <2> QED
    BY <1>14, <2>1 DEF ReadAction, ActionsAreApproved
<1>15. CASE ResolveAction
  <2>1. /\ resolving # None /\ resolving.rev \in Revisions
        /\ Resolved(resolving.verdict) \in ActionStates \ {"ABSENT"}
    BY <1>15 DEF ResolveAction, TypeOK, Verdicts, Resolved, ActionStates
  <2>2. \A r \in Revisions : action'[r].state # "ABSENT" <=> action[r].state # "ABSENT"
    BY <1>15, <2>1, SetActionType DEF ResolveAction, ActionsAreApproved
  <2> QED
    BY <1>15, <2>2 DEF ResolveAction, orderVars, ActionsAreApproved, TypeOK
<1>16. /\ \A q \in Requests : OpenRequest(q) \/ RefuseRequest(q)
                                => UNCHANGED <<order, action, job, resolving>>
       /\ \A r \in Revisions : StartSend(r) => UNCHANGED <<order, action, job, resolving>>
       /\ AmendElsewhere \/ UNCHANGED vars => UNCHANGED <<order, action, job, resolving>>
  BY DEF OpenRequest, RefuseRequest, StartSend, AmendElsewhere, vars, orderVars, sendVars
<1> QED
  BY <1>1, <1>2, <1>3, <1>5, <1>6, <1>7, <1>8, <1>9, <1>10, <1>11, <1>12, <1>13, <1>14, <1>15,
     <1>16
  DEF Next

-----------------------------------------------------------------------------
(* The open send and the mail *)

\* An open send keeps its order and its job; a send starts only on a pending order.
LEMMA OpenSendStep ==
  ASSUME TypeOK, JobsAreBudgeted, OpenSendIsPending, [Next]_vars
  PROVE  OpenSendIsPending'
<1>1. ASSUME sending' = None PROVE OpenSendIsPending'
  BY <1>1 DEF OpenSendIsPending
<1>2. ASSUME sending = None, UNCHANGED sending PROVE OpenSendIsPending'
  BY <1>1, <1>2
<1>3. ASSUME UNCHANGED <<order, job, sending>> PROVE OpenSendIsPending'
  BY <1>3 DEF OpenSendIsPending
<1>4. ASSUME NEW r \in Revisions, StartSend(r)
      PROVE  OpenSendIsPending'
  <2>1. picked[r] # None
    BY <1>4, NoneAssumption DEF StartSend, ActionStates
  <2> QED
    BY <1>4, <2>1 DEF StartSend, orderVars, JobsAreBudgeted, OpenSendIsPending
<1>5. ASSUME NEW r \in Revisions, RefuseSend(r) \/ CrashJob(r)
      PROVE  OpenSendIsPending'
  <2>1. PICK t \in {"RUNNABLE", "SUCCEEDED", "FAILED"} : EndJob(r, t)
    BY <1>5, RetriedType DEF RefuseSend, CrashJob
  <2>2. sending # r /\ UNCHANGED <<order, sending>>
    BY <1>5 DEF RefuseSend, CrashJob, EndJob, orderVars
  <2> QED
    BY <2>1, <2>2, EndJobType DEF OpenSendIsPending, TypeOK
<1>6. ASSUME NEW r \in Revisions, SendEnds(r)
      PROVE  OpenSendIsPending'
  BY <1>1, <1>6, SendEndsOrder
<1>7. ASSUME NEW r \in Revisions, PickSend(r) \/ RetryJob(r)
      PROVE  OpenSendIsPending'
  <2>1. /\ job'[r].state = "RUNNABLE" /\ UNCHANGED <<order, sending>>
        /\ \A u \in Revisions \ {r} : job'[u] = job[u]
    BY <1>7 DEF PickSend, RetryJob, TypeOK, orderVars
  <2> QED
    BY <2>1 DEF OpenSendIsPending, TypeOK
<1>8. /\ CreateRevision => sending = None /\ UNCHANGED sending
      /\ ApproveFreelancer => sending = None /\ UNCHANGED sending
      /\ \A target : FreelancerDecide(target) => sending = None /\ UNCHANGED sending
      /\ \A q, d : ClientDecide(q, d) => sending = None /\ UNCHANGED sending
      /\ \A q : AcceptClient(q) => sending = None /\ UNCHANGED sending
      /\ Withdraw \/ DisconnectGmail => sending = None /\ UNCHANGED sending
  BY DEF CreateRevision, Revise, ApproveFreelancer, FreelancerDecide, ClientDecide, AcceptClient,
         AcceptOffer, Withdraw, DisconnectGmail, OrderIsFree, sendVars
<1>9. /\ \A q : OpenRequest(q) \/ RefuseRequest(q) => UNCHANGED <<order, job, sending>>
      /\ \A r, verdict : ReadAction(r, verdict) => UNCHANGED <<order, job, sending>>
      /\ ResolveAction \/ AmendElsewhere \/ UNCHANGED vars => UNCHANGED <<order, job, sending>>
  BY DEF OpenRequest, RefuseRequest, ReadAction, ResolveAction, AmendElsewhere, vars, orderVars,
         sendVars
<1> QED
  BY <1>2, <1>3, <1>4, <1>5, <1>6, <1>7, <1>8, <1>9 DEF Next

\* A message goes out on a sendable revision, and what makes it sendable again is an
\* acknowledgement or a lapse.
LEMMA MailStep ==
  ASSUME TypeOK, TypeOK', JobsAreBudgeted, ActionsAreApproved, SendableMailIsExcused,
         MailIsAccountedFor, [Next]_vars
  PROVE  SendableMailIsExcused' /\ MailIsAccountedFor'
<1> DEFINE Excused(r) == mail[r] <= acks[r] + lapses[r]
           Accounted(r) == mail[r] <= 1 + acks[r] + lapses[r]
<1>1. ASSUME UNCHANGED <<mail, acks, lapses>>, \A r \in Revisions : Sendable(r)' => Sendable(r)
      PROVE  SendableMailIsExcused' /\ MailIsAccountedFor'
  BY <1>1 DEF SendableMailIsExcused, MailIsAccountedFor
<1>2. ASSUME UNCHANGED <<action, picked, mail, acks, lapses>>
      PROVE  SendableMailIsExcused' /\ MailIsAccountedFor'
  BY <1>1, <1>2 DEF Sendable
<1>3. /\ CreateRevision => UNCHANGED <<action, picked, mail, acks, lapses>>
      /\ \A target : FreelancerDecide(target) => UNCHANGED <<action, picked, mail, acks, lapses>>
      /\ \A q, d : ClientDecide(q, d) => UNCHANGED <<action, picked, mail, acks, lapses>>
      /\ \A q : OpenRequest(q) \/ RefuseRequest(q)
                  => UNCHANGED <<action, picked, mail, acks, lapses>>
      /\ \A r : StartSend(r) \/ RetryJob(r) => UNCHANGED <<action, picked, mail, acks, lapses>>
      /\ \A r, verdict : ReadAction(r, verdict)
                           => UNCHANGED <<action, picked, mail, acks, lapses>>
      /\ AmendElsewhere \/ UNCHANGED vars => UNCHANGED <<action, picked, mail, acks, lapses>>
  BY DEF CreateRevision, Revise, FreelancerDecide, ClientDecide, OpenRequest, RefuseRequest,
         StartSend, RetryJob, ReadAction, AmendElsewhere, vars, sendVars, worldVars
<1>4. CASE ApproveFreelancer
  <2> DEFINE r == order.current
  <2>1. r \in Revisions /\ action[r].state = "ABSENT" /\ "READY" \in ActionStates
    BY <1>4 DEF ApproveFreelancer, ActionsAreApproved, TypeOK, ActionStates
  <2>2. UNCHANGED <<picked, mail, acks, lapses>> /\ SetAction(r, "READY")
    BY <1>4 DEF ApproveFreelancer, worldVars
  <2> QED
    BY <1>1, <2>1, <2>2, SetActionType DEF Sendable
<1>5. CASE Withdraw \/ DisconnectGmail
  <2>1. \A r \in Revisions : action'[r] = action[r] \/ action'[r].state = "CANCELLED"
    BY <1>5 DEF Withdraw, DisconnectGmail, TypeOK
  <2>2. UNCHANGED <<picked, mail, acks, lapses>>
    BY <1>5 DEF Withdraw, DisconnectGmail, worldVars
  <2> QED
    BY <1>1, <2>1, <2>2 DEF Sendable
<1>6. ASSUME NEW q \in Requests, AcceptClient(q)
      PROVE  SendableMailIsExcused' /\ MailIsAccountedFor'
  <2>1. pending[q].rev \in Revisions /\ "RECEIPT_CONFIRMED" \in ActionStates
    BY <1>6 DEF AcceptClient, TypeOK, ActionStates
  <2>2. \A r \in Revisions : action'[r] = action[r] \/ action'[r].state = "RECEIPT_CONFIRMED"
    BY <1>6, <2>1, SetActionType DEF AcceptClient, AcceptOffer
  <2>3. UNCHANGED <<picked, mail, acks, lapses>>
    BY <1>6 DEF AcceptClient, AcceptOffer, worldVars
  <2> QED
    BY <1>1, <2>2, <2>3 DEF Sendable
<1>7. ASSUME NEW r \in Revisions, PickSend(r)
      PROVE  SendableMailIsExcused' /\ MailIsAccountedFor'
  BY <1>1, <1>7 DEF PickSend, Sendable, TypeOK, worldVars
<1>8. ASSUME NEW r \in Revisions, RefuseSend(r) \/ CrashJob(r)
      PROVE  SendableMailIsExcused' /\ MailIsAccountedFor'
  <2>1. PICK t \in {"RUNNABLE", "SUCCEEDED", "FAILED"} : EndJob(r, t)
    BY <1>8, RetriedType DEF RefuseSend, CrashJob
  <2>2. UNCHANGED <<action, mail, acks, lapses>>
    BY <1>8 DEF RefuseSend, CrashJob, EndJob
  <2>3. picked'[r] \notin {"READY", "RETRY_WAIT"}
    BY <2>1, EndJobType, NoneAssumption DEF ActionStates
  <2> QED
    BY <1>1, <2>1, <2>2, <2>3, EndJobType DEF Sendable
<1>9. ASSUME NEW r \in Revisions, SendEnds(r)
      PROVE  SendableMailIsExcused' /\ MailIsAccountedFor'
  <2>1. Sendable(r)
    BY <1>9, SendEndsOrder, NoneAssumption DEF JobsAreBudgeted, Sendable, Revisions
  <2>2. Excused(r)
    BY <2>1 DEF SendableMailIsExcused
  <2>3. \A u \in Revisions \ {r} : /\ mail'[u] = mail[u] /\ lapses'[u] = lapses[u]
                                   /\ action'[u] = action[u] /\ picked'[u] = picked[u]
    BY <1>9 DEF SendEnds, SendSucceeds, SendIsUncertain, SendIsThrottled, SendIsRejected,
       ResendTimesOut, ReauthRequired, CrashSend, CommitSend, EndJob, Delivered, MaybeDelivered,
       worldVars, TypeOK
  <2>4. /\ acks' = acks /\ mail'[r] \in {mail[r], mail[r] + 1}
        /\ lapses'[r] \in {lapses[r], lapses[r] + 1}
    <3>1. lapses' \in {lapses, [lapses EXCEPT ![r] = @ + 1]}
      BY <1>9 DEF SendEnds, SendSucceeds, SendIsUncertain, SendIsThrottled, SendIsRejected,
         ResendTimesOut, ReauthRequired, CrashSend, worldVars
    <3> QED
      BY <1>9, <3>1, SendEndsOrder DEF TypeOK
  <2>5. CASE Sendable(r)'
    <3>1. mail'[r] = mail[r] \/ lapses'[r] = lapses[r] + 1
      <4>1. CASE SendSucceeds(r) \/ SendIsUncertain(r)
        <5>1. PICK s \in {"SUCCEEDED", "UNKNOWN_OUTCOME"}, t \in {"SUCCEEDED", "FAILED"} :
                CommitSend(r, s, t)
          BY <4>1 DEF SendSucceeds, SendIsUncertain
        <5>2. action'[r].state = s /\ picked'[r] = None
          BY <1>9, <5>1, SendEndsOrder, CommitSendType DEF ActionStates
        <5> QED
          BY <2>5, <5>2, NoneAssumption DEF Sendable, ActionStates
      <4>2. CASE ResendTimesOut(r) \/ CrashSend(r)
        BY <4>2 DEF ResendTimesOut, CrashSend, TypeOK
      <4>3. CASE SendIsThrottled(r) \/ SendIsRejected(r) \/ ReauthRequired(r)
        BY <4>3 DEF SendIsThrottled, SendIsRejected, ReauthRequired, worldVars
      <4> QED
        BY <1>9, <4>1, <4>2, <4>3 DEF SendEnds
    <3>2. Excused(r)' /\ Accounted(r)'
      BY <2>2, <2>4, <3>1 DEF TypeOK
    <3> QED
      BY <2>3, <2>4, <3>2 DEF SendableMailIsExcused, MailIsAccountedFor, Sendable
  <2>6. CASE ~ Sendable(r)'
    <3>1. Accounted(r)'
      BY <2>2, <2>4 DEF TypeOK
    <3> QED
      BY <2>3, <2>4, <2>6, <3>1 DEF SendableMailIsExcused, MailIsAccountedFor, Sendable
  <2> QED
    BY <2>5, <2>6
<1>10. CASE ResolveAction
  <2>1. PICK r \in Revisions :
          r = resolving.rev /\ Resolved(resolving.verdict) \in ActionStates
    BY <1>10 DEF ResolveAction, TypeOK, Verdicts, Resolved, ActionStates
  <2>2. /\ action'[r].state = Resolved(resolving.verdict)
        /\ \A u \in Revisions \ {r} : action'[u] = action[u]
        /\ UNCHANGED <<picked, mail, lapses>>
    BY <1>10, <2>1, SetActionType DEF ResolveAction
  <2>3. CASE resolving.verdict = "retry"
    <3>1. acks' = [acks EXCEPT ![r] = @ + 1]
      BY <1>10, <2>1, <2>3 DEF ResolveAction
    <3>2. /\ acks'[r] = acks[r] + 1
          /\ \A u \in Revisions \ {r} : acks'[u] = acks[u]
      BY <2>1, <3>1 DEF TypeOK
    <3>3. /\ Accounted(r) /\ mail[r] \in Nat /\ acks[r] \in Nat /\ lapses[r] \in Nat
          /\ mail'[r] = mail[r] /\ lapses'[r] = lapses[r]
      BY <2>1, <2>2 DEF MailIsAccountedFor, TypeOK
    <3>4. Excused(r)' /\ Accounted(r)'
      BY <3>2, <3>3
    <3>5. ASSUME NEW u \in Revisions \ {r}
          PROVE  (Sendable(u)' => Excused(u)') /\ Accounted(u)'
      BY <2>2, <3>2 DEF SendableMailIsExcused, MailIsAccountedFor, Sendable
    <3> QED
      BY <3>4, <3>5 DEF SendableMailIsExcused, MailIsAccountedFor
  <2>4. CASE resolving.verdict # "retry"
    <3>1. Resolved(resolving.verdict) \notin {"ABSENT", "READY", "RETRY_WAIT"}
      BY <1>10, <2>4 DEF ResolveAction, TypeOK, Verdicts, Resolved
    <3>2. acks' = acks
      BY <1>10, <2>4 DEF ResolveAction
    <3> QED
      BY <1>1, <2>1, <2>2, <3>1, <3>2 DEF Sendable
  <2> QED
    BY <2>3, <2>4
<1> QED
  BY <1>2, <1>3, <1>4, <1>5, <1>6, <1>7, <1>8, <1>9, <1>10 DEF Next

\* The client is asked only once a message has been taken.
LEMMA AwaitedStep ==
  ASSUME TypeOK, AwaitedClientHasMail, [Next]_vars
  PROVE  AwaitedClientHasMail'
<1>1. ASSUME UNCHANGED mail,
             order'.status = "AWAITING_CLIENT_APPROVAL" => order'.status = order.status
      PROVE  AwaitedClientHasMail'
  BY <1>1 DEF AwaitedClientHasMail
<1>2. ASSUME NEW r \in Revisions, SendEnds(r)
      PROVE  AwaitedClientHasMail'
  BY <1>2, SendEndsOrder DEF AwaitedClientHasMail, TypeOK
<1>3. CASE CreateRevision
  BY <1>1, <1>3 DEF CreateRevision, Revise, worldVars
<1>4. CASE ApproveFreelancer
  BY <1>1, <1>4 DEF ApproveFreelancer, MoveOrder, TypeOK, worldVars
<1>5. ASSUME NEW target \in {"REJECTED_BY_FREELANCER", "WITHDRAWN"}, FreelancerDecide(target)
      PROVE  AwaitedClientHasMail'
  BY <1>1, <1>5 DEF FreelancerDecide, MoveOrder, TypeOK, worldVars
<1>6. CASE Withdraw
  BY <1>1, <1>6 DEF Withdraw, MoveOrder, TypeOK, worldVars
<1>7. ASSUME NEW q \in Requests, AcceptClient(q)
      PROVE  AwaitedClientHasMail'
  BY <1>1, <1>7 DEF AcceptClient, AcceptOffer, MoveOrder, TypeOK, worldVars
<1>8. ASSUME NEW q \in Requests, NEW d \in Decisions, ClientDecide(q, d)
      PROVE  AwaitedClientHasMail'
  BY <1>1, <1>8 DEF ClientDecide, MoveOrder, TypeOK, worldVars
<1>9. /\ DisconnectGmail => UNCHANGED <<order, mail>>
      /\ \A q : OpenRequest(q) \/ RefuseRequest(q) => UNCHANGED <<order, mail>>
      /\ \A r : \/ PickSend(r) \/ StartSend(r) \/ RefuseSend(r) \/ CrashJob(r) \/ RetryJob(r)
                => UNCHANGED <<order, mail>>
      /\ \A r, verdict : ReadAction(r, verdict) => UNCHANGED <<order, mail>>
      /\ ResolveAction \/ AmendElsewhere \/ UNCHANGED vars => UNCHANGED <<order, mail>>
  BY DEF DisconnectGmail, OpenRequest, RefuseRequest, PickSend, StartSend, RefuseSend, CrashJob,
         RetryJob, ReadAction, ResolveAction, AmendElsewhere, EndJob, vars, orderVars, worldVars
<1> QED
  BY <1>1, <1>2, <1>3, <1>4, <1>5, <1>6, <1>7, <1>8, <1>9 DEF Next

-----------------------------------------------------------------------------
(* Offers and scope versions *)

\* Nothing but a new revision writes a baseline, and nothing but an acceptance or an amendment
\* moves the scope.
LEMMA OffersStep ==
  ASSUME TypeOK, TypeOK', OffersAreWritten, OneAcceptancePerBaseline, [Next]_vars
  PROVE  OffersAreWritten' /\ OneAcceptancePerBaseline'
<1> USE BoundsAssumption
<1>1. /\ order.current \in Int /\ order'.current \in Int /\ scope \in Int /\ scope' \in Int
      /\ \A r \in Revisions : r \in Int /\ baseline[r] \in Int
      /\ Accepted \subseteq Revisions
  <2>1. order.current \in Revisions /\ order'.current \in Revisions /\ Revisions \subseteq Int
    BY DEF TypeOK, Revisions
  <2>2. scope \in Nat /\ scope' \in Nat /\ \A r \in Revisions : baseline[r] \in Nat
    BY DEF TypeOK
  <2>3. Accepted \subseteq Revisions
    BY DEF Accepted
  <2>4. Nat \subseteq Int /\ \A r \in Revisions : r \in Int
    BY <2>1
  <2>5. order.current \in Int /\ order'.current \in Int
    BY <2>1
  <2>6. \A r \in Revisions : baseline[r] \in Int
    BY <2>2
  <2> QED
    BY <2>2, <2>3, <2>4, <2>5, <2>6
<1>2. ASSUME \A r \in Revisions : /\ baseline'[r] <= scope'
                                  /\ "activated" \in grant'[r] => r <= order'.current
                                  /\ r \in Accepted' => r <= order'.current,
             \A q \in Requests : pending'[q] # None => pending'[q].rev <= order'.current,
             \A r \in Accepted' : /\ baseline'[r] < scope'
                                  /\ \A s \in Accepted' \ {r} : baseline'[s] # baseline'[r]
      PROVE  OffersAreWritten' /\ OneAcceptancePerBaseline'
  BY <1>2 DEF OffersAreWritten, OneAcceptancePerBaseline, Written
<1>3. /\ \A r \in Revisions : /\ baseline[r] <= scope
                              /\ "activated" \in grant[r] => r <= order.current
                              /\ r \in Accepted => r <= order.current
      /\ \A q \in Requests : pending[q] # None => pending[q].rev <= order.current
      /\ \A r \in Accepted : /\ baseline[r] < scope
                             /\ \A s \in Accepted \ {r} : baseline[s] # baseline[r]
  BY DEF OffersAreWritten, OneAcceptancePerBaseline, Written
<1>4. ASSUME UNCHANGED <<baseline, Accepted>>, scope' \in {scope, scope + 1},
             order'.current = order.current,
             \A r \in Revisions : "activated" \in grant'[r]
                                    => "activated" \in grant[r] \/ r = order.current,
             \A q \in Requests : pending'[q] # None
                                   => \/ pending'[q] = pending[q]
                                      \/ "activated" \in grant[pending'[q].rev]
      PROVE  OffersAreWritten' /\ OneAcceptancePerBaseline'
  <2>1. \A r \in Revisions : baseline[r] <= scope' /\ (baseline[r] < scope => baseline[r] < scope')
    BY <1>1, <1>3, <1>4
  <2>2. \A q \in Requests : pending'[q] # None => pending'[q].rev <= order'.current
    <3>1. ASSUME NEW q \in Requests, pending'[q] # None, "activated" \in grant[pending'[q].rev]
          PROVE  pending'[q].rev <= order.current
      BY <1>3, <3>1 DEF TypeOK
    <3> QED
      BY <1>4, <1>3, <3>1
  <2>3. order.current <= order'.current
    BY <1>1, <1>4
  <2>4. \A r \in Revisions : /\ "activated" \in grant'[r] => r <= order'.current
                             /\ r \in Accepted' => r <= order'.current
    BY <1>4, <1>3, <2>3
  <2>5. \A r \in Accepted' : /\ baseline'[r] < scope'
                             /\ \A s \in Accepted' \ {r} : baseline'[s] # baseline'[r]
    BY <1>1, <1>3, <1>4, <2>1
  <2> QED
    BY <1>2, <1>4, <2>1, <2>2, <2>4, <2>5
<1>5. ASSUME UNCHANGED <<order, grant, baseline, scope, approvals, pending>>
      PROVE  OffersAreWritten' /\ OneAcceptancePerBaseline'
  BY <1>4, <1>5 DEF Accepted, Written
<1>6. CASE CreateRevision
  <2>1. PICK c \in Revisions : c = order.current
    BY DEF TypeOK
  <2>2. /\ c + 1 \in Revisions
        /\ order'.current = c + 1 /\ baseline'[c + 1] = scope
        /\ \A r \in Revisions \ {c + 1} : baseline'[r] = baseline[r]
        /\ UNCHANGED <<scope, approvals, pending>>
    BY <1>1, <1>6, <2>1 DEF CreateRevision, Revise, TypeOK, projectVars, Revisions
  <2>3. \A r \in Revisions : "activated" \in grant'[r] <=> "activated" \in grant[r]
    BY <1>6, RevokedType DEF CreateRevision, Revise, TypeOK
  <2>4. \A r \in Revisions : r <= c => r <= order'.current /\ r # c + 1
    BY <1>1, <2>1, <2>2
  <2>5. Accepted' = Accepted
    BY <2>2 DEF Accepted
  <2>6. \A r \in Accepted : baseline'[r] = baseline[r]
    BY <1>1, <1>3, <2>1, <2>2, <2>4
  <2>7. \A r \in Revisions : /\ baseline'[r] <= scope'
                             /\ "activated" \in grant'[r] => r <= order'.current
                             /\ r \in Accepted' => r <= order'.current
    BY <1>1, <1>3, <2>1, <2>2, <2>3, <2>4, <2>5
  <2>8. \A q \in Requests : pending'[q] # None => pending'[q].rev <= order'.current
    BY <1>3, <2>1, <2>2, <2>4 DEF TypeOK
  <2>9. \A r \in Accepted' : /\ baseline'[r] < scope'
                             /\ \A s \in Accepted' \ {r} : baseline'[s] # baseline'[r]
    BY <1>3, <2>2, <2>5, <2>6
  <2> QED
    BY <1>2, <2>7, <2>8, <2>9
<1>7. CASE ApproveFreelancer
  <2>1. "SEND_PENDING" \in Statuses /\ order.current \in Revisions
    BY DEF Statuses, TypeOK
  <2>2. order'.current = order.current
    BY <1>7, <2>1, MoveOrderType DEF ApproveFreelancer
  <2>3. \A r \in Revisions \ {order.current} : grant'[r] = grant[r]
    BY <1>7 DEF ApproveFreelancer, TypeOK
  <2>4. UNCHANGED <<baseline, scope, Accepted, pending>>
    BY <1>7 DEF ApproveFreelancer, projectVars, Accepted
  <2> QED
    BY <1>4, <2>2, <2>3, <2>4
<1>8. ASSUME NEW target \in {"REJECTED_BY_FREELANCER", "WITHDRAWN"},
             FreelancerDecide(target) \/ Withdraw
      PROVE  OffersAreWritten' /\ OneAcceptancePerBaseline'
  <2>1. PICK s \in Statuses : MoveOrder(s)
    BY <1>8 DEF FreelancerDecide, Withdraw, Statuses
  <2>2. grant' = Revoked(grant, {"revoked"}) /\ UNCHANGED <<baseline, scope, approvals, pending>>
    BY <1>8 DEF FreelancerDecide, Withdraw, projectVars
  <2>3. \A r \in Revisions : "activated" \in grant'[r] => "activated" \in grant[r]
    BY <2>2, RevokedType DEF TypeOK
  <2> QED
    BY <1>4, <2>1, <2>2, <2>3, MoveOrderType DEF Accepted
<1>9. ASSUME NEW q \in Requests, OpenRequest(q) \/ RefuseRequest(q)
      PROVE  OffersAreWritten' /\ OneAcceptancePerBaseline'
  <2>1. UNCHANGED <<order, grant, baseline, scope, approvals>>
    BY <1>9 DEF OpenRequest, RefuseRequest, orderVars, projectVars
  <2>2. \A p \in Requests : pending'[p] # None
          => pending'[p] = pending[p] \/ "activated" \in grant[pending'[p].rev]
    <3>1. CASE OpenRequest(q)
      <4>1. PICK r \in Revisions :
              /\ "activated" \in grant[r]
              /\ pending' = [pending EXCEPT ![q] = [rev |-> r, status |-> order.status]]
        BY <3>1 DEF OpenRequest
      <4> QED
        BY <4>1 DEF TypeOK
    <3>2. CASE RefuseRequest(q)
      BY <3>2 DEF RefuseRequest, TypeOK
    <3> QED
      BY <1>9, <3>1, <3>2
  <2> QED
    BY <1>4, <2>1, <2>2 DEF Accepted
<1>10. ASSUME NEW q \in Requests, NEW d \in Decisions \ {"APPROVED"}, ClientDecide(q, d)
      PROVE  OffersAreWritten' /\ OneAcceptancePerBaseline'
  <2> DEFINE g == [grant EXCEPT ![pending[q].rev] = @ \cup {"consumed"}]
  <2>1. /\ g \in [Revisions -> SUBSET {"activated", "consumed", "revoked"}]
        /\ \A r \in Revisions : "activated" \in g[r] => "activated" \in grant[r]
    BY <1>10 DEF ClientDecide, TypeOK
  <2>2. \A r \in Revisions : "activated" \in grant'[r] => "activated" \in grant[r]
    BY <1>10, <2>1, RevokedType DEF ClientDecide
  <2>3. PICK s \in Statuses : MoveOrder(s)
    BY <1>10 DEF ClientDecide, Statuses
  <2>4. UNCHANGED Accepted
    BY <1>10 DEF ClientDecide, Accepted
  <2>5. /\ UNCHANGED <<baseline, scope>>
        /\ \A p \in Requests : pending'[p] # None => pending'[p] = pending[p]
    BY <1>10 DEF ClientDecide, TypeOK, projectVars
  <2> QED
    BY <1>4, <2>2, <2>3, <2>4, <2>5, MoveOrderType
<1>11. ASSUME NEW q \in Requests, AcceptClient(q)
      PROVE  OffersAreWritten' /\ OneAcceptancePerBaseline'
  <2>1. PICK r \in Revisions :
          r = pending[q].rev /\ baseline[r] = scope /\ r <= order.current
    BY <1>11, <1>3 DEF AcceptClient, TypeOK
  <2>2. order'.current = order.current
    BY <1>11, MoveOrderType DEF AcceptClient, AcceptOffer, Statuses
  <2>3. Accepted' = Accepted \cup {r} /\ scope' = scope + 1 /\ UNCHANGED baseline
    BY <1>11, <2>1 DEF AcceptClient, AcceptOffer, Accepted
  <2>4. \A u \in Revisions : "activated" \in grant'[u] => "activated" \in grant[u]
    BY <1>11, <2>1 DEF AcceptClient, AcceptOffer, TypeOK
  <2>5. \A p \in Requests : pending'[p] # None => pending'[p] = pending[p]
    BY <1>11 DEF AcceptClient, AcceptOffer, TypeOK
  <2>6. \A u \in Revisions : /\ baseline'[u] <= scope' /\ baseline'[u] < scope'
                             /\ "activated" \in grant'[u] => u <= order'.current
                             /\ u \in Accepted' => u <= order'.current
    BY <1>1, <1>3, <2>1, <2>2, <2>3, <2>4
  <2>7. \A p \in Requests : pending'[p] # None => pending'[p].rev <= order'.current
    BY <1>3, <2>2, <2>5
  <2>8. \A u \in Accepted : baseline[u] # baseline[r]
    BY <1>1, <1>3, <2>1
  <2>9. \A u \in Accepted' : /\ baseline'[u] < scope'
                             /\ \A v \in Accepted' \ {u} : baseline'[v] # baseline'[u]
    BY <1>1, <1>3, <2>3, <2>6, <2>8
  <2> QED
    BY <1>2, <2>6, <2>7, <2>9
<1>12. CASE AmendElsewhere
  BY <1>4, <1>12 DEF AmendElsewhere, orderVars, Accepted
<1>13. ASSUME NEW r \in Revisions, SendEnds(r)
       PROVE  OffersAreWritten' /\ OneAcceptancePerBaseline'
  <2>1. UNCHANGED <<grant, baseline, scope, approvals, pending>>
    BY <1>13 DEF SendEnds, SendSucceeds, SendIsUncertain, SendIsThrottled, SendIsRejected,
       ResendTimesOut, ReauthRequired, CrashSend, CommitSend, EndJob, orderVars, projectVars
  <2> QED
    BY <1>4, <1>13, <2>1, SendEndsOrder DEF Accepted
<1>14. /\ DisconnectGmail => UNCHANGED <<orderVars, projectVars, approvals, pending>>
       /\ \A r : \/ PickSend(r) \/ StartSend(r) \/ RefuseSend(r) \/ CrashJob(r) \/ RetryJob(r)
                 => UNCHANGED <<orderVars, projectVars, approvals, pending>>
       /\ \A r, verdict : ReadAction(r, verdict)
                            => UNCHANGED <<orderVars, projectVars, approvals, pending>>
       /\ ResolveAction \/ UNCHANGED vars
                            => UNCHANGED <<orderVars, projectVars, approvals, pending>>
  BY DEF DisconnectGmail, PickSend, StartSend, RefuseSend, CrashJob, RetryJob, ReadAction,
         ResolveAction, EndJob, vars, orderVars, projectVars
<1>15. UNCHANGED <<orderVars, projectVars, approvals, pending>>
         => UNCHANGED <<order, grant, baseline, scope, approvals, pending>>
  BY DEF orderVars, projectVars
<1> QED
  BY <1>5, <1>6, <1>7, <1>8, <1>9, <1>10, <1>11, <1>12, <1>13, <1>14, <1>15 DEF Next

-----------------------------------------------------------------------------
(* The theorems *)

\* A fresh order satisfies the inductive invariant ...
LEMMA InitIInv == Init => IInv
<1> SUFFICES ASSUME Init PROVE IInv
  OBVIOUS
<1>1. 1 \in Revisions /\ 0 \in 0..MaxAttempts /\ 0 \in 0..MaxCrashes /\ 0 \in 0..MaxAmendments
  BY BoundsAssumption DEF Revisions
<1>2. TypeOK
  BY <1>1 DEF Init, TypeOK, Statuses, ActionStates
<1>3. JobsAreBudgeted
  BY BoundsAssumption DEF Init, JobsAreBudgeted
<1>4. ActionsAreApproved
  BY DEF Init, ActionsAreApproved
<1>5. OpenSendIsPending
  BY DEF Init, OpenSendIsPending
<1>6. SendableMailIsExcused /\ MailIsAccountedFor
  BY DEF Init, SendableMailIsExcused, MailIsAccountedFor
<1>7. AwaitedClientHasMail
  BY DEF Init, AwaitedClientHasMail
<1>8. OffersAreWritten
  BY DEF Init, OffersAreWritten, Accepted
<1>9. OneAcceptancePerBaseline
  BY DEF Init, OneAcceptancePerBaseline, Accepted
<1> QED
  BY <1>2, <1>3, <1>4, <1>5, <1>6, <1>7, <1>8, <1>9 DEF IInv

\* ... and every action preserves it, part by part.
LEMMA StepIInv == IInv /\ [Next]_vars => IInv'
<1> SUFFICES ASSUME IInv, [Next]_vars PROVE IInv'
  OBVIOUS
<1>1. /\ TypeOK /\ JobsAreBudgeted /\ ActionsAreApproved /\ OpenSendIsPending
      /\ SendableMailIsExcused /\ MailIsAccountedFor /\ AwaitedClientHasMail
      /\ OffersAreWritten /\ OneAcceptancePerBaseline
  BY DEF IInv
<1>2. TypeOK'
  BY <1>1, TypeStep
<1>3. JobsAreBudgeted'
  BY <1>1, BudgetStep
<1>4. ActionsAreApproved'
  BY <1>1, <1>2, ApprovedStep
<1>5. OpenSendIsPending'
  BY <1>1, OpenSendStep
<1>6. SendableMailIsExcused' /\ MailIsAccountedFor'
  BY <1>1, <1>2, MailStep
<1>7. AwaitedClientHasMail'
  BY <1>1, AwaitedStep
<1>8. OffersAreWritten' /\ OneAcceptancePerBaseline'
  BY <1>1, <1>2, OffersStep
<1> QED
  BY <1>2, <1>3, <1>4, <1>5, <1>6, <1>7, <1>8 DEF IInv

\* The strengthened invariant holds in every reachable state: besides what the runs check,
\* only written revisions are offered, and a revision that may still be sent has no
\* unexcused mail.
THEOREM OrderInvariant == Spec => []IInv
BY InitIInv, StepIInv, PTL DEF Spec

\* Every reachable state is well typed: no action is dispatched, and no job tried, beyond
\* max_attempts, whoever retries them.
THEOREM OrderTypes == Spec => []TypeOK
<1>1. IInv => TypeOK
  BY DEF IInv
<1> QED
  BY <1>1, OrderInvariant, PTL

\* While a message is on its way, the order stays SEND_PENDING and its job open.
THEOREM SendsHoldTheirOrder == Spec => []OpenSendIsPending
<1>1. IInv => OpenSendIsPending
  BY DEF IInv
<1> QED
  BY <1>1, OrderInvariant, PTL

\* Messages beyond the first are paid for by acknowledgements and lapses, for any number of
\* revisions, retries, crashes and stale resolutions.
THEOREM DuplicatesAreAccountedFor == Spec => []MailIsAccountedFor
<1>1. IInv => MailIsAccountedFor
  BY DEF IInv
<1> QED
  BY <1>1, OrderInvariant, PTL

\* No client is asked before Gmail has taken a message.
THEOREM ClientsAreAskedAfterMail == Spec => []AwaitedClientHasMail
<1>1. IInv => AwaitedClientHasMail
  BY DEF IInv
<1> QED
  BY <1>1, OrderInvariant, PTL

\* Of the revisions written on one scope version at most one is accepted, for any number of
\* client requests on stale reads.
THEOREM BaselinesAreAmendedOnce == Spec => []OneAcceptancePerBaseline
<1>1. IInv => OneAcceptancePerBaseline
  BY DEF IInv
<1> QED
  BY <1>1, OrderInvariant, PTL
=============================================================================

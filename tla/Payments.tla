------------------------------ MODULE Payments ------------------------------
(***************************************************************************)
(* One accepted payment request and the provider links made for it:        *)
(* services/payments/service.py, the payment branches of                   *)
(* workers/handlers.py and workers/recovery.py, and the provider behind    *)
(* integrations/razorpay.py (external).                                    *)
(*                                                                         *)
(* Calls that hold the row lock of the payment from their first read to    *)
(* their commit (prepare, replace, dispatch, reconcile) are one action. A  *)
(* webhook job and the sweep of an invocation are open transactions: they  *)
(* lock ingress and observation rows only, read the request and its        *)
(* attempts unlocked, keep what they write to themselves and commit it     *)
(* later, over whatever is there by then. The row locks that the sweep's   *)
(* flushed writes hold are not modelled: a writer that waits for them in   *)
(* the code may here also come before them.                                *)
(***************************************************************************)
EXTENDS Integers, Sequences, FiniteSets, SequencesExt

EventKinds == {"paid", "authorized", "expired", "cancelled"}

\* What an event says: its name; whether it carries the reference, amount and currency of the
\* link (an unpaid link reports amount_paid 0, which the code compares with the frozen amount);
\* the status of the payment in it, "none" without a payment id; whether it names the order.
Payload == [kind : EventKinds, exact : BOOLEAN, pay : {"captured", "authorized", "none"},
            order : BOOLEAN]

CONSTANTS
  Workers,           \* webhook jobs and sweeps that may be open at the same time
  MaxLinkAttempts,   \* 3 in prepare_payment_link
  Payloads,          \* what the provider's events may say (external)
  PaidUnseen,        \* whether a link is ever paid before its URL was saved (external)
  OrderAtOnce,       \* whether a new link may name its order already (external)
  MaxLinks,          \* bound: links the provider makes
  MaxWebhooks,       \* bound: webhooks the provider sends
  MaxCrashes,        \* bound: transactions that die
  MaxEvents,         \* bound: all of these together
  CreateOperation,   \* the operation handlers.py looks the action of a payment.create job up by
  None               \* SQL NULL; in a transaction's writes: not written

PaymentStatus == {"CREATION_PENDING", "PENDING", "PAID", "EXPIRED", "CANCELLED",
                  "REVIEW_REQUIRED", "REVERSED"}
ActionState == {"READY", "SUCCEEDED", "UNKNOWN_OUTCOME", "REVIEW_REQUIRED"}
AttemptStatus == {"READY", "CREATED", "UNKNOWN_OUTCOME", "REVIEW_REQUIRED", "EXPIRED", "CANCELLED"}
IngressState == {"PENDING", "NORMALIZED", "REVIEW_REQUIRED"}
ObservationState == {"UNMATCHED", "ASSOCIATED", "MANUAL_REVIEW"}

ASSUME PaymentsAssumption ==
  /\ MaxLinkAttempts \in Nat \ {0}
  /\ Payloads \subseteq Payload
  /\ PaidUnseen \in BOOLEAN /\ OrderAtOnce \in BOOLEAN
  /\ Workers \in Nat /\ MaxEvents \in Nat
  /\ MaxLinks \in Nat /\ MaxWebhooks \in Nat /\ MaxCrashes \in Nat
  /\ None \notin Nat \cup PaymentStatus \cup AttemptStatus \cup IngressState
               \cup ObservationState \cup BOOLEAN

VARIABLES
  payment,       \* PaymentRequest.status
  attempts,      \* PaymentLinkAttempt rows by attempt_number, with the state of their action
  captured,      \* PaymentAttempt.captured by link: one payment per link, None without a row
  observations,  \* states of the PaymentObservation rows of each webhook
  inbox,         \* PaymentWebhookIngress rows in the order received
  jobs,          \* queued jobs payment.create and payment.webhook.normalize, by row number
  txn,           \* the open transactions of webhook jobs and sweeps
  links,         \* the provider's links (external)
  crashes,
  onName         \* history: a replay made the request PAID on an event without a capture

rows == <<payment, attempts, captured, observations>>
vars == <<rows, inbox, jobs, txn, links, crashes, onName>>

Webhooks == 1..MaxWebhooks

AttemptRow == [status : AttemptStatus, link : Nat \cup {None}, order : Nat \cup {None},
               action : ActionState]
Event == [link : Nat, kind : EventKinds, exact : BOOLEAN,
          pay : {"captured", "authorized", "none"}, order : BOOLEAN]
IngressRow == [event : Event, state : IngressState]
ProviderLink == [attempt : Nat, state : {"open", "authorized", "paid", "expired", "cancelled"}]

\* What an open transaction has written: None where it left the column alone. It inserts rows
\* of captured and of observations, and replays observations that are there.
Writes == [payment      : PaymentStatus \cup {None},
           status       : [1..MaxLinkAttempts -> AttemptStatus \cup {None}],
           order        : [1..MaxLinkAttempts -> Nat \cup {None}],
           captured     : [1..MaxLinks -> BOOLEAN \cup {None}],
           inserted     : [Webhooks -> ObservationState \cup {None}],
           replayed     : [Webhooks -> ObservationState \cup {None}],
           inbox        : [Webhooks -> IngressState \cup {None}],
           onName       : BOOLEAN]

\* stage: a webhook job, or how far a sweep is; todo: the webhooks still to be worked on in
\* this stage; locked: those whose ingress row or observation it has locked, which tells open
\* transactions apart; request: the status of the request as a replay holds it.
Transaction == [stage : {"job", "normalize", "replay"}, todo : SUBSET Webhooks,
                locked : SUBSET Webhooks, request : PaymentStatus \cup {None}, own : Writes]

TypeOK ==
  /\ payment \in PaymentStatus
  /\ attempts \in Seq(AttemptRow) /\ Len(attempts) <= MaxLinkAttempts
  /\ captured \in [1..MaxLinks -> BOOLEAN \cup {None}]
  /\ observations \in [Webhooks -> Seq(ObservationState)]
  /\ inbox \in Seq(IngressRow) /\ Len(inbox) <= MaxWebhooks
  /\ jobs \subseteq {"create", "normalize"} \X Nat
  /\ txn \subseteq Transaction
  /\ links \in Seq(ProviderLink) /\ Len(links) <= MaxLinks
  /\ crashes \in 0..MaxCrashes
  /\ onName \in BOOLEAN

Init ==
  /\ payment = "CREATION_PENDING"
  /\ attempts = <<>> /\ inbox = <<>>
  /\ captured = [l \in 1..MaxLinks |-> None]
  /\ observations = [i \in Webhooks |-> <<>>]
  /\ jobs = {}
  /\ txn = {}
  /\ links = <<>>
  /\ crashes = 0
  /\ onName = FALSE

-----------------------------------------------------------------------------
(* Pure parts of service.py *)

\* _transition returns silently ...
Frozen(p, target) ==
  \/ p = target
  \/ p = "REVERSED"
  \/ p = "PAID" /\ target # "REVERSED"

Allowed == {<<"CREATION_PENDING", "PENDING">>, <<"PENDING", "PAID">>, <<"REVIEW_REQUIRED", "PAID">>,
            <<"PENDING", "EXPIRED">>, <<"PENDING", "CANCELLED">>, <<"EXPIRED", "PENDING">>,
            <<"CANCELLED", "PENDING">>, <<"EXPIRED", "PAID">>, <<"PAID", "REVERSED">>,
            <<"CREATION_PENDING", "REVIEW_REQUIRED">>, <<"PENDING", "REVIEW_REQUIRED">>}

\* ... or raises ConflictError ...
Refused(p, target) == ~Frozen(p, target) /\ <<p, target>> \notin Allowed

\* ... or moves the request.
Transition(p, target) ==
  IF Frozen(p, target) \/ Refused(p, target) THEN p ELSE target

Eligible == payment \in {"CREATION_PENDING", "PENDING"}

\* The attempt that holds a provider link, 0 when none does.
AttemptOf(atts, l) ==
  IF \E n \in DOMAIN atts : atts[n].link = l
  THEN CHOOSE n \in DOMAIN atts : atts[n].link = l ELSE 0

\* The attempt a replay finds: by the link, or by the reference of an exact event.
ReplayAttempt(atts, e) ==
  IF AttemptOf(atts, e.link) = 0 /\ e.exact THEN links[e.link].attempt ELSE AttemptOf(atts, e.link)

\* The order of an event; an order is named by its link.
OrderOf(e) == IF e.order THEN e.link ELSE None

\* PaymentAttempt.captured of the payment in e, after e: of the row as first seen.
SeenCapture(cap, e) ==
  IF e.pay # "none" /\ cap[e.link] = None THEN e.pay = "captured" ELSE cap[e.link]

Captures == {"paid", "authorized"}

\* Mutant of Verdict: an event is believed by its name.
VerdictByName(e, verified, order) == IF e.kind \in Captures THEN "PAID" ELSE "NONE"

\* The status observe_payment_event asks for on an event of a known attempt, whose payment is
\* verified as captured or not; order is the attempt's order.
Verdict(e, verified, order) ==
  LET matches == /\ e.exact
                 /\ e.kind \in Captures => e.order
                 /\ order \in {None, OrderOf(e)}
  IN CASE ~matches \/ (e.kind \in Captures /\ ~verified) -> "REVIEW_REQUIRED"
       [] matches /\ e.kind = "paid" /\ verified         -> "PAID"
       [] matches /\ e.kind = "expired"                  -> "EXPIRED"
       [] matches /\ e.kind = "cancelled"                -> "CANCELLED"
       [] OTHER                                          -> "NONE"

\* The writes to the attempt: everything but a verified capture marks it, and a capture that
\* matches sets the order of an attempt that has none.
MarkedStatus(a, verdict) == IF verdict \in {"PAID", "NONE"} THEN a.status ELSE verdict

MarkedOrder(a, e) ==
  IF e.kind \in Captures /\ e.exact /\ e.order /\ a.order = None THEN e.link ELSE a.order

\* The write to the request. Closure moves only a request that is PENDING.
Moved(p, verdict) ==
  IF verdict = "NONE" \/ (verdict \in {"EXPIRED", "CANCELLED"} /\ p # "PENDING")
  THEN p ELSE Transition(p, verdict)

Raises(p, verdict) == verdict \in {"PAID", "REVIEW_REQUIRED"} /\ Refused(p, verdict)

\* Mutant of Observed: observations are not deduplicated by event id.
NeverObserved(obs, i) == FALSE

Observed(obs, i) == obs[i] # <<>>

\* What a replay asks for: it goes by the name of the event and whether it has a payment.
ReplayVerdict(e, order) ==
  CASE e.kind = "paid" /\ e.pay = "none"                                    -> "REVIEW_REQUIRED"
    [] e.kind = "paid" /\ e.pay # "none" /\ e.order /\ order \in {None, e.link} -> "PAID"
    [] OTHER                                                                -> "NONE"

ReplayStatus(a, verdict) ==
  CASE verdict = "PAID" -> "CREATED" [] verdict = "NONE" -> a.status [] OTHER -> verdict

ReplayOrder(a, e) ==
  IF e.kind = "paid" /\ e.pay # "none" /\ a.order = None THEN OrderOf(e) ELSE a.order

-----------------------------------------------------------------------------
(* Transactions *)

NoWrites ==
  [payment |-> None, status |-> [n \in 1..MaxLinkAttempts |-> None],
   order |-> [n \in 1..MaxLinkAttempts |-> None], captured |-> [l \in 1..MaxLinks |-> None],
   inserted |-> [i \in Webhooks |-> None], replayed |-> [i \in Webhooks |-> None],
   inbox |-> [i \in Webhooks |-> None], onName |-> FALSE]

Latest(new, old) == IF new = None THEN old ELSE new

Row(state) == IF state = None THEN <<>> ELSE <<state>>

\* The rows as a transaction reads them: what it wrote, else what is committed; status is the
\* request's status as its session holds it.
View(own, status) ==
  [payment      |-> Latest(own.payment, status),
   attempts     |-> [n \in DOMAIN attempts |->
                      [attempts[n] EXCEPT !.status = Latest(own.status[n], @),
                                          !.order  = Latest(own.order[n], @)]],
   captured     |-> [l \in DOMAIN captured |-> Latest(own.captured[l], captured[l])],
   observations |-> [i \in DOMAIN observations |->
                      (IF own.replayed[i] = None THEN observations[i] ELSE <<own.replayed[i]>>)
                        \o Row(own.inserted[i])]]

\* A column that gets the value it had is not written.
Put(written, old, new) == IF new = old THEN written ELSE new

\* The commit: only what was written, over whatever is there by now.
Save(own) ==
  LET now == View(own, payment) IN
  /\ payment' = now.payment
  /\ attempts' = now.attempts
  /\ captured' = now.captured
  /\ observations' = now.observations
  /\ inbox' = [i \in DOMAIN inbox |-> [inbox[i] EXCEPT !.state = Latest(own.inbox[i], @)]]
  /\ onName' = (onName \/ own.onName)

\* observe_payment_event on webhook i in a transaction that wrote own and reads v.
Observe(v, own, i) ==
  LET e     == inbox[i].event
      n     == AttemptOf(v.attempts, e.link)
      a     == v.attempts[n]
      cap   == SeenCapture(v.captured, e)
      asked == Verdict(e, cap = TRUE, a.order)
      paid  == Put(own.captured[e.link], v.captured[e.link], cap)
  IN CASE Observed(v.observations, i) -> own
       [] ~Observed(v.observations, i) /\ n = 0 ->
            [own EXCEPT !.captured[e.link] = paid,
                        !.inserted[i] = "UNMATCHED"]
       [] ~Observed(v.observations, i) /\ n # 0 ->
            [own EXCEPT !.captured[e.link] = paid,
                        !.inserted[i] = "ASSOCIATED",
                        !.payment   = Put(@, v.payment, Moved(v.payment, asked)),
                        !.status[n] = Put(@, a.status, MarkedStatus(a, asked)),
                        !.order[n]  = Put(@, a.order, MarkedOrder(a, e))]

\* An observation gets its state, in the row that is there or in the one just inserted.
Settle(own, i, state) ==
  IF own.inserted[i] = None THEN [own EXCEPT !.replayed[i] = state]
  ELSE [own EXCEPT !.inserted[i] = state]

\* It raises: the request refuses what the event asks for.
ObserveRaises(v, i) ==
  LET e == inbox[i].event
      n == AttemptOf(v.attempts, e.link)
  IN /\ ~Observed(v.observations, i) /\ n # 0
     /\ Raises(v.payment, Verdict(e, SeenCapture(v.captured, e) = TRUE, v.attempts[n].order))

\* One round of replay_unmatched_payment_observations, on an exact event. Its PaymentAttempt
\* row, if it has a payment, was made when it was observed.
Replay(v, own, i) ==
  LET e     == inbox[i].event
      n     == ReplayAttempt(v.attempts, e)
      a     == v.attempts[n]
      asked == ReplayVerdict(e, a.order)
      to    == Moved(v.payment, asked)
  IN [Settle(own, i, "ASSOCIATED") EXCEPT
        !.payment   = Put(@, v.payment, to),
        !.status[n] = Put(@, a.status, ReplayStatus(a, asked)),
        !.order[n]  = Put(@, a.order, ReplayOrder(a, e)),
        !.onName    = @ \/ (to = "PAID" /\ v.payment # "PAID" /\ e.pay # "captured")]

ReplayRaises(v, i) ==
  LET e == inbox[i].event IN
  e.exact /\ Raises(v.payment, ReplayVerdict(e, v.attempts[ReplayAttempt(v.attempts, e)].order))

-----------------------------------------------------------------------------
(* Links: prepare, replace, dispatch *)

\* Mutant of NewAttempt: the limit is off by one.
NewAttemptTooMany ==
  /\ Len(attempts) <= MaxLinkAttempts
  /\ attempts' = Append(attempts, [status |-> "READY", link |-> None, order |-> None,
                                   action |-> "READY"])
  /\ jobs' = jobs \cup {<<"create", Len(attempts) + 1>>}

\* What prepare_payment_link adds once its checks have passed.
NewAttempt ==
  /\ Len(attempts) < MaxLinkAttempts
  /\ attempts' = Append(attempts, [status |-> "READY", link |-> None, order |-> None,
                                   action |-> "READY"])
  /\ jobs' = jobs \cup {<<"create", Len(attempts) + 1>>}

HasActiveLink == \E n \in DOMAIN attempts : attempts[n].status = "CREATED"

\* prepare_payment_link, from the create-link route: a link that was created is returned
\* instead; an attempt still in flight is not.
PrepareLink ==
  /\ Eligible /\ ~HasActiveLink
  /\ NewAttempt
  /\ UNCHANGED <<payment, captured, observations, inbox, txn, links, crashes, onName>>

\* replace_payment_link. Some caller always knows the current row_version.
ReplaceLink ==
  /\ attempts # <<>> /\ Last(attempts).status \in {"EXPIRED", "CANCELLED"}
  /\ payment \in {"EXPIRED", "CANCELLED", "CREATION_PENDING", "PENDING"}
  /\ payment' = IF payment = "CREATION_PENDING" THEN payment ELSE "PENDING"
  /\ \/ HasActiveLink /\ UNCHANGED <<attempts, jobs>>
     \/ ~HasActiveLink /\ NewAttempt
  /\ UNCHANGED <<captured, observations, inbox, txn, links, crashes, onName>>

BelowMaxEvents == Len(links) + Len(inbox) + crashes < MaxEvents

\* The job payment.create: whatever happens, no error of this provider is retried.
EndCreate(n) == jobs' = jobs \ {<<"create", n>>}

\* The provider makes a link for attempt n.
MakeLink(n) ==
  /\ Len(links) < MaxLinks /\ BelowMaxEvents
  /\ links' = Append(links, [attempt |-> n, state |-> "open"])

\* _action_for_job finds nothing under the handler's operation, or dispatch_payment_link
\* finds the payment in another state: the job is poisoned, or has nothing left to do.
RefuseCreate(n) ==
  /\ <<"create", n>> \in jobs
  /\ CreateOperation # "payment_links.create" \/ ~Eligible \/ attempts[n].action = "SUCCEEDED"
  /\ EndCreate(n)
  /\ UNCHANGED <<rows, inbox, txn, links, crashes, onName>>

\* Mutant of Dispatchable: a job that was given up is run again, whatever became of the payment.
DispatchableAgain(n) ==
  CreateOperation = "payment_links.create" /\ attempts[n].action # "SUCCEEDED"

Dispatchable(n) ==
  /\ <<"create", n>> \in jobs
  /\ CreateOperation = "payment_links.create"
  /\ Eligible /\ attempts[n].action # "SUCCEEDED"

\* The order the provider's answer names for a link: none, or its own.
NamedOrder(l) == IF OrderAtOnce THEN {None, l} ELSE {None}

\* dispatch_payment_link, answered with the frozen terms.
CreateLink(n) ==
  /\ Dispatchable(n)
  /\ MakeLink(n)
  /\ \E order \in NamedOrder(Len(links) + 1) :
       attempts' = [attempts EXCEPT ![n] = [status |-> "CREATED", link |-> Len(links) + 1,
                                            order |-> order, action |-> "SUCCEEDED"]]
  /\ payment' = Transition(payment, "PENDING")
  /\ EndCreate(n)
  /\ UNCHANGED <<captured, observations, inbox, txn, crashes, onName>>

\* The provider refuses, or answers something else; or the answer is lost. Either way it may
\* have made the link.
FailLink(n, outcome) ==
  /\ Dispatchable(n)
  /\ MakeLink(n) \/ UNCHANGED links
  /\ attempts' = [attempts EXCEPT ![n].status = outcome, ![n].action = outcome]
  /\ payment' = Transition(payment, "REVIEW_REQUIRED")
  /\ EndCreate(n)
  /\ UNCHANGED <<captured, observations, inbox, txn, crashes, onName>>

\* The worker dies after the provider made the link: every row is as before and the job runs
\* again.
CrashCreate(n) ==
  /\ Dispatchable(n)
  /\ crashes < MaxCrashes /\ crashes' = crashes + 1
  /\ MakeLink(n)
  /\ UNCHANGED <<rows, inbox, jobs, txn, onName>>

-----------------------------------------------------------------------------
(* Webhooks *)

\* accept_payment_webhook. A second delivery of an event changes nothing. An inexact payload
\* may lack the reference, so that only a saved link id finds the attempt and makes a job.
Receive(l, p) ==
  /\ Len(inbox) < MaxWebhooks /\ BelowMaxEvents
  /\ links[l].state \in (IF p.kind \in Captures THEN {"authorized", "paid"} ELSE {p.kind})
  /\ p.pay = "captured" => links[l].state = "paid"
  /\ inbox' = Append(inbox, [state |-> "PENDING",
                             event |-> [link |-> l, kind |-> p.kind, exact |-> p.exact,
                                        pay |-> p.pay, order |-> p.order]])
  /\ jobs' = IF p.exact \/ AttemptOf(attempts, l) # 0
             THEN jobs \cup {<<"normalize", Len(inbox) + 1>>} ELSE jobs
  /\ UNCHANGED <<rows, txn, links, crashes, onName>>

\* None of the transactions T holds the ingress or the observation of webhook i.
Free(T, i) == \A t \in T : i \notin t.locked

\* One of the transactions T has inserted the row of the payment of webhook i: whoever finds
\* no row waits for it at the unique key.
RowIsTaken(T, i) ==
  LET e == inbox[i].event IN
  e.pay # "none" /\ \E t \in T : t.own.captured[e.link] # None

Open(t) ==
  /\ Cardinality(txn) < Workers
  /\ txn' = txn \cup {t}

GoesOn(t, next) == txn' = (txn \ {t}) \cup {next}

\* The job payment.webhook.normalize: the event is done, or its link id is not yet known
\* (poisoned; the sweep takes the ingress later).
SkipNormalize(i) ==
  /\ <<"normalize", i>> \in jobs /\ Free(txn, i)
  /\ inbox[i].state = "NORMALIZED" \/ AttemptOf(attempts, inbox[i].event.link) = 0
  /\ jobs' = jobs \ {<<"normalize", i>>}
  /\ UNCHANGED <<rows, inbox, txn, links, crashes, onName>>

\* What a job writes. A refused transition fails it, but what was flushed before is committed
\* with the failure.
JobWrites(i) ==
  LET now == View(NoWrites, payment) IN
  [Observe(now, NoWrites, i) EXCEPT
     !.inbox[i] = IF ObserveRaises(now, i) THEN "REVIEW_REQUIRED" ELSE "NORMALIZED"]

\* normalize_payment_webhook locks the ingress and reads attempt and request, unlocked.
StartNormalize(i) ==
  /\ <<"normalize", i>> \in jobs /\ Free(txn, i) /\ ~RowIsTaken(txn, i)
  /\ inbox[i].state # "NORMALIZED"
  /\ AttemptOf(attempts, inbox[i].event.link) # 0
  /\ Open([stage |-> "job", todo |-> {}, locked |-> {i}, request |-> None, own |-> JobWrites(i)])
  /\ UNCHANGED <<rows, inbox, jobs, links, crashes, onName>>

FinishNormalize(t) ==
  /\ t.stage = "job"
  /\ Save(t.own)
  /\ jobs' = jobs \ {<<"normalize", i>> : i \in t.locked}
  /\ txn' = txn \ {t}
  /\ UNCHANGED <<links, crashes>>

\* The worker dies: a job runs again after its lease, a sweep is followed by the next one.
Crash(t) ==
  /\ crashes < MaxCrashes /\ BelowMaxEvents /\ crashes' = crashes + 1
  /\ txn' = txn \ {t}
  /\ UNCHANGED <<rows, inbox, jobs, links, onName>>

-----------------------------------------------------------------------------
(* The sweep of an invocation, in one transaction *)

\* Mutant of Pending: webhooks are left to their jobs.
PendingNone == {}

\* The webhooks normalize_pending_payment_webhooks locks, passing over locked ones.
Pending == {i \in DOMAIN inbox : inbox[i].state = "PENDING" /\ Free(txn, i)}

\* Observations replay_unmatched_payment_observations locks, among those a transaction that
\* wrote own can see.
Unmatched(own, others) ==
  {i \in DOMAIN inbox : /\ "UNMATCHED" \in Range(View(own, payment).observations[i])
                        /\ Free(others, i)}

\* A sweep locks what is pending; with nothing pending, what is unmatched. One that finds no
\* webhook at all is left out.
StartSweep ==
  /\ \/ /\ Pending # {}
        /\ Open([stage |-> "normalize", todo |-> Pending, locked |-> Pending,
                 request |-> None, own |-> NoWrites])
     \/ /\ Pending = {} /\ Unmatched(NoWrites, txn) # {}
        /\ Open([stage |-> "replay", todo |-> Unmatched(NoWrites, txn),
                 locked |-> Unmatched(NoWrites, txn), request |-> None, own |-> NoWrites])
  /\ UNCHANGED <<rows, inbox, jobs, links, crashes, onName>>

\* Webhook i is the next of the sweep t, in the order received.
IsNext(t, stage, i) ==
  /\ t.stage = stage
  /\ i \in t.todo /\ \A k \in t.todo : i <= k

\* normalize_pending_payment_webhooks, one webhook, in a savepoint: one that raises leaves no
\* trace. Request and attempt are read anew for each.
NormalizeTurn(t, i) ==
  /\ IsNext(t, "normalize", i) /\ ~RowIsTaken(txn \ {t}, i)
  /\ LET now == View(t.own, payment)
     IN GoesOn(t, [t EXCEPT !.todo = @ \ {i},
                            !.own = IF ObserveRaises(now, i) THEN @
                                    ELSE [Observe(now, @, i) EXCEPT !.inbox[i] = "NORMALIZED"]])
  /\ UNCHANGED <<rows, inbox, jobs, links, crashes, onName>>

StartReplay(t) ==
  /\ t.stage = "normalize" /\ t.todo = {}
  /\ LET unmatched == Unmatched(t.own, txn \ {t})
     IN GoesOn(t, [t EXCEPT !.stage = "replay", !.todo = unmatched, !.locked = @ \cup unmatched])
  /\ UNCHANGED <<rows, inbox, jobs, links, crashes, onName>>

\* The request in a replay's session: the loop's variable keeps the one of the round before.
HeldRequest(t) == Latest(t.request, payment)

\* One round; late: the 24 hours of the observation are over.
ReplayTurn(t, i) ==
  /\ IsNext(t, "replay", i)
  /\ LET now == View(t.own, HeldRequest(t))
         e   == inbox[i].event
     IN /\ ~ReplayRaises(now, i)
        /\ \E late \in BOOLEAN :
             GoesOn(t, [t EXCEPT
               !.todo = @ \ {i},
               !.request = IF ReplayAttempt(attempts, e) = 0 THEN None ELSE HeldRequest(t),
               !.own = IF e.exact THEN Replay(now, @, i)
                       ELSE IF late THEN Settle(@, i, "MANUAL_REVIEW")
                       ELSE @])
  /\ UNCHANGED <<rows, inbox, jobs, links, crashes, onName>>

\* A refused transition escapes the loop and undoes the whole sweep: here of this request ...
ReplayRefused(t, i) ==
  /\ IsNext(t, "replay", i)
  /\ ReplayRaises(View(t.own, HeldRequest(t)), i)
  /\ txn' = txn \ {t}
  /\ UNCHANGED <<rows, inbox, jobs, links, crashes, onName>>

\* ... and here of any other request.
AbortSweep(t) ==
  /\ t.stage = "replay"
  /\ txn' = txn \ {t}
  /\ UNCHANGED <<rows, inbox, jobs, links, crashes, onName>>

CommitSweep(t) ==
  /\ t.stage = "replay" /\ t.todo = {}
  /\ Save(t.own)
  /\ txn' = txn \ {t}
  /\ UNCHANGED <<jobs, links, crashes>>

-----------------------------------------------------------------------------
(* Reconciliation *)

\* A link is looked up by the reference of the attempt that lacks one. What is then fetched, as
\* of a link known before, changes nothing: it is handed on without the "entity" that _entity
\* looks for, so that its observation names no link and never will.
LinkFound(n, l) ==
  /\ links[l].attempt = n
  /\ \E order \in NamedOrder(l) :
       attempts' = [attempts EXCEPT ![n].link = l, ![n].order = order]
  /\ UNCHANGED payment

\* The provider has none: a failure, which the job commits and the route rolls back.
LinkMissing(n, byJob) ==
  /\ \A l \in DOMAIN links : links[l].attempt # n
  /\ byJob
  /\ attempts' = [attempts EXCEPT ![n].status = "UNKNOWN_OUTCOME"]
  /\ payment' = Transition(payment, "REVIEW_REQUIRED")

\* schedule_payment_maintenance: every sweep of a request that is PENDING, under review or PAID
\* queues a reconciliation once a link is saved. The job may run much later.
Scheduled == payment # "CREATION_PENDING" /\ \E n \in DOMAIN attempts : attempts[n].link # None

\* reconcile_payment_request on the newest attempt, by the job or by the route.
Reconcile(byJob) ==
  /\ attempts # <<>> /\ attempts[Len(attempts)].link = None
  /\ byJob => Scheduled
  /\ (\E l \in DOMAIN links : LinkFound(Len(attempts), l)) \/ LinkMissing(Len(attempts), byJob)
  /\ UNCHANGED <<captured, observations, inbox, jobs, txn, links, crashes, onName>>

-----------------------------------------------------------------------------
(* The provider's side of a link (external). The client pays the URL the receipt page shows. *)

LinkMoves(l) ==
  /\ \E to \in {"authorized", "paid", "expired", "cancelled"} :
       /\ to \in {"authorized", "paid"} => PaidUnseen \/ AttemptOf(attempts, l) # 0
       /\ \/ links[l].state = "open"
          \/ links[l].state = "authorized" /\ to = "paid"
       /\ links' = [links EXCEPT ![l].state = to]
  /\ UNCHANGED <<rows, inbox, jobs, txn, crashes, onName>>

-----------------------------------------------------------------------------

Create(n) ==
  \/ RefuseCreate(n) \/ CreateLink(n)
  \/ \E outcome \in {"UNKNOWN_OUTCOME", "REVIEW_REQUIRED"} : FailLink(n, outcome)

Normalize(i) == SkipNormalize(i) \/ StartNormalize(i)

\* An open transaction goes on by itself.
Advance(t) ==
  \/ FinishNormalize(t)
  \/ \E i \in t.todo : NormalizeTurn(t, i) \/ ReplayTurn(t, i) \/ ReplayRefused(t, i)
  \/ StartReplay(t) \/ CommitSweep(t)

Next ==
  \/ PrepareLink \/ ReplaceLink
  \/ \E n \in DOMAIN attempts : Create(n) \/ CrashCreate(n)
  \/ \E l \in DOMAIN links : LinkMoves(l) \/ \E p \in Payloads : Receive(l, p)
  \/ \E i \in DOMAIN inbox : Normalize(i)
  \/ StartSweep
  \/ \E t \in txn : Advance(t) \/ AbortSweep(t) \/ Crash(t)
  \/ \E byJob \in BOOLEAN : Reconcile(byJob)

Spec == Init /\ [][Next]_vars

\* The schedule starts a sweep every minute; a transaction goes on; a queued job is run. Crashes
\* may interrupt them, but not for ever (DurableJobs: EveryJobSettles).
Fairness ==
  /\ SF_vars(StartSweep)
  /\ \A i \in Webhooks :
       /\ WF_vars(\E t \in txn : i \in t.locked /\ Advance(t))
       /\ SF_vars(i \in DOMAIN inbox /\ Normalize(i))

FairSpec == Spec /\ Fairness

-----------------------------------------------------------------------------
(* Properties *)

\* PAID rests on money: the provider has collected a link of this request, whatever the order
\* of webhooks, jobs, sweeps and replays. The exception is what the code does and should not:
\* a replay that took the name of an event for the capture its payment did not report.
PaidIsCollected == payment = "PAID" => onName \/ \E l \in DOMAIN links : links[l].state = "paid"

\* The same without the exception. TDD.md:436: "Never normalize a payment event to PAID solely
\* from its name."
PaidIsNeverOnName == payment = "PAID" => \E l \in DOMAIN links : links[l].state = "paid"

\* An attempt has one link at the provider, and one more for each transaction that died after
\* the provider's answer: a lost answer, a refusal, a second job or a reconciliation never
\* lead to a second POST. ReplaceLink needs a new attempt.
LinksAreAccountedFor ==
  \A n \in DOMAIN attempts :
    Cardinality({l \in DOMAIN links : links[l].attempt = n}) <= 1 + crashes

\* Two links of the request are never open for the client at once: an attempt in flight does not
\* keep create-link from preparing another. TDD.md:617: "only one verified payable link may be
\* active".
OneLinkIsActive ==
  Cardinality({n \in DOMAIN attempts : /\ attempts[n].status = "CREATED"
                                       /\ links[attempts[n].link].state = "open"}) <= 1

\* An event is observed at most once, although the job, overlapping sweeps and redelivery all
\* lead to observe_payment_event; and a normalized ingress has its observation.
EventsAreObservedOnce ==
  \A i \in DOMAIN inbox :
    /\ Len(observations[i]) <= 1
    /\ inbox[i].state # "PENDING" => Observed(observations, i)

\* A collected payment stays collected. ARCHITECTURE_REVIEW.md:408: "Paid state does not
\* regress".
PaidIsFinal == [][payment = "PAID" => payment' = "PAID"]_payment

\* PAID is lost only at the commit of a job or a sweep that wrote the request; and none that
\* sees the request PAID, as its session has it, decides to move it.
PaidFallsToStaleReads ==
  [][/\ payment = "PAID" /\ payment' # "PAID" =>
          \E t \in txn : /\ FinishNormalize(t) \/ CommitSweep(t)
                         /\ payment' = t.own.payment
     /\ \A t \in txn' \ txn : t.own.payment \in PaymentStatus \ {"PAID"} =>
          \/ payment # "PAID"
          \/ \E old \in txn : /\ old.locked \subseteq t.locked
                              /\ \/ old.own.payment = t.own.payment
                                 \/ old.request \notin {None, "PAID"}]_vars

Waiting(i) == i \in DOMAIN inbox /\ inbox[i].event.exact /\ inbox[i].state = "PENDING"

RefusedNow(i) == i \in DOMAIN inbox /\ ObserveRaises(View(NoWrites, payment), i)

\* Every sweep that ends, ends with its commit. One that is aborted leaves no trace, and its
\* invocation claims no job.
SweepsCommit ==
  [][\A t \in txn : t.stage # "job" /\ txn' = txn \ {t} => CommitSweep(t)]_vars

\* A webhook that carries its link's frozen terms is normalized or put under review, by its
\* job, or, when that was poisoned because the link id was not saved yet, by a sweep; or else
\* the request refuses it again and again. That is, unless sweeps are aborted for ever, by an
\* observation of this request or of any other.
WebhooksSettle ==
  <>SweepsCommit => \A i \in Webhooks : <>[]Waiting(i) => []<>RefusedNow(i)

\* The same without the exceptions. OPERATIONS.md:42: "Unmatched payment | Retry with backoff
\* for 24 hours, then manual review".
GenuineWebhooksSettle == \A i \in Webhooks : Waiting(i) ~> ~Waiting(i)
=============================================================================

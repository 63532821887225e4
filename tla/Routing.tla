------------------------------ MODULE Routing ------------------------------
(***************************************************************************)
(* From a message to the request that is analysed: routing decisions,      *)
(* thread assignments, communications and requests (contracts/service.py,  *)
(* contracts/requests.py, and the loop of process_history_page).           *)
(*                                                                         *)
(* A transaction reads first and writes last, and others may commit in     *)
(* between: only the decision that is resolved and the mailbox that is     *)
(* synchronised are locked, everything else is left to unique keys. The    *)
(* messages come through a connection and belong to a thread, as Gmail's   *)
(* do. A page is one message here; its cursor is module MailboxSync.       *)
(***************************************************************************)
EXTENDS Integers, FiniteSets, Sequences

CONSTANTS
  Projects, Messages, Threads,
  ThreadOf,        \* thread of a message
  Tabs,            \* requests of the owner that are served at once
  Sync,            \* the job that synchronises the mailbox, one at a time
  MaxDecisions,    \* bound: routing decisions
  MaxRequests,     \* bound: requests
  MaxOpen,         \* bound: transactions open at once
  None

ASSUME RoutingAssumption ==
  /\ ThreadOf \in [Messages -> Threads]
  /\ Sync \notin Tabs
  /\ None \notin Projects /\ None \notin Messages
  /\ MaxDecisions \in Nat /\ MaxRequests \in Nat /\ MaxOpen \in Nat

VARIABLES
  status,     \* Project.status
  event,      \* ExternalEvent.processing_status of a message, None before it is ingested
  place,      \* CommunicationEvent: the project a message was routed to
  assigned,   \* ThreadAssignment: the project of a thread
  decisions,  \* RoutingDecision rows
  requests,   \* RequestRecord rows with their RequestCommunication rows
  txn,        \* what an open transaction has read, or None
  forced      \* history: messages that replay_external_event has routed

routing == <<event, place, assigned, decisions, forced>>
vars == <<status, routing, requests, txn>>

Actors == Tabs \cup {Sync}

Decision == [msg : Messages, status : {"OPEN", "RESOLVED"}, selected : Projects \cup {None}]
RequestRow == [project : Projects, status : {"OPEN", "MERGED"},
               mail : SUBSET Messages]

\* What a routing transaction reads of a message.
ProjectStatus == {"PAUSED_UNCONFIRMED_SCOPE", "ACTIVE", "DELETION_PENDING"}
View == [place : Projects \cup {None}, assigned : Projects \cup {None}, requested : BOOLEAN,
         project : ProjectStatus \cup {None}]
Txn == [kind : {"sync"}, msg : Messages, incremental : BOOLEAN, view : View]
       \cup [kind : {"resolve"}, decision : 1..MaxDecisions, project : Projects, view : View]
       \cup [kind : {"merge"}, request : 1..MaxRequests, row : RequestRow,
             source : 1..MaxRequests, from : RequestRow]

\* A tab with an open resolve_routing_decision.
Resolving(t) == txn[t] # None /\ txn[t].kind = "resolve"

\* Types; a decision is resolved by one transaction at a time.
TypeOK ==
  /\ status \in [Projects -> ProjectStatus]
  /\ event \in [Messages -> {None, "RECEIVED", "BLOCKED_BY_SCOPE", "MAPPED"}]
  /\ place \in [Messages -> Projects \cup {None}]
  /\ assigned \in [Threads -> Projects \cup {None}]
  /\ decisions \in Seq(Decision) /\ Len(decisions) <= MaxDecisions
  /\ requests \in Seq(RequestRow) /\ Len(requests) <= MaxRequests
  /\ txn \in [Actors -> Txn \cup {None}]
  /\ forced \subseteq {m \in Messages : place[m] # None}
  /\ \A t, u \in Tabs : t # u /\ Resolving(t) /\ Resolving(u)
                        => txn[t].decision # txn[u].decision

Init ==
  /\ status \in [Projects -> {"PAUSED_UNCONFIRMED_SCOPE", "ACTIVE"}]
  /\ event = [m \in Messages |-> None] /\ place = [m \in Messages |-> None]
  /\ assigned = [t \in Threads |-> None]
  /\ decisions = <<>> /\ requests = <<>>
  /\ txn = [a \in Actors |-> None]
  /\ forced = {}

-----------------------------------------------------------------------------
(* Projects *)

\* confirm_scope (module ScopeBaseline).
ConfirmScope(p) ==
  /\ status[p] = "PAUSED_UNCONFIRMED_SCOPE"
  /\ status' = [status EXCEPT ![p] = "ACTIVE"]
  /\ UNCHANGED <<routing, requests, txn>>

\* delete_project.
DeleteProject(p) ==
  /\ status[p] # "DELETION_PENDING"
  /\ status' = [status EXCEPT ![p] = "DELETION_PENDING"]
  /\ UNCHANGED <<routing, requests, txn>>

-----------------------------------------------------------------------------
(* Routing *)

Requested(m) == \E i \in DOMAIN requests : m \in requests[i].mail

ViewOf(m, p) ==
  LET there == IF place[m] # None THEN place[m]
               ELSE IF p # None THEN p ELSE assigned[ThreadOf[m]]
  IN [place |-> place[m], assigned |-> assigned[ThreadOf[m]], requested |-> Requested(m),
      project |-> IF there = None THEN None ELSE status[there]]

\* Mutant of Free: uq_communication_source_version is missing, the message is routed again.
AlwaysFree(m, view) == TRUE

\* The communication was there when it was read, or its unique key is still free.
Free(m, view) == view.place # None \/ place[m] = None

\* The project the message is in when the transaction commits.
Destination(view, p) == IF view.place # None THEN view.place ELSE p

\* route_external_event with one project: BLOCKED_BY_SCOPE when that one is not confirmed.
Routed(m, view, p) ==
  /\ place' = [place EXCEPT ![m] = Destination(view, p)]
  /\ event' = [event EXCEPT ![m] = IF view.place # None THEN @
                                   ELSE IF view.project = "PAUSED_UNCONFIRMED_SCOPE" THEN "BLOCKED_BY_SCOPE"
                                   ELSE "MAPPED"]

\* create_request_from_communication: one request of a message, in the project it is in.
Analysed(m, view, p) ==
  IF ~view.requested /\ view.project = "ACTIVE" /\ Len(requests) < MaxRequests
  THEN requests' = Append(requests, [project |-> p, status |-> "OPEN",
                                     mail |-> {m}])
  ELSE UNCHANGED requests

MayOpen(a) == txn[a] = None /\ Cardinality({b \in Actors : txn[b] # None}) < MaxOpen

\* process_history_page, run_initial_backfill: ingest_external_event and route_external_event
\* for a message of the page. A message may be read again, by another page or a backfill.
BeginSync(m, incremental) ==
  /\ MayOpen(Sync)
  /\ Len(decisions) < MaxDecisions
  /\ txn' = [txn EXCEPT ![Sync] = [kind |-> "sync", msg |-> m, incremental |-> incremental,
                                   view |-> ViewOf(m, None)]]
  /\ UNCHANGED <<status, routing, requests>>

\* Without an assigned project each reading leaves one more open decision.
FinishSync ==
  /\ txn[Sync] # None
  /\ LET m == txn[Sync].msg
         view == txn[Sync].view
         p == Destination(view, view.assigned)
     IN IF p = None
        THEN /\ decisions' = Append(decisions, [msg |-> m, status |-> "OPEN",
                                                selected |-> None])
             /\ event' = [event EXCEPT ![m] = IF @ = None THEN "RECEIVED" ELSE @]
             /\ UNCHANGED <<place, requests>>
        ELSE /\ UNCHANGED decisions
             /\ IF Free(m, view)
                THEN /\ Routed(m, view, p)
                     /\ IF txn[Sync].incremental THEN Analysed(m, view, p)
                                                 ELSE UNCHANGED requests
                ELSE UNCHANGED <<event, place, requests>>
  /\ txn' = [txn EXCEPT ![Sync] = None]
  /\ UNCHANGED <<status, assigned, forced>>

LockedDecision(d) == \E t \in Tabs : Resolving(t) /\ txn[t].decision = d

\* resolve_routing_decision: Gmail's decisions carry no candidates, any project may be chosen.
BeginResolve(t, d, p) ==
  /\ MayOpen(t)
  /\ d \in DOMAIN decisions /\ decisions[d].status = "OPEN" /\ ~LockedDecision(d)
  /\ txn' = [txn EXCEPT ![t] = [kind |-> "resolve", decision |-> d, project |-> p,
                                view |-> ViewOf(decisions[d].msg, p)]]
  /\ UNCHANGED <<status, routing, requests>>

\* Mutant of Agreed: the thread is read, not checked against its unique key.
AgreedWhenRead(thread, view, p) == view.assigned \in {None, p}

\* The thread has this project, or nobody has assigned it.
Agreed(thread, view, p) ==
  IF view.assigned = None THEN assigned[thread] = None ELSE view.assigned = p

\* Mutant of Settled: the decision is closed before a conflict is found.
SettledFirst(d, p, ok) == [decisions EXCEPT ![d].status = "RESOLVED", ![d].selected = p]

\* The decision is resolved in the transaction that routes its message.
Settled(d, p, ok) ==
  IF ok THEN [decisions EXCEPT ![d].status = "RESOLVED", ![d].selected = p] ELSE decisions

\* Mutant of Home: the request goes to the project that was chosen.
HomeAsChosen(view, p) == p

\* The request goes where its message is.
Home(view, p) == Destination(view, p)

FinishResolve(t) ==
  /\ Resolving(t)
  /\ LET d == txn[t].decision
         p == txn[t].project
         view == txn[t].view
         m == decisions[d].msg
         ok == Agreed(ThreadOf[m], view, p) /\ Free(m, view)
     IN /\ decisions' = Settled(d, p, ok)
        /\ IF ok
           THEN /\ assigned' = [assigned EXCEPT ![ThreadOf[m]] = p]
                /\ Routed(m, view, p)
                /\ Analysed(m, view, Home(view, p))
           ELSE UNCHANGED <<assigned, place, event, requests>>
  /\ txn' = [txn EXCEPT ![t] = None]
  /\ UNCHANGED <<status, forced>>

\* replay_external_event: routes to the project it is given, without a thread assignment, a
\* request or an end to the decision.
Replay(m, p) ==
  /\ event[m] # None /\ place[m] = None
  /\ Routed(m, ViewOf(m, p), p)
  /\ forced' = forced \cup {m}
  /\ UNCHANGED <<status, assigned, decisions, requests, txn>>

-----------------------------------------------------------------------------
(* Requests *)

\* create_request: each communication must be in the project.
CreateRequest(p, mail) ==
  /\ Len(requests) < MaxRequests
  /\ \A m \in mail : place[m] = p
  /\ requests' = Append(requests, [project |-> p, status |-> "OPEN",
                                   mail |-> mail])
  /\ UNCHANGED <<status, routing, txn>>

\* merge_requests reads both requests without a lock.
BeginMerge(t, target, source) ==
  /\ MayOpen(t)
  /\ {target, source} \subseteq DOMAIN requests /\ target # source
  /\ requests[target].project = requests[source].project
  /\ requests[source].status = "OPEN"
  /\ txn' = [txn EXCEPT ![t] = [kind |-> "merge", request |-> target, source |-> source,
                                row |-> requests[target], from |-> requests[source]]]
  /\ UNCHANGED <<status, routing, requests>>

\* The target may be merged itself. A communication that both have stays as it is; one that
\* was added to the target since is a conflict.
FinishMerge(t) ==
  /\ txn[t] # None /\ txn[t].kind = "merge"
  /\ LET i == txn[t].request
         added == txn[t].from.mail \ txn[t].row.mail
     IN requests' = IF added \cap requests[i].mail # {} THEN requests
                    ELSE [requests EXCEPT ![i].mail = @ \cup added,
                                          ![txn[t].source].status = "MERGED"]
  /\ txn' = [txn EXCEPT ![t] = None]
  /\ UNCHANGED <<status, routing>>

\* A request or a job ends without a commit.
Abandon(a) ==
  /\ txn[a] # None
  /\ txn' = [txn EXCEPT ![a] = None]
  /\ UNCHANGED <<status, routing, requests>>

-----------------------------------------------------------------------------

Next ==
  \/ \E p \in Projects : ConfirmScope(p) \/ DeleteProject(p)
  \/ \E m \in Messages, incremental \in BOOLEAN : BeginSync(m, incremental)
  \/ FinishSync
  \/ \E m \in Messages, p \in Projects : Replay(m, p)
  \/ \E p \in Projects, mail \in SUBSET Messages : CreateRequest(p, mail)
  \/ \E t \in Tabs :
       \/ \E d \in 1..MaxDecisions, p \in Projects : BeginResolve(t, d, p)
       \/ \E i, j \in 1..MaxRequests : BeginMerge(t, i, j)
       \/ FinishResolve(t) \/ FinishMerge(t)
  \/ \E a \in Actors : Abandon(a)

Spec == Init /\ [][Next]_vars

-----------------------------------------------------------------------------
(* Properties *)

\* A message that was ingested is in a project or waits for the owner in an open decision,
\* whatever conflicts and abandoned transactions came between.
NothingFallsBetween ==
  \A m \in Messages :
    event[m] # None =>
      \/ place[m] # None
      \/ \E d \in DOMAIN decisions : decisions[d].msg = m /\ decisions[d].status = "OPEN"

\* The messages of a thread are in the project the thread is assigned to, except those the
\* owner has replayed to another: two decisions on one thread never split it.
ThreadsStayTogether ==
  \A m \in Messages : place[m] # None /\ m \notin forced => assigned[ThreadOf[m]] = place[m]

\* A request has only messages of its own project, so that nobody is shown, or billed for,
\* what was said in another one: also after merges, replays and stale decisions.
RequestsKeepToTheirProject ==
  \A i \in DOMAIN requests : \A m \in requests[i].mail : place[m] = requests[i].project

\* A message, once routed, is never moved to another project, and a thread never reassigned,
\* by a sync, a decision or a replay that has not seen it.
RoutedMailStaysPut ==
  [][/\ \A m \in Messages : place[m] # None => place'[m] = place[m]
     /\ \A t \in Threads : assigned[t] # None => assigned'[t] = assigned[t]]_vars

=============================================================================

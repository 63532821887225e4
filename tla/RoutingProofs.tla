--------------------------- MODULE RoutingProofs ----------------------------
(***************************************************************************)
(* Safety of Routing for every set of projects, messages, threads and      *)
(* tabs, and every bound.                                                  *)
(*                                                                         *)
(* A transaction decides on what it has read. The proof is about what is   *)
(* still true of it at the commit: a message that was in a project is      *)
(* there still, an assigned thread is assigned as it was, and what was     *)
(* free when it was read is free or the unique key refuses the commit.     *)
(***************************************************************************)
EXTENDS Routing, SequenceTheorems, TLAPS

\* What a view says of a message that is placed, or of its thread, is still so.
Holds(m, view) ==
  /\ view.place # None => place[m] = view.place
  /\ view.assigned # None => assigned[ThreadOf[m]] = view.assigned

SyncIsSound ==
  txn[Sync] # None =>
    /\ txn[Sync].kind = "sync"
    /\ Len(decisions) < MaxDecisions
    /\ Holds(txn[Sync].msg, txn[Sync].view)

\* The decision that is being resolved stays open, for its row is locked.
ResolutionsAreSound ==
  \A t \in Tabs : Resolving(t) =>
    /\ txn[t].decision \in DOMAIN decisions
    /\ decisions[txn[t].decision].status = "OPEN"
    /\ Holds(decisions[txn[t].decision].msg, txn[t].view)

\* The mail that a merge moves is in the project of its target.
MergesAreSound ==
  \A t \in Tabs : txn[t] # None /\ txn[t].kind = "merge" =>
    /\ txn[t].request \in DOMAIN requests /\ txn[t].source \in DOMAIN requests
    /\ \A m \in txn[t].from.mail : place[m] = requests[txn[t].request].project

TabsKeepTheirKind ==
  \A t \in Tabs : txn[t] # None => txn[t].kind \in {"resolve", "merge"}

IInv ==
  /\ TypeOK
  /\ SyncIsSound /\ ResolutionsAreSound /\ MergesAreSound /\ TabsKeepTheirKind
  /\ NothingFallsBetween /\ ThreadsStayTogether /\ RequestsKeepToTheirProject

-----------------------------------------------------------------------------
(* Transactions *)

EventStatus == {None, "RECEIVED", "BLOCKED_BY_SCOPE", "MAPPED"}

\* The kind of a transaction tells its fields.
LEMMA TxnFields ==
  ASSUME TypeOK, NEW a \in Actors, txn[a] # None
  PROVE  /\ txn[a] \in Txn
         /\ txn[a].kind = "sync" => /\ txn[a].msg \in Messages
                                    /\ txn[a].view \in View
         /\ txn[a].kind = "resolve" => /\ txn[a].decision \in 1..MaxDecisions
                                       /\ txn[a].project \in Projects
                                       /\ txn[a].view \in View
         /\ txn[a].kind = "merge" => /\ txn[a].request \in 1..MaxRequests
                                     /\ txn[a].source \in 1..MaxRequests
                                     /\ txn[a].row \in RequestRow
                                     /\ txn[a].from \in RequestRow
<1>1. txn[a] \in Txn
  BY DEF TypeOK
<1> QED
  BY <1>1 DEF Txn

\* A view is of the message's place and its thread's assignment.
LEMMA ViewsAreTyped ==
  ASSUME TypeOK, NEW m \in Messages, NEW p \in Projects \cup {None}
  PROVE  /\ ViewOf(m, p) \in View
         /\ ViewOf(m, p).place = place[m] /\ ViewOf(m, p).assigned = assigned[ThreadOf[m]]
         /\ Holds(m, ViewOf(m, p))
<1>1. ThreadOf[m] \in Threads
  BY RoutingAssumption
<1>2. place[m] \in Projects \cup {None} /\ assigned[ThreadOf[m]] \in Projects \cup {None}
  BY <1>1 DEF TypeOK
<1>3. \A q \in Projects \cup {None} :
        (IF q = None THEN None ELSE status[q]) \in ProjectStatus \cup {None}
  BY DEF TypeOK
<1>4. Requested(m) \in BOOLEAN
  BY DEF Requested
<1>5. /\ ViewOf(m, p) \in View
      /\ ViewOf(m, p).place = place[m] /\ ViewOf(m, p).assigned = assigned[ThreadOf[m]]
  BY <1>2, <1>3, <1>4 DEF ViewOf, View
<1> QED
  BY <1>5 DEF Holds

-----------------------------------------------------------------------------
(* What a transaction does when it commits *)

\* m is in p now, where it was already or where it goes.
Puts(m, p) ==
  /\ m \in Messages /\ p \in Projects /\ place[m] \in {None, p}
  /\ place' = [place EXCEPT ![m] = p]
  /\ \E e \in EventStatus : event' = [event EXCEPT ![m] = e]

\* No request is made, or one of m.
MayRequest(m, p) ==
  \/ UNCHANGED requests
  \/ /\ Len(requests) < MaxRequests
     /\ requests' = Append(requests, [project |-> p, status |-> "OPEN", mail |-> {m}])

\* Routing on a view that holds puts the message in the project the view leads to.
LEMMA RoutingPuts ==
  ASSUME TypeOK, NEW m \in Messages, NEW view \in View, NEW p \in Projects,
         Holds(m, view), Free(m, view), Routed(m, view, p)
  PROVE  Puts(m, Destination(view, p))
<1>1. event[m] \in EventStatus /\ place[m] \in Projects \cup {None}
  BY DEF TypeOK, EventStatus
<1>2. \E e \in EventStatus : event' = [event EXCEPT ![m] = e]
  BY <1>1 DEF Routed, EventStatus
<1>3. view.place \in Projects \cup {None}
  BY DEF View
<1>4. Destination(view, p) \in Projects /\ place[m] \in {None, Destination(view, p)}
  BY <1>3 DEF Destination, Free, Holds
<1> QED
  BY <1>2, <1>4 DEF Puts, Routed

\* A sync leaves a decision, a conflict, or the message in the project of its thread.
LEMMA SyncCases ==
  ASSUME TypeOK, SyncIsSound, FinishSync
  PROVE  /\ txn[Sync] # None /\ txn' = [txn EXCEPT ![Sync] = None]
         /\ UNCHANGED <<status, assigned, forced>>
         /\ \/ UNCHANGED <<event, place, decisions, requests>>
            \/ \E m \in Messages :
                 /\ decisions' = Append(decisions, [msg |-> m, status |-> "OPEN",
                                                    selected |-> None])
                 /\ \E e \in EventStatus : event' = [event EXCEPT ![m] = e]
                 /\ Len(decisions) < MaxDecisions
                 /\ UNCHANGED <<place, requests>>
            \/ \E m \in Messages, p \in Projects :
                 /\ Puts(m, p) /\ MayRequest(m, p) /\ UNCHANGED decisions
                 /\ place[m] = None => assigned[ThreadOf[m]] = p
<1> DEFINE m == txn[Sync].msg
           view == txn[Sync].view
           p == Destination(view, view.assigned)
<1>1. Sync \in Actors /\ txn[Sync] # None /\ txn[Sync].kind = "sync"
  BY DEF FinishSync, SyncIsSound, Actors
<1>2. m \in Messages /\ view \in View /\ Holds(m, view) /\ Len(decisions) < MaxDecisions
  BY <1>1, TxnFields DEF SyncIsSound
<1>3. txn' = [txn EXCEPT ![Sync] = None] /\ UNCHANGED <<status, assigned, forced>>
  BY DEF FinishSync
<1>4. CASE p = None
  <2>1. /\ decisions' = Append(decisions, [msg |-> m, status |-> "OPEN", selected |-> None])
        /\ event' = [event EXCEPT ![m] = IF @ = None THEN "RECEIVED" ELSE @]
        /\ UNCHANGED <<place, requests>>
    BY <1>4 DEF FinishSync
  <2>2. event[m] \in EventStatus
    BY <1>2 DEF TypeOK, EventStatus
  <2>3. \E e \in EventStatus : event' = [event EXCEPT ![m] = e]
    BY <2>1, <2>2 DEF EventStatus
  <2> QED
    BY <1>1, <1>2, <1>3, <2>1, <2>3
<1>5. CASE p # None /\ ~Free(m, view)
  <2>1. UNCHANGED <<event, place, decisions, requests>>
    BY <1>5 DEF FinishSync
  <2> QED
    BY <1>1, <1>3, <2>1
<1>6. CASE p # None /\ Free(m, view)
  <2>1. /\ UNCHANGED decisions /\ Routed(m, view, p)
        /\ Analysed(m, view, p) \/ UNCHANGED requests
    BY <1>6 DEF FinishSync
  <2>2. view.place \in Projects \cup {None} /\ view.assigned \in Projects \cup {None}
    BY <1>2 DEF View
  <2>3. p \in Projects /\ Destination(view, p) = p
    BY <1>6, <2>2 DEF Destination
  <2>4. Puts(m, p)
    BY <1>2, <1>6, <2>1, <2>3, RoutingPuts
  <2>5. MayRequest(m, p)
    BY <2>1 DEF Analysed, MayRequest
  <2>6. place[m] = None => assigned[ThreadOf[m]] = p
    BY <1>2, <1>6, <2>2, <2>3, RoutingAssumption DEF Destination, Holds
  <2> QED
    BY <1>1, <1>2, <1>3, <2>1, <2>3, <2>4, <2>5, <2>6
<1> QED
  BY <1>4, <1>5, <1>6

\* The decision on m assigns its thread to p; m is in q.
Resolves(d, m, p, q) ==
  /\ d \in DOMAIN decisions /\ m = decisions[d].msg
  /\ Puts(m, q) /\ MayRequest(m, q)
  /\ place[m] = None => q = p
  /\ assigned[ThreadOf[m]] \in {None, p}
  /\ assigned' = [assigned EXCEPT ![ThreadOf[m]] = p]
  /\ decisions' = [decisions EXCEPT ![d].status = "RESOLVED", ![d].selected = p]

\* A resolution is a conflict, or it assigns the thread, puts the message there unless it is
\* somewhere already, and closes its decision.
LEMMA ResolveCases ==
  ASSUME TypeOK, ResolutionsAreSound, NEW t \in Tabs, FinishResolve(t)
  PROVE  /\ Resolving(t) /\ txn' = [txn EXCEPT ![t] = None]
         /\ UNCHANGED <<status, forced>>
         /\ \/ UNCHANGED <<event, place, assigned, decisions, requests>>
            \/ \E m \in Messages, p, q \in Projects : Resolves(txn[t].decision, m, p, q)
<1> DEFINE d == txn[t].decision
           p == txn[t].project
           view == txn[t].view
           m == decisions[d].msg
           q == Destination(view, p)
           ok == Agreed(ThreadOf[m], view, p) /\ Free(m, view)
<1>1. t \in Actors /\ Resolving(t) /\ txn[t] # None /\ txn[t].kind = "resolve"
  BY DEF FinishResolve, Resolving, Actors
<1>2. p \in Projects /\ view \in View
  BY <1>1, TxnFields
<1>3. d \in DOMAIN decisions /\ Holds(m, view)
  BY <1>1 DEF ResolutionsAreSound
<1>4. m \in Messages
  <2>1. decisions[d] \in Decision
    BY <1>3, ElementOfSeq DEF TypeOK
  <2> QED
    BY <2>1 DEF Decision
<1>5. txn' = [txn EXCEPT ![t] = None] /\ UNCHANGED <<status, forced>>
  BY DEF FinishResolve
<1>6. CASE ~ok
  <2>1. UNCHANGED <<event, place, assigned, decisions, requests>>
    BY <1>6 DEF FinishResolve, Settled
  <2> QED
    BY <1>1, <1>5, <2>1
<1>7. CASE ok
  <2>1. /\ decisions' = [decisions EXCEPT ![d].status = "RESOLVED", ![d].selected = p]
        /\ assigned' = [assigned EXCEPT ![ThreadOf[m]] = p]
        /\ Routed(m, view, p) /\ Analysed(m, view, q)
    BY <1>7 DEF FinishResolve, Settled, Home
  <2>2. Puts(m, q)
    BY <1>2, <1>3, <1>4, <1>7, <2>1, RoutingPuts
  <2>3. MayRequest(m, q)
    BY <2>1 DEF Analysed, MayRequest
  <2>4. assigned[ThreadOf[m]] \in {None, p}
    BY <1>3, <1>7 DEF Agreed, Holds
  <2>5. q \in Projects /\ (place[m] = None => q = p)
    <3>1. view.place \in Projects \cup {None}
      BY <1>2 DEF View
    <3> QED
      BY <1>2, <1>3, <3>1, RoutingAssumption DEF Destination, Holds
  <2>6. Resolves(d, m, p, q)
    BY <1>3, <2>1, <2>2, <2>3, <2>4, <2>5 DEF Resolves
  <2> HIDE DEF d, p, view, m, q
  <2> QED
    BY <1>1, <1>4, <1>2, <1>5, <2>5, <2>6 DEF d
<1> QED
  BY <1>6, <1>7

\* A replay puts a message that is nowhere.
LEMMA ReplayPuts ==
  ASSUME TypeOK, NEW m \in Messages, NEW p \in Projects, Replay(m, p)
  PROVE  Puts(m, p) /\ place[m] = None
<1>1. ViewOf(m, p) \in View /\ Holds(m, ViewOf(m, p)) /\ ViewOf(m, p).place = place[m]
  BY ViewsAreTyped
<1>2. Free(m, ViewOf(m, p)) /\ Destination(ViewOf(m, p), p) = p
  BY <1>1 DEF Replay, Free, Destination
<1> QED
  BY <1>1, <1>2, RoutingPuts DEF Replay

-----------------------------------------------------------------------------
(* What no step undoes *)

Stays ==
  /\ \A m \in Messages : place[m] # None => place'[m] = place[m]
  /\ \A t \in Threads : assigned[t] # None => assigned'[t] = assigned[t]

\* Putting a message moves no other, and not one that is somewhere.
LEMMA PutsStays ==
  ASSUME TypeOK, NEW m \in Messages, NEW p \in Projects, Puts(m, p)
  PROVE  /\ \A n \in Messages : place'[n] = IF n = m THEN p ELSE place[n]
         /\ \A n \in Messages : place[n] # None => place'[n] = place[n]
BY DEF TypeOK, Puts

\* Whatever commits, routed mail and assigned threads stay.
LEMMA StaysStep ==
  ASSUME TypeOK, SyncIsSound, ResolutionsAreSound, [Next]_vars
  PROVE  Stays
<1>1. CASE UNCHANGED <<place, assigned>>
  BY <1>1 DEF Stays
<1>2. CASE FinishSync
  BY <1>2, SyncCases, PutsStays DEF Stays
<1>3. ASSUME NEW t \in Tabs, FinishResolve(t) PROVE Stays
  <2>1. CASE UNCHANGED <<place, assigned>>
    BY <2>1 DEF Stays
  <2>2. ASSUME NEW m \in Messages, NEW p \in Projects, NEW q \in Projects, Puts(m, q),
               assigned[ThreadOf[m]] \in {None, p},
               assigned' = [assigned EXCEPT ![ThreadOf[m]] = p]
        PROVE  Stays
    <3>1. \A n \in Messages : place[n] # None => place'[n] = place[n]
      BY <2>2, PutsStays
    <3>2. \A u \in Threads : assigned[u] # None => assigned'[u] = assigned[u]
      BY <2>2 DEF TypeOK
    <3> QED
      BY <3>1, <3>2 DEF Stays
  <2> QED
    BY <1>3, <2>1, <2>2, ResolveCases DEF Resolves
<1>4. ASSUME NEW m \in Messages, NEW p \in Projects, Replay(m, p) PROVE Stays
  <2>1. UNCHANGED assigned
    BY <1>4 DEF Replay
  <2> QED
    BY <1>4, <2>1, ReplayPuts, PutsStays DEF Stays
<1> QED
  BY <1>1, <1>2, <1>3, <1>4
  DEF Next, vars, routing, ConfirmScope, DeleteProject, BeginSync, BeginResolve, BeginMerge,
      FinishMerge, CreateRequest, Abandon

\* ... so that what a view says stays true.
LEMMA ViewsStayTrue ==
  ASSUME Stays, NEW m \in Messages, NEW view, Holds(m, view)
  PROVE  Holds(m, view)'
<1>1. ThreadOf[m] \in Threads
  BY RoutingAssumption
<1>2. Holds(m, view)' <=> /\ view.place # None => place'[m] = view.place
                          /\ view.assigned # None => assigned'[ThreadOf[m]] = view.assigned
  BY DEF Holds
<1> QED
  BY <1>1, <1>2 DEF Stays, Holds

-----------------------------------------------------------------------------
(* Types *)

\* A merge that succeeds leaves rows that differ in their mail and status only.
LEMMA MergeRows ==
  ASSUME TypeOK, MergesAreSound, NEW t \in Tabs, FinishMerge(t)
  PROVE  /\ requests' \in Seq(RequestRow) /\ Len(requests') = Len(requests)
         /\ DOMAIN requests' = DOMAIN requests
         /\ \A i \in DOMAIN requests :
              /\ requests'[i].project = requests[i].project
              /\ requests'[i].mail \subseteq
                   requests[i].mail \cup (IF i = txn[t].request THEN txn[t].from.mail ELSE {})
<1> DEFINE i == txn[t].request
           j == txn[t].source
           added == txn[t].from.mail \ txn[t].row.mail
           target == [requests[i] EXCEPT !.mail = @ \cup added]
           merged == [requests EXCEPT ![i].mail = @ \cup added, ![j].status = "MERGED"]
<1>1. /\ t \in Actors /\ txn[t] # None /\ txn[t].kind = "merge"
      /\ requests' = requests \/ requests' = merged
  BY DEF FinishMerge, Actors
<1>2. i \in DOMAIN requests /\ j \in DOMAIN requests
  BY <1>1 DEF MergesAreSound
<1>3. txn[t].from \in RequestRow /\ txn[t].from.mail \subseteq Messages
  BY <1>1, TxnFields DEF RequestRow
<1>4. requests \in Seq(RequestRow) /\ DOMAIN requests = 1..Len(requests) /\ Len(requests) \in Nat
  BY DEF TypeOK
<1>5. \A k \in DOMAIN requests : requests[k] \in RequestRow
  BY <1>4, ElementOfSeq
<1>6. CASE requests' = requests
  BY <1>4, <1>6
<1>7. CASE requests' = merged
  <2>1. DOMAIN requests' = DOMAIN requests
    BY <1>7
  <2>2. \A k \in DOMAIN requests :
          /\ requests'[k] \in RequestRow
          /\ requests'[k].project = requests[k].project
          /\ requests'[k].mail \subseteq
               requests[k].mail \cup (IF k = i THEN txn[t].from.mail ELSE {})
    <3> SUFFICES ASSUME NEW k \in DOMAIN requests
                 PROVE  /\ requests'[k] \in RequestRow
                        /\ requests'[k].project = requests[k].project
                        /\ requests'[k].mail \subseteq
                             requests[k].mail \cup (IF k = i THEN txn[t].from.mail ELSE {})
      OBVIOUS
    <3> DEFINE mail == IF k = i THEN requests[k].mail \cup added ELSE requests[k].mail
               state == IF k = j THEN "MERGED" ELSE requests[k].status
    <3>1. requests[k] \in RequestRow
      BY <1>5
    <3>2. requests'[k] = [project |-> requests[k].project, status |-> state, mail |-> mail]
      BY <1>2, <1>7, <3>1 DEF RequestRow
    <3>3. mail \subseteq Messages /\ state \in {"OPEN", "MERGED"}
      BY <1>3, <3>1 DEF RequestRow
    <3>4. requests[k].project \in Projects
      BY <3>1 DEF RequestRow
    <3>5. mail \subseteq requests[k].mail \cup (IF k = i THEN txn[t].from.mail ELSE {})
      OBVIOUS
    <3> HIDE DEF mail, state
    <3> QED
      BY <3>2, <3>3, <3>4, <3>5 DEF RequestRow
  <2>3. requests' \in Seq(RequestRow) /\ Len(requests') = Len(requests)
    <3>1. requests' = [k \in 1..Len(requests) |-> requests'[k]]
      BY <1>4, <1>7
    <3> QED
      BY <1>4, <2>2, <3>1
  <2> QED
    BY <2>1, <2>2, <2>3
<1> QED
  BY <1>1, <1>6, <1>7

\* What a transaction that ends leaves of the types and the locks of the others.
LEMMA EndKeepsTxns ==
  ASSUME TypeOK, NEW a \in Actors, txn' = [txn EXCEPT ![a] = None], txn[a] # None
  PROVE  /\ txn' \in [Actors -> Txn \cup {None}]
         /\ \A b \in Actors : txn'[b] # None => b # a /\ txn'[b] = txn[b]
         /\ \A t, u \in Tabs : t # u /\ Resolving(t)' /\ Resolving(u)'
                               => txn'[t].decision # txn'[u].decision
<1>1. txn' \in [Actors -> Txn \cup {None}]
  BY DEF TypeOK
<1>2. \A b \in Actors : txn'[b] # None => b # a /\ txn'[b] = txn[b]
  BY DEF TypeOK
<1>3. \A t \in Tabs : Resolving(t)' => Resolving(t) /\ txn'[t] = txn[t]
  BY <1>2 DEF Resolving, Actors
<1> QED
  BY <1>1, <1>2, <1>3 DEF TypeOK

\* A message that is put somewhere keeps the types.
LEMMA PutsTypes ==
  ASSUME TypeOK, NEW m \in Messages, NEW p \in Projects, Puts(m, p), MayRequest(m, p)
  PROVE  /\ event' \in [Messages -> EventStatus]
         /\ place' \in [Messages -> Projects \cup {None}]
         /\ requests' \in Seq(RequestRow) /\ Len(requests') <= MaxRequests
<1>1. /\ event' \in [Messages -> EventStatus] /\ place' \in [Messages -> Projects \cup {None}]
  BY DEF Puts, TypeOK, EventStatus
<1> DEFINE row == [project |-> p, status |-> "OPEN", mail |-> {m}]
<1>2. row \in RequestRow
  BY DEF RequestRow
<1>3. requests' \in Seq(RequestRow) /\ Len(requests') <= MaxRequests
  <2>1. \/ requests' = requests
        \/ Len(requests) < MaxRequests /\ requests' = Append(requests, row)
    BY DEF MayRequest
  <2>2. /\ requests \in Seq(RequestRow) /\ Len(requests) \in Nat
        /\ Len(requests) <= MaxRequests /\ MaxRequests \in Nat
    BY RoutingAssumption DEF TypeOK
  <2> HIDE DEF row
  <2>3. /\ Append(requests, row) \in Seq(RequestRow)
        /\ Len(Append(requests, row)) = Len(requests) + 1
    BY <1>2, <2>2, AppendProperties
  <2>4. CASE requests' = requests
    BY <2>2, <2>4
  <2>5. CASE Len(requests) < MaxRequests /\ requests' = Append(requests, row)
    BY <2>2, <2>3, <2>5
  <2> QED
    BY <2>1, <2>4, <2>5
<1> QED
  BY <1>1, <1>3

\* ... and so does forced, as long as nothing is taken from where it is.
LEMMA ForcedStays ==
  ASSUME TypeOK, Stays, UNCHANGED forced
  PROVE  forced' \subseteq {m \in Messages : place'[m] # None}
BY DEF TypeOK, Stays

RowsAreTyped ==
  /\ event \in [Messages -> EventStatus]
  /\ place \in [Messages -> Projects \cup {None}]
  /\ assigned \in [Threads -> Projects \cup {None}]
  /\ decisions \in Seq(Decision) /\ Len(decisions) <= MaxDecisions
  /\ requests \in Seq(RequestRow) /\ Len(requests) <= MaxRequests

\* Every step keeps the types; no two tabs resolve one decision.
LEMMA TypeStep ==
  ASSUME TypeOK, SyncIsSound, ResolutionsAreSound, MergesAreSound, [Next]_vars
  PROVE  TypeOK'
<1>0. Stays
  BY StaysStep
<1>1. CASE UNCHANGED vars
  BY <1>1 DEF TypeOK, vars, routing, Resolving
<1>2. ASSUME NEW p \in Projects, ConfirmScope(p) \/ DeleteProject(p)
      PROVE  TypeOK'
  BY <1>2 DEF TypeOK, ConfirmScope, DeleteProject, routing, ProjectStatus, Resolving
<1>3. ASSUME NEW m \in Messages, NEW incremental \in BOOLEAN, BeginSync(m, incremental)
      PROVE  TypeOK'
  <2> DEFINE new == [kind |-> "sync", msg |-> m, incremental |-> incremental,
                     view |-> ViewOf(m, None)]
  <2>1. new \in Txn
    BY ViewsAreTyped DEF Txn
  <2>2. txn' \in [Actors -> Txn \cup {None}] /\ \A t \in Tabs : txn'[t] = txn[t]
    <3>1. txn' = [txn EXCEPT ![Sync] = new]
      BY <1>3 DEF BeginSync
    <3> HIDE DEF new
    <3> QED
      BY <2>1, <3>1, RoutingAssumption DEF TypeOK, Actors
  <2>3. UNCHANGED <<status, event, place, assigned, decisions, forced, requests>>
    BY <1>3 DEF BeginSync, routing
  <2> QED
    BY <2>2, <2>3 DEF TypeOK, Resolving
<1>4. CASE FinishSync
  <2>1. Sync \in Actors /\ txn[Sync] # None
    BY <1>4 DEF FinishSync, Actors
  <2>2. txn' = [txn EXCEPT ![Sync] = None] /\ UNCHANGED <<status, assigned, forced>>
    BY <1>4, SyncCases
  <2>3. /\ txn' \in [Actors -> Txn \cup {None}]
        /\ \A t, u \in Tabs : t # u /\ Resolving(t)' /\ Resolving(u)'
                              => txn'[t].decision # txn'[u].decision
    BY <2>1, <2>2, EndKeepsTxns
  <2>4. RowsAreTyped'
    <3>1. CASE UNCHANGED <<event, place, decisions, requests>>
      BY <2>2, <3>1 DEF TypeOK, EventStatus, RowsAreTyped
    <3>2. ASSUME NEW m \in Messages, Len(decisions) < MaxDecisions,
                 decisions' = Append(decisions, [msg |-> m, status |-> "OPEN",
                                                 selected |-> None]),
                 \E e \in EventStatus : event' = [event EXCEPT ![m] = e],
                 UNCHANGED <<place, requests>>
          PROVE  RowsAreTyped'
      <4>1. [msg |-> m, status |-> "OPEN", selected |-> None] \in Decision
        BY DEF Decision
      <4>2. decisions' \in Seq(Decision) /\ Len(decisions') <= MaxDecisions
        BY <3>2, <4>1, RoutingAssumption DEF TypeOK
      <4>3. event' \in [Messages -> EventStatus]
        BY <3>2 DEF TypeOK, EventStatus
      <4> QED
        BY <2>2, <3>2, <4>2, <4>3 DEF TypeOK, RowsAreTyped
    <3>3. ASSUME NEW m \in Messages, NEW p \in Projects, Puts(m, p), MayRequest(m, p),
                 UNCHANGED decisions
          PROVE  RowsAreTyped'
      BY <2>2, <3>3, PutsTypes DEF TypeOK, RowsAreTyped
    <3> QED
      BY <1>4, <3>1, <3>2, <3>3, SyncCases
  <2> QED
    BY <1>0, <2>2, <2>3, <2>4, ForcedStays DEF TypeOK, EventStatus, RowsAreTyped
<1>5. ASSUME NEW t \in Tabs, NEW d \in 1..MaxDecisions, NEW p \in Projects,
             BeginResolve(t, d, p)
      PROVE  TypeOK'
  <2> DEFINE new == [kind |-> "resolve", decision |-> d, project |-> p,
                     view |-> ViewOf(decisions[d].msg, p)]
  <2>1. t \in Actors /\ decisions[d].msg \in Messages /\ ~LockedDecision(d)
    <3>1. decisions[d] \in Decision
      BY <1>5, ElementOfSeq DEF BeginResolve, TypeOK
    <3> QED
      BY <1>5, <3>1 DEF BeginResolve, Decision, Actors
  <2>2. new \in Txn
    BY <2>1, ViewsAreTyped DEF Txn
  <2>3. txn' = [txn EXCEPT ![t] = new]
    BY <1>5 DEF BeginResolve
  <2>4. new.decision = d
    OBVIOUS
  <2> HIDE DEF new
  <2>5. txn' \in [Actors -> Txn \cup {None}]
    BY <2>2, <2>3 DEF TypeOK
  <2>6. \A u \in Tabs : IF u = t THEN txn'[u].decision = d ELSE txn'[u] = txn[u]
    BY <2>1, <2>3, <2>4 DEF TypeOK, Actors
  <2>7. \A u, v \in Tabs : u # v /\ Resolving(u)' /\ Resolving(v)'
                           => txn'[u].decision # txn'[v].decision
    <3>1. \A u \in Tabs : Resolving(u) => txn[u].decision # d
      BY <2>1 DEF LockedDecision
    <3>2. \A u \in Tabs \ {t} : Resolving(u)' => Resolving(u)
      BY <2>6 DEF Resolving
    <3> QED
      BY <2>6, <3>1, <3>2 DEF TypeOK
  <2>8. UNCHANGED <<status, event, place, assigned, decisions, forced, requests>>
    BY <1>5 DEF BeginResolve, routing
  <2> QED
    BY <2>5, <2>7, <2>8 DEF TypeOK
<1>6. ASSUME NEW t \in Tabs, FinishResolve(t) PROVE TypeOK'
  <2>1. t \in Actors /\ txn[t] # None
    BY <1>6 DEF FinishResolve, Resolving, Actors
  <2>2. txn' = [txn EXCEPT ![t] = None] /\ UNCHANGED <<status, forced>>
    BY <1>6, ResolveCases
  <2>3. /\ txn' \in [Actors -> Txn \cup {None}]
        /\ \A u, v \in Tabs : u # v /\ Resolving(u)' /\ Resolving(v)'
                              => txn'[u].decision # txn'[v].decision
    BY <2>1, <2>2, EndKeepsTxns
  <2>4. RowsAreTyped'
    <3>1. CASE UNCHANGED <<event, place, assigned, decisions, requests>>
      BY <3>1 DEF TypeOK, EventStatus, RowsAreTyped
    <3>2. ASSUME NEW m \in Messages, NEW p \in Projects, NEW q \in Projects,
                 NEW d \in DOMAIN decisions, Puts(m, q), MayRequest(m, q),
                 assigned' = [assigned EXCEPT ![ThreadOf[m]] = p],
                 decisions' = [decisions EXCEPT ![d].status = "RESOLVED", ![d].selected = p]
          PROVE  RowsAreTyped'
      <4>1. assigned' \in [Threads -> Projects \cup {None}]
        BY <3>2 DEF TypeOK
      <4>2. /\ decisions \in Seq(Decision) /\ decisions[d] \in Decision
            /\ DOMAIN decisions = 1..Len(decisions) /\ Len(decisions) \in Nat
            /\ Len(decisions) <= MaxDecisions
        BY ElementOfSeq DEF TypeOK
      <4>3. decisions'[d] = [msg |-> decisions[d].msg, status |-> "RESOLVED", selected |-> p]
        BY <3>2, <4>2 DEF Decision
      <4>4. decisions'[d] \in Decision
        BY <4>2, <4>3 DEF Decision
      <4>5. \A k \in DOMAIN decisions : decisions'[k] \in Decision
        <5>1. \A k \in DOMAIN decisions : decisions[k] \in Decision
          BY <4>2, ElementOfSeq
        <5>2. \A k \in DOMAIN decisions : k # d => decisions'[k] = decisions[k]
          BY <3>2
        <5> QED
          BY <4>4, <5>1, <5>2
      <4>6. decisions' = [k \in 1..Len(decisions) |-> decisions'[k]]
        BY <3>2, <4>2
      <4>7. decisions' \in Seq(Decision) /\ Len(decisions') = Len(decisions)
        BY <4>2, <4>5, <4>6
      <4> QED
        BY <3>2, <4>1, <4>2, <4>7, PutsTypes DEF RowsAreTyped
    <3> QED
      BY <1>6, <3>1, <3>2, ResolveCases DEF Resolves
  <2> QED
    BY <1>0, <2>2, <2>3, <2>4, ForcedStays DEF TypeOK, EventStatus, RowsAreTyped
<1>7. ASSUME NEW m \in Messages, NEW p \in Projects, Replay(m, p) PROVE TypeOK'
  <2>1. Puts(m, p) /\ place[m] = None
    BY <1>7, ReplayPuts
  <2>2. UNCHANGED <<status, assigned, decisions, requests, txn>> /\ forced' = forced \cup {m}
    BY <1>7 DEF Replay
  <2>3. event' \in [Messages -> EventStatus] /\ place' \in [Messages -> Projects \cup {None}]
    BY <2>1, <2>2, PutsTypes DEF MayRequest
  <2>4. forced' \subseteq {n \in Messages : place'[n] # None}
    BY <2>1, <2>2, PutsStays, RoutingAssumption DEF TypeOK
  <2> QED
    BY <2>2, <2>3, <2>4 DEF TypeOK, EventStatus, Resolving
<1>8. ASSUME NEW p \in Projects, NEW mail \in SUBSET Messages, CreateRequest(p, mail)
      PROVE  TypeOK'
  <2>1. [project |-> p, status |-> "OPEN", mail |-> mail] \in RequestRow
    BY DEF RequestRow
  <2>2. requests' \in Seq(RequestRow) /\ Len(requests') <= MaxRequests
    BY <1>8, <2>1, RoutingAssumption DEF CreateRequest, TypeOK
  <2> QED
    BY <1>8, <2>2 DEF CreateRequest, TypeOK, routing, Resolving
<1>9. ASSUME NEW t \in Tabs, NEW i \in 1..MaxRequests, NEW j \in 1..MaxRequests,
             BeginMerge(t, i, j)
      PROVE  TypeOK'
  <2> DEFINE new == [kind |-> "merge", request |-> i, source |-> j,
                     row |-> requests[i], from |-> requests[j]]
  <2>1. t \in Actors /\ new \in Txn
    <3>1. requests[i] \in RequestRow /\ requests[j] \in RequestRow
      BY <1>9, ElementOfSeq DEF BeginMerge, TypeOK
    <3> QED
      BY <3>1 DEF Txn, Actors
  <2>2. txn' = [txn EXCEPT ![t] = new]
    BY <1>9 DEF BeginMerge
  <2>3. new.kind # "resolve"
    OBVIOUS
  <2> HIDE DEF new
  <2>4. txn' \in [Actors -> Txn \cup {None}]
    BY <2>1, <2>2 DEF TypeOK
  <2>5. \A u \in Tabs : Resolving(u)' => Resolving(u) /\ txn'[u] = txn[u]
    BY <2>1, <2>2, <2>3 DEF Resolving, TypeOK, Actors
  <2>6. UNCHANGED <<status, event, place, assigned, decisions, forced, requests>>
    BY <1>9 DEF BeginMerge, routing
  <2> QED
    BY <2>4, <2>5, <2>6 DEF TypeOK
<1>10. ASSUME NEW t \in Tabs, FinishMerge(t) PROVE TypeOK'
  <2>1. t \in Actors /\ txn[t] # None /\ txn' = [txn EXCEPT ![t] = None]
    BY <1>10 DEF FinishMerge, Actors
  <2>2. UNCHANGED <<status, event, place, assigned, decisions, forced>>
    BY <1>10 DEF FinishMerge, routing
  <2> QED
    BY <1>10, <2>1, <2>2, MergeRows, EndKeepsTxns DEF TypeOK
<1>11. ASSUME NEW a \in Actors, Abandon(a) PROVE TypeOK'
  <2>1. UNCHANGED <<status, event, place, assigned, decisions, forced, requests>>
    BY <1>11 DEF Abandon, routing
  <2>2. txn[a] # None /\ txn' = [txn EXCEPT ![a] = None]
    BY <1>11 DEF Abandon
  <2> QED
    BY <2>1, <2>2, EndKeepsTxns DEF TypeOK
<1> QED
  BY <1>1, <1>2, <1>3, <1>4, <1>5, <1>6, <1>7, <1>8, <1>9, <1>10, <1>11 DEF Next

-----------------------------------------------------------------------------
(* Decisions and events *)

\* Decisions keep their message and are closed only when it is placed.
LEMMA DecisionsStep ==
  ASSUME TypeOK, SyncIsSound, ResolutionsAreSound, [Next]_vars, NEW d \in DOMAIN decisions
  PROVE  /\ d \in DOMAIN decisions' /\ decisions'[d].msg = decisions[d].msg
         /\ \/ decisions'[d] = decisions[d]
            \/ /\ place'[decisions[d].msg] # None
               /\ \E t \in Tabs : /\ Resolving(t) /\ txn[t].decision = d
                                  /\ txn' = [txn EXCEPT ![t] = None]
<1>1. CASE UNCHANGED decisions
  BY <1>1
<1>2. CASE FinishSync
  <2>1. ASSUME NEW m \in Messages,
               decisions' = Append(decisions, [msg |-> m, status |-> "OPEN",
                                               selected |-> None])
        PROVE  d \in DOMAIN decisions' /\ decisions'[d] = decisions[d]
    <3> DEFINE row == [msg |-> m, status |-> "OPEN", selected |-> None]
    <3>1. row \in Decision /\ decisions \in Seq(Decision) /\ d \in 1..Len(decisions)
      BY DEF Decision, TypeOK
    <3> HIDE DEF row
    <3>2. decisions' = Append(decisions, row)
      BY <2>1 DEF row
    <3> QED
      BY <3>1, <3>2
  <2> QED
    BY <1>1, <1>2, <2>1, SyncCases
<1>3. ASSUME NEW t \in Tabs, FinishResolve(t), ~UNCHANGED decisions
      PROVE  /\ d \in DOMAIN decisions' /\ decisions'[d].msg = decisions[d].msg
             /\ \/ decisions'[d] = decisions[d]
                \/ /\ place'[decisions[d].msg] # None
                   /\ Resolving(t) /\ txn[t].decision = d
                   /\ txn' = [txn EXCEPT ![t] = None]
  <2>1. PICK m \in Messages, p \in Projects, q \in Projects : Resolves(txn[t].decision, m, p, q)
    BY <1>3, ResolveCases
  <2>2. Resolving(t) /\ txn' = [txn EXCEPT ![t] = None]
    BY <1>3, ResolveCases
  <2>3. place'[m] = q /\ q # None
    BY <2>1, PutsStays, RoutingAssumption DEF Resolves
  <2>4. decisions[d] \in Decision
    BY ElementOfSeq DEF TypeOK
  <2>5. d \in DOMAIN decisions' /\ decisions'[d].msg = decisions[d].msg
    BY <2>1, <2>4 DEF Decision, Resolves
  <2>6. txn[t].decision # d => decisions'[d] = decisions[d]
    BY <2>1 DEF Resolves
  <2>7. txn[t].decision = d => decisions[d].msg = m
    BY <2>1 DEF Resolves
  <2> QED
    BY <2>2, <2>3, <2>5, <2>6, <2>7
<1> QED
  BY <1>1, <1>2, <1>3
  DEF Next, vars, routing, ConfirmScope, DeleteProject, BeginSync, BeginResolve, BeginMerge,
      FinishMerge, CreateRequest, Abandon, Replay

\* Only a sync adds a decision, and then it ends.
LEMMA DecisionsGrow ==
  ASSUME TypeOK, SyncIsSound, ResolutionsAreSound, [Next]_vars
  PROVE  Len(decisions') = Len(decisions) \/ txn' = [txn EXCEPT ![Sync] = None]
<1>1. CASE FinishSync
  BY <1>1, SyncCases
<1>2. ASSUME NEW t \in Tabs, FinishResolve(t) PROVE Len(decisions') = Len(decisions)
  <2>1. decisions \in Seq(Decision)
    BY DEF TypeOK
  <2>2. ASSUME NEW d \in DOMAIN decisions, NEW p,
               decisions' = [decisions EXCEPT ![d].status = "RESOLVED", ![d].selected = p]
        PROVE  Len(decisions') = Len(decisions)
    BY <2>1, <2>2
  <2> QED
    BY <1>2, <2>2, ResolveCases DEF Resolves
<1>3. CASE UNCHANGED decisions
  BY <1>3
<1> QED
  BY <1>1, <1>2, <1>3
  DEF Next, vars, routing, ConfirmScope, DeleteProject, BeginSync, BeginResolve, BeginMerge,
      FinishMerge, CreateRequest, Abandon, Replay

\* A message whose event changes is placed, or waits in a new decision.
LEMMA EventStep ==
  ASSUME TypeOK, SyncIsSound, ResolutionsAreSound, [Next]_vars, NEW m \in Messages,
         event'[m] # event[m]
  PROVE  \/ place'[m] # None
         \/ \E d \in DOMAIN decisions' : decisions'[d].msg = m /\ decisions'[d].status = "OPEN"
<1>1. ASSUME NEW n \in Messages, NEW p \in Projects, Puts(n, p)
      PROVE  place'[m] # None
  <2>1. m = n
    BY <1>1 DEF Puts, TypeOK
  <2> QED
    BY <1>1, <2>1, PutsStays, RoutingAssumption
<1>2. CASE FinishSync
  <2>1. ASSUME NEW n \in Messages, \E e \in EventStatus : event' = [event EXCEPT ![n] = e],
               decisions' = Append(decisions, [msg |-> n, status |-> "OPEN",
                                               selected |-> None])
        PROVE  \E d \in DOMAIN decisions' :
                 decisions'[d].msg = m /\ decisions'[d].status = "OPEN"
    <3> DEFINE row == [msg |-> n, status |-> "OPEN", selected |-> None]
    <3>1. m = n
      BY <2>1 DEF TypeOK
    <3>2. row \in Decision /\ row.msg = m /\ row.status = "OPEN" /\ decisions \in Seq(Decision)
      BY <3>1 DEF Decision, TypeOK
    <3>3. decisions' = Append(decisions, row)
      BY <2>1
    <3> HIDE DEF row
    <3>4. /\ Len(decisions) + 1 \in DOMAIN decisions'
          /\ decisions'[Len(decisions) + 1] = row
      BY <3>2, <3>3
    <3> QED
      BY <3>2, <3>4
  <2> QED
    BY <1>1, <1>2, <2>1, SyncCases
<1>3. ASSUME NEW t \in Tabs, FinishResolve(t)
      PROVE  place'[m] # None
  BY <1>1, <1>3, ResolveCases DEF Resolves
<1>4. ASSUME NEW n \in Messages, NEW p \in Projects, Replay(n, p)
      PROVE  place'[m] # None
  BY <1>1, <1>4, ReplayPuts
<1> QED
  BY <1>2, <1>3, <1>4
  DEF Next, vars, routing, ConfirmScope, DeleteProject, BeginSync, BeginResolve, BeginMerge,
      FinishMerge, CreateRequest, Abandon

\* Nothing falls between a project and the owner's open decisions.
LEMMA NothingFallsStep ==
  ASSUME TypeOK, SyncIsSound, ResolutionsAreSound, NothingFallsBetween, [Next]_vars
  PROVE  NothingFallsBetween'
<1> SUFFICES ASSUME NEW m \in Messages, event'[m] # None
             PROVE  \/ place'[m] # None
                    \/ \E d \in DOMAIN decisions' :
                         decisions'[d].msg = m /\ decisions'[d].status = "OPEN"
  BY DEF NothingFallsBetween
<1>1. CASE event'[m] # event[m]
  BY <1>1, EventStep
<1>2. CASE place[m] # None
  BY <1>2, StaysStep DEF Stays
<1>3. ASSUME NEW d \in DOMAIN decisions, decisions[d].msg = m, decisions[d].status = "OPEN"
      PROVE  \/ place'[m] # None
             \/ d \in DOMAIN decisions' /\ decisions'[d].msg = m /\ decisions'[d].status = "OPEN"
  BY <1>3, DecisionsStep
<1> QED
  BY <1>1, <1>2, <1>3 DEF NothingFallsBetween

\* The messages of a thread stay together.
LEMMA ThreadsStep ==
  ASSUME TypeOK, SyncIsSound, ResolutionsAreSound, ThreadsStayTogether, [Next]_vars
  PROVE  ThreadsStayTogether'
<1> USE RoutingAssumption
<1>1. CASE UNCHANGED <<place, assigned, forced>>
  BY <1>1 DEF ThreadsStayTogether
<1>2. CASE FinishSync
  <2>1. UNCHANGED <<assigned, forced>>
    BY <1>2, SyncCases
  <2>2. ASSUME NEW m \in Messages, NEW p \in Projects, Puts(m, p),
               place[m] = None => assigned[ThreadOf[m]] = p
        PROVE  ThreadsStayTogether'
    <3>1. \A n \in Messages : place'[n] = IF n = m THEN p ELSE place[n]
      BY <2>2, PutsStays
    <3> QED
      BY <2>1, <2>2, <3>1 DEF ThreadsStayTogether, Puts
  <2> QED
    BY <1>1, <1>2, <2>1, <2>2, SyncCases
<1>3. ASSUME NEW t \in Tabs, FinishResolve(t) PROVE ThreadsStayTogether'
  <2>1. UNCHANGED forced
    BY <1>3, ResolveCases
  <2>2. ASSUME NEW m \in Messages, NEW p \in Projects, NEW q \in Projects, Puts(m, q),
               place[m] = None => q = p,
               assigned[ThreadOf[m]] \in {None, p},
               assigned' = [assigned EXCEPT ![ThreadOf[m]] = p]
        PROVE  ThreadsStayTogether'
    <3>1. \A n \in Messages : place'[n] = IF n = m THEN q ELSE place[n]
      BY <2>2, PutsStays
    <3>2. \A n \in Messages :
            assigned'[ThreadOf[n]] = IF ThreadOf[n] = ThreadOf[m] THEN p
                                     ELSE assigned[ThreadOf[n]]
      BY <2>2 DEF TypeOK
    <3>3. place[m] \in {None, q}
      BY <2>2 DEF Puts
    <3>4. ASSUME NEW n \in Messages, place'[n] # None, n \notin forced
          PROVE  assigned'[ThreadOf[n]] = place'[n]
      <4>1. CASE place[n] = None
        BY <2>2, <3>1, <3>2, <3>4, <4>1
      <4>2. CASE place[n] # None
        <5>1. place'[n] = place[n] /\ assigned[ThreadOf[n]] = place[n]
          BY <3>1, <3>3, <3>4, <4>2 DEF ThreadsStayTogether
        <5> QED
          BY <2>2, <3>2, <4>2, <5>1
      <4> QED
        BY <4>1, <4>2
    <3> QED
      BY <2>1, <3>4 DEF ThreadsStayTogether
  <2> QED
    BY <1>1, <1>3, <2>1, <2>2, ResolveCases DEF Resolves
<1>4. ASSUME NEW m \in Messages, NEW p \in Projects, Replay(m, p)
      PROVE  ThreadsStayTogether'
  <2>1. UNCHANGED assigned /\ forced' = forced \cup {m}
    BY <1>4 DEF Replay
  <2>2. \A n \in Messages : place'[n] = IF n = m THEN p ELSE place[n]
    BY <1>4, ReplayPuts, PutsStays
  <2> QED
    BY <2>1, <2>2 DEF ThreadsStayTogether
<1> QED
  BY <1>1, <1>2, <1>3, <1>4
  DEF Next, vars, routing, ConfirmScope, DeleteProject, BeginSync, BeginResolve, BeginMerge,
      FinishMerge, CreateRequest, Abandon

-----------------------------------------------------------------------------
(* Requests *)

\* Requests keep their project, and what mail they get is in it.
RequestsGrow ==
  /\ \A i \in DOMAIN requests :
       /\ i \in DOMAIN requests' /\ requests'[i].project = requests[i].project
       /\ \A m \in requests'[i].mail \ requests[i].mail : place'[m] = requests[i].project
  /\ \A i \in (DOMAIN requests') \ (DOMAIN requests) :
       \A m \in requests'[i].mail : place'[m] = requests'[i].project

\* ... whatever commits.
LEMMA RequestsStep ==
  ASSUME TypeOK, SyncIsSound, ResolutionsAreSound, MergesAreSound, [Next]_vars
  PROVE  RequestsGrow
<1>1. requests \in Seq(RequestRow)
  BY DEF TypeOK
<1>2. CASE UNCHANGED requests
  BY <1>2 DEF RequestsGrow
<1>3. ASSUME NEW p \in Projects, NEW mail \in SUBSET Messages,
             requests' = Append(requests, [project |-> p, status |-> "OPEN", mail |-> mail]),
             \A m \in mail : place'[m] = p
      PROVE  RequestsGrow
  <2> DEFINE row == [project |-> p, status |-> "OPEN", mail |-> mail]
  <2>1. row \in RequestRow /\ row.project = p /\ row.mail = mail
    BY DEF RequestRow
  <2>2. requests' = Append(requests, row)
    BY <1>3
  <2> HIDE DEF row
  <2>3. /\ DOMAIN requests' = 1..(Len(requests) + 1) /\ DOMAIN requests = 1..Len(requests)
        /\ Len(requests) \in Nat
        /\ \A i \in DOMAIN requests : requests'[i] = requests[i]
        /\ requests'[Len(requests) + 1] = row
    BY <1>1, <2>1, <2>2
  <2>4. \A i \in (DOMAIN requests') \ (DOMAIN requests) : i = Len(requests) + 1
    BY <2>3
  <2>5. \A i \in DOMAIN requests : i \in DOMAIN requests'
    BY <2>3
  <2> QED
    BY <1>3, <2>1, <2>3, <2>4, <2>5 DEF RequestsGrow
<1>4. ASSUME NEW m \in Messages, NEW p \in Projects, Puts(m, p), MayRequest(m, p)
      PROVE  RequestsGrow
  <2>1. place'[m] = p
    BY <1>4, PutsStays
  <2>2. {m} \in SUBSET Messages
    OBVIOUS
  <2>3. ASSUME requests' = Append(requests, [project |-> p, status |-> "OPEN",
                                             mail |-> {m}])
        PROVE  RequestsGrow
    BY <1>3, <2>1, <2>2, <2>3
  <2> QED
    BY <1>2, <1>4, <2>3 DEF MayRequest
<1>5. CASE FinishSync
  <2> QED
    BY <1>2, <1>4, <1>5, SyncCases
<1>6. ASSUME NEW t \in Tabs, FinishResolve(t) PROVE RequestsGrow
  <2> QED
    BY <1>2, <1>4, <1>6, ResolveCases DEF Resolves
<1>7. ASSUME NEW p \in Projects, NEW mail \in SUBSET Messages, CreateRequest(p, mail)
      PROVE  RequestsGrow
  <2>1. UNCHANGED place
    BY <1>7 DEF CreateRequest, routing
  <2> QED
    BY <1>3, <1>7, <2>1 DEF CreateRequest
<1>8. ASSUME NEW t \in Tabs, FinishMerge(t) PROVE RequestsGrow
  <2>1. /\ DOMAIN requests' = DOMAIN requests
        /\ \A i \in DOMAIN requests :
              /\ requests'[i].project = requests[i].project
              /\ requests'[i].mail \subseteq
                   requests[i].mail \cup (IF i = txn[t].request THEN txn[t].from.mail ELSE {})
    BY <1>8, MergeRows
  <2>2. \A m \in txn[t].from.mail : place'[m] = requests[txn[t].request].project
    BY <1>8 DEF FinishMerge, routing, MergesAreSound
  <2>3. \A i \in DOMAIN requests : \A m \in requests'[i].mail \ requests[i].mail :
          place'[m] = requests[i].project
    BY <2>1, <2>2
  <2> QED
    BY <2>1, <2>3 DEF RequestsGrow
<1> QED
  BY <1>2, <1>5, <1>6, <1>7, <1>8
  DEF Next, vars, ConfirmScope, DeleteProject, BeginSync, BeginResolve, BeginMerge, Abandon,
      Replay

\* A request never gets a message of another project.
LEMMA OwnMailStep ==
  ASSUME TypeOK, SyncIsSound, ResolutionsAreSound, MergesAreSound,
         RequestsKeepToTheirProject, [Next]_vars
  PROVE  RequestsKeepToTheirProject'
<1> SUFFICES ASSUME NEW i \in DOMAIN requests', NEW m \in requests'[i].mail
             PROVE  place'[m] = requests'[i].project
  BY DEF RequestsKeepToTheirProject
<1>1. CASE i \notin DOMAIN requests
  BY <1>1, RequestsStep DEF RequestsGrow
<1>2. CASE i \in DOMAIN requests /\ m \notin requests[i].mail
  BY <1>2, RequestsStep DEF RequestsGrow
<1>3. CASE i \in DOMAIN requests /\ m \in requests[i].mail
  <2>1. m \in Messages /\ requests[i].project \in Projects
    <3>1. requests[i] \in RequestRow
      BY <1>3, ElementOfSeq DEF TypeOK
    <3> QED
      BY <1>3, <3>1 DEF RequestRow
  <2>2. place[m] = requests[i].project /\ place[m] # None
    BY <1>3, <2>1, RoutingAssumption DEF RequestsKeepToTheirProject
  <2>3. requests'[i].project = requests[i].project
    BY <1>3, RequestsStep DEF RequestsGrow
  <2> QED
    BY <2>1, <2>2, <2>3, StaysStep DEF Stays
<1> QED
  BY <1>1, <1>2, <1>3

-----------------------------------------------------------------------------
(* Open transactions *)

\* An open transaction was open before, or begins with this step.
LEMMA TxnStep ==
  ASSUME TypeOK, [Next]_vars, NEW a \in Actors, txn'[a] # None
  PROVE  \/ txn'[a] = txn[a]
         \/ /\ a = Sync
            /\ \E m \in Messages, incremental \in BOOLEAN :
                 BeginSync(m, incremental)
         \/ /\ a \in Tabs
            /\ \/ \E d \in 1..MaxDecisions, p \in Projects : BeginResolve(a, d, p)
               \/ \E i, j \in 1..MaxRequests : BeginMerge(a, i, j)
<1>1. CASE UNCHANGED txn
  BY <1>1
<1>2. ASSUME NEW b \in Actors, txn' = [txn EXCEPT ![b] = None]
      PROVE  txn'[a] = txn[a]
  BY <1>2 DEF TypeOK
<1>3. ASSUME NEW m \in Messages, NEW incremental \in BOOLEAN, BeginSync(m, incremental)
      PROVE  a = Sync \/ txn'[a] = txn[a]
  BY <1>3 DEF BeginSync, TypeOK
<1>4. ASSUME NEW t \in Tabs, NEW d \in 1..MaxDecisions, NEW p \in Projects,
             BeginResolve(t, d, p)
      PROVE  a = t \/ txn'[a] = txn[a]
  BY <1>4 DEF BeginResolve, TypeOK
<1>5. ASSUME NEW t \in Tabs, NEW i \in 1..MaxRequests, NEW j \in 1..MaxRequests,
             BeginMerge(t, i, j)
      PROVE  a = t \/ txn'[a] = txn[a]
  BY <1>5 DEF BeginMerge, TypeOK
<1>6. \A b \in Actors : Abandon(b) => txn' = [txn EXCEPT ![b] = None]
  BY DEF Abandon
<1>7. \A t \in Tabs : FinishResolve(t) \/ FinishMerge(t) => txn' = [txn EXCEPT ![t] = None]
  BY DEF FinishResolve, FinishMerge
<1>8. FinishSync => txn' = [txn EXCEPT ![Sync] = None]
  BY DEF FinishSync
<1>9. Sync \in Actors /\ Tabs \subseteq Actors
  BY DEF Actors
<1>10. ASSUME NEW t \in Tabs, FinishResolve(t) \/ FinishMerge(t) PROVE txn'[a] = txn[a]
  BY <1>2, <1>7, <1>9, <1>10
<1>11. CASE FinishSync
  BY <1>2, <1>8, <1>9, <1>11
<1>12. ASSUME NEW b \in Actors, Abandon(b) PROVE txn'[a] = txn[a]
  BY <1>2, <1>6, <1>12
<1>13. CASE UNCHANGED vars \/ (\E p \in Projects : ConfirmScope(p) \/ DeleteProject(p))
            \/ (\E m \in Messages, p \in Projects : Replay(m, p))
            \/ (\E p \in Projects, mail \in SUBSET Messages : CreateRequest(p, mail))
  BY <1>1, <1>13 DEF vars, ConfirmScope, DeleteProject, Replay, CreateRequest
<1> QED
  BY <1>3, <1>4, <1>5, <1>10, <1>11, <1>12, <1>13 DEF Next

\* What a sync has read stays true, and there is room for its decision.
LEMMA SyncStep ==
  ASSUME TypeOK, SyncIsSound, ResolutionsAreSound, [Next]_vars
  PROVE  SyncIsSound'
<1> SUFFICES ASSUME txn'[Sync] # None
             PROVE  /\ txn'[Sync].kind = "sync" /\ Len(decisions') < MaxDecisions
                    /\ Holds(txn[Sync].msg, txn[Sync].view)'
  BY DEF SyncIsSound, Holds
<1>0. Sync \in Actors /\ Sync \notin Tabs
  BY RoutingAssumption DEF Actors
<1>1. CASE txn'[Sync] = txn[Sync]
  <2>1. txn'[Sync].kind = "sync" /\ txn[Sync].msg \in Messages
    BY <1>0, <1>1, TxnFields DEF SyncIsSound
  <2>2. Len(decisions') = Len(decisions)
    <3>1. txn' # [txn EXCEPT ![Sync] = None]
      BY <1>0 DEF TypeOK
    <3> QED
      BY <3>1, DecisionsGrow
  <2>3. Holds(txn[Sync].msg, txn[Sync].view)
    BY <1>1 DEF SyncIsSound
  <2>4. txn[Sync].view.place # None => place'[txn[Sync].msg] = txn[Sync].view.place
    BY <2>1, <2>3, StaysStep DEF Holds, Stays
  <2>5. txn[Sync].view.assigned # None
          => assigned'[ThreadOf[txn[Sync].msg]] = txn[Sync].view.assigned
    BY <2>1, <2>3, StaysStep, RoutingAssumption DEF Holds, Stays
  <2> QED
    BY <1>1, <2>1, <2>2, <2>4, <2>5 DEF SyncIsSound, Holds
<1>2. ASSUME NEW m \in Messages, NEW incremental \in BOOLEAN, BeginSync(m, incremental)
      PROVE  /\ txn'[Sync].kind = "sync" /\ Len(decisions') < MaxDecisions
             /\ Holds(txn[Sync].msg, txn[Sync].view)'
  <2>1. txn'[Sync] = [kind |-> "sync", msg |-> m, incremental |-> incremental,
                      view |-> ViewOf(m, None)]
    BY <1>0, <1>2 DEF BeginSync, TypeOK
  <2>2. UNCHANGED <<place, assigned, decisions>> /\ Len(decisions) < MaxDecisions
    BY <1>2 DEF BeginSync, routing
  <2>3. Holds(m, ViewOf(m, None))
    BY ViewsAreTyped
  <2> QED
    BY <2>1, <2>2, <2>3 DEF Holds
<1> QED
  BY <1>0, <1>1, <1>2, TxnStep

\* A decision that is being resolved stays open until its tab commits.
LEMMA ResolutionsStep ==
  ASSUME TypeOK, SyncIsSound, ResolutionsAreSound, [Next]_vars
  PROVE  ResolutionsAreSound'
<1> SUFFICES ASSUME NEW t \in Tabs, Resolving(t)'
             PROVE  /\ txn'[t].decision \in DOMAIN decisions'
                    /\ decisions'[txn'[t].decision].status = "OPEN"
                    /\ Holds(decisions[txn[t].decision].msg, txn[t].view)'
  BY DEF ResolutionsAreSound, Holds
<1>0. t \in Actors /\ txn'[t] # None /\ txn'[t].kind = "resolve"
  BY DEF Actors, Resolving
<1> DEFINE d == txn'[t].decision
           view == txn'[t].view
<1>1. CASE txn'[t] = txn[t]
  <2>1. Resolving(t) /\ d = txn[t].decision /\ view = txn[t].view
    BY <1>0, <1>1 DEF Resolving
  <2>2. d \in DOMAIN decisions /\ decisions[d].status = "OPEN" /\ Holds(decisions[d].msg, view)
    BY <2>1 DEF ResolutionsAreSound
  <2>3. decisions[d].msg \in Messages
    <3>1. decisions[d] \in Decision
      BY <2>2, ElementOfSeq DEF TypeOK
    <3> QED
      BY <3>1 DEF Decision
  <2>4. ASSUME NEW u \in Tabs, Resolving(u), txn[u].decision = d,
               txn' = [txn EXCEPT ![u] = None]
        PROVE  FALSE
    <3>1. u = t
      BY <2>1, <2>4 DEF TypeOK
    <3> QED
      BY <1>0, <2>4, <3>1 DEF TypeOK
  <2>5. /\ d \in DOMAIN decisions' /\ decisions'[d].msg = decisions[d].msg
        /\ decisions'[d] = decisions[d]
    BY <2>2, <2>4, DecisionsStep
  <2>6. view.place # None => place'[decisions[d].msg] = view.place
    BY <2>2, <2>3, StaysStep DEF Holds, Stays
  <2>7. view.assigned # None => assigned'[ThreadOf[decisions[d].msg]] = view.assigned
    BY <2>2, <2>3, StaysStep, RoutingAssumption DEF Holds, Stays
  <2> QED
    BY <2>2, <2>5, <2>6, <2>7 DEF Holds
<1>2. ASSUME NEW e \in 1..MaxDecisions, NEW p \in Projects, BeginResolve(t, e, p)
      PROVE  /\ txn'[t].decision \in DOMAIN decisions'
             /\ decisions'[txn'[t].decision].status = "OPEN"
             /\ Holds(decisions[txn[t].decision].msg, txn[t].view)'
  <2>1. txn'[t] = [kind |-> "resolve", decision |-> e, project |-> p,
                   view |-> ViewOf(decisions[e].msg, p)]
    BY <1>0, <1>2 DEF BeginResolve, TypeOK
  <2>2. /\ UNCHANGED <<place, assigned, decisions>>
        /\ e \in DOMAIN decisions /\ decisions[e].status = "OPEN"
    BY <1>2 DEF BeginResolve, routing
  <2>3. Holds(decisions[e].msg, ViewOf(decisions[e].msg, p))
    <3>1. decisions[e] \in Decision
      BY <2>2, ElementOfSeq DEF TypeOK
    <3> QED
      BY <3>1, ViewsAreTyped DEF Decision
  <2> QED
    BY <2>1, <2>2, <2>3 DEF Holds
<1>3. ASSUME NEW i \in 1..MaxRequests, NEW j \in 1..MaxRequests, BeginMerge(t, i, j)
      PROVE  FALSE
  BY <1>0, <1>3 DEF BeginMerge, TypeOK
<1> QED
  BY <1>0, <1>1, <1>2, <1>3, TxnStep, RoutingAssumption

\* What a merge moves stays in the project of its target.
LEMMA MergesStep ==
  ASSUME TypeOK, SyncIsSound, ResolutionsAreSound, MergesAreSound,
         RequestsKeepToTheirProject, [Next]_vars
  PROVE  MergesAreSound'
<1> SUFFICES ASSUME NEW t \in Tabs, txn'[t] # None, txn'[t].kind = "merge"
             PROVE  /\ txn'[t].request \in DOMAIN requests'
                    /\ txn'[t].source \in DOMAIN requests'
                    /\ \A m \in txn'[t].from.mail :
                         place'[m] = requests'[txn'[t].request].project
  BY DEF MergesAreSound
<1> DEFINE i == txn'[t].request
           j == txn'[t].source
           mail == txn'[t].from.mail
<1>0. t \in Actors
  BY DEF Actors
<1>1. \A k \in DOMAIN requests : requests[k] \in RequestRow
  BY ElementOfSeq DEF TypeOK
<1>2. /\ i \in DOMAIN requests /\ j \in DOMAIN requests /\ mail \subseteq Messages
      /\ \A m \in mail : place[m] = requests[i].project
  <2>1. CASE txn'[t] = txn[t]
    <3>1. txn[t].from \in RequestRow
      BY <1>0, <2>1, TxnFields
    <3> QED
      BY <2>1, <3>1 DEF MergesAreSound, RequestRow
  <2>2. ASSUME NEW k \in 1..MaxRequests, NEW l \in 1..MaxRequests, BeginMerge(t, k, l)
        PROVE  /\ i \in DOMAIN requests /\ j \in DOMAIN requests /\ mail \subseteq Messages
               /\ \A m \in mail : place[m] = requests[i].project
    <3>1. txn'[t] = [kind |-> "merge", request |-> k, source |-> l,
                     row |-> requests[k], from |-> requests[l]]
      BY <1>0, <2>2 DEF BeginMerge, TypeOK
    <3>2. /\ k \in DOMAIN requests /\ l \in DOMAIN requests
          /\ requests[k].project = requests[l].project
      BY <2>2 DEF BeginMerge
    <3>3. requests[l].mail \subseteq Messages
      BY <1>1, <3>2 DEF RequestRow
    <3>4. \A m \in requests[l].mail : place[m] = requests[l].project
      BY <3>2 DEF RequestsKeepToTheirProject
    <3> QED
      BY <3>1, <3>2, <3>3, <3>4
  <2>3. ASSUME NEW d \in 1..MaxDecisions, NEW p \in Projects, BeginResolve(t, d, p)
        PROVE  FALSE
    BY <1>0, <2>3 DEF BeginResolve, TypeOK
  <2> QED
    BY <1>0, <2>1, <2>2, <2>3, TxnStep, RoutingAssumption
<1>3. /\ i \in DOMAIN requests' /\ j \in DOMAIN requests'
      /\ requests'[i].project = requests[i].project
  BY <1>2, RequestsStep DEF RequestsGrow
<1>4. requests[i].project # None
  BY <1>1, <1>2, RoutingAssumption DEF RequestRow
<1>5. \A m \in mail : place'[m] = place[m]
  BY <1>2, <1>4, StaysStep DEF Stays
<1> QED
  BY <1>2, <1>3, <1>5

\* Tabs resolve and merge; the sync is another actor.
LEMMA TabsStep ==
  ASSUME TypeOK, TabsKeepTheirKind, [Next]_vars
  PROVE  TabsKeepTheirKind'
<1> SUFFICES ASSUME NEW t \in Tabs, txn'[t] # None
             PROVE  txn'[t].kind \in {"resolve", "merge"}
  BY DEF TabsKeepTheirKind
<1>0. t \in Actors /\ t # Sync
  BY RoutingAssumption DEF Actors
<1>1. CASE txn'[t] = txn[t]
  BY <1>1 DEF TabsKeepTheirKind
<1>2. ASSUME NEW d \in 1..MaxDecisions, NEW p \in Projects, BeginResolve(t, d, p)
      PROVE  txn'[t].kind = "resolve"
  BY <1>0, <1>2 DEF BeginResolve, TypeOK
<1>3. ASSUME NEW i \in 1..MaxRequests, NEW j \in 1..MaxRequests, BeginMerge(t, i, j)
      PROVE  txn'[t].kind = "merge"
  BY <1>0, <1>3 DEF BeginMerge, TypeOK
<1> QED
  BY <1>0, <1>1, <1>2, <1>3, TxnStep

-----------------------------------------------------------------------------
(* The theorems *)

\* Nothing has been read, placed or decided at first.
LEMMA InitIInv == Init => IInv
<1> SUFFICES ASSUME Init PROVE IInv
  OBVIOUS
<1>1. TypeOK
  BY RoutingAssumption DEF Init, TypeOK, ProjectStatus, Resolving, Actors
<1>2. SyncIsSound /\ ResolutionsAreSound /\ MergesAreSound /\ TabsKeepTheirKind
  BY DEF Init, SyncIsSound, ResolutionsAreSound, MergesAreSound, TabsKeepTheirKind, Resolving,
         Actors
<1>3. NothingFallsBetween /\ ThreadsStayTogether /\ RequestsKeepToTheirProject
  BY DEF Init, NothingFallsBetween, ThreadsStayTogether, RequestsKeepToTheirProject
<1> QED
  BY <1>1, <1>2, <1>3 DEF IInv

\* Every step keeps the invariant.
LEMMA StepIInv == IInv /\ [Next]_vars => IInv'
<1> SUFFICES ASSUME IInv, [Next]_vars PROVE IInv'
  OBVIOUS
<1> USE DEF IInv
<1>1. TypeOK'
  BY TypeStep
<1>2. SyncIsSound' /\ ResolutionsAreSound' /\ MergesAreSound' /\ TabsKeepTheirKind'
  BY SyncStep, ResolutionsStep, MergesStep, TabsStep
<1>3. NothingFallsBetween' /\ ThreadsStayTogether' /\ RequestsKeepToTheirProject'
  BY NothingFallsStep, ThreadsStep, OwnMailStep
<1> QED
  BY <1>1, <1>2, <1>3

\* The inductive invariant holds in every reachable state.
THEOREM RoutingInvariant == Spec => []IInv
BY InitIInv, StepIInv, PTL DEF Spec

\* An ingested message is in a project or in an open decision, however many tabs decide.
THEOREM NothingIsDropped == Spec => []NothingFallsBetween
<1>1. IInv => NothingFallsBetween
  BY DEF IInv
<1> QED
  BY <1>1, RoutingInvariant, PTL

\* Concurrent decisions on messages of one thread never split it.
THEOREM ThreadsAreNotSplit == Spec => []ThreadsStayTogether
<1>1. IInv => ThreadsStayTogether
  BY DEF IInv
<1> QED
  BY <1>1, RoutingInvariant, PTL

\* A request holds messages of its own project only, whatever is merged on stale reads.
THEOREM RequestsAreOfOneProject == Spec => []RequestsKeepToTheirProject
<1>1. IInv => RequestsKeepToTheirProject
  BY DEF IInv
<1> QED
  BY <1>1, RoutingInvariant, PTL

\* No step moves a message that was routed or a thread that was assigned.
THEOREM MailStaysWhereItIs == Spec => RoutedMailStaysPut
<1>1. IInv /\ [Next]_vars
        => [/\ \A m \in Messages : place[m] # None => place'[m] = place[m]
            /\ \A t \in Threads : assigned[t] # None => assigned'[t] = assigned[t]]_vars
  BY StaysStep DEF IInv, Stays
<1> QED
  BY <1>1, RoutingInvariant, PTL DEF Spec, RoutedMailStaysPut

=============================================================================

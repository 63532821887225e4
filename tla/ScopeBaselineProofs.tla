------------------------ MODULE ScopeBaselineProofs -------------------------
(***************************************************************************)
(* Safety of ScopeBaseline for every set of tabs, keys, rows and           *)
(* candidates and every number of acceptances.                             *)
(*                                                                         *)
(* Most of it is about Finish: what a command may still rely on when it    *)
(* commits. An open confirmation keeps a number that is at most one past   *)
(* the newest version, so that a free number is the next one.              *)
(***************************************************************************)
EXTENDS ScopeBaseline, FiniteSetTheorems, SequenceTheorems, TLAPS

\* What an open command has read and may still rely on when it commits.
OpenCommandsAreSound ==
  \A t \in Tabs : txn[t] # None =>
    /\ txn[t].parent <= Len(scope)
    /\ txn[t].number # 0 => txn[t].request.kind = "confirm" /\ txn[t].number <= Len(scope) + 1
    /\ txn[t].request.kind = "confirm" =>
         \A c \in txn[t].request.candidates : candidate[c] # "ABSENT"

\* A document under review has had its one extraction.
ExtractionsSpendTheGrant ==
  document.status \in {"AWAITING_SCOPE_REVIEW", "CONFIRMED"} => document.grant = "consumed"

\* The row version an edit expected is behind the row since.
EditsAreBehind ==
  \A k \in Keys :
    recorded[k] # None /\ recorded[k].kind \in {"edit", "delete"}
      => recorded[k].expected < version[recorded[k].row]

IInv ==
  /\ TypeOK
  /\ OpenCommandsAreSound
  /\ ExtractionsSpendTheGrant
  /\ CandidatesHaveTheirSource
  /\ NewestScopeIsCurrent
  /\ EditsAreBehind
  /\ EditsBuildOnEachOther
  /\ CommandsTakeEffectOnce

-----------------------------------------------------------------------------
(* Requests *)

\* The kind of a request tells its fields.
LEMMA RequestKinds ==
  ASSUME NEW r \in Request
  PROVE  /\ r.kind \in {"create", "edit", "delete", "confirm"}
         /\ r.kind \in {"edit", "delete"} => r.row \in Rows /\ r.expected \in Nat
         /\ r.kind = "confirm" => r.candidates \in SUBSET Candidates /\ r.candidates # {}
         /\ r \in Edits \cup Deletes <=> r.kind \in {"edit", "delete"}
         /\ r \in Confirms <=> r.kind = "confirm"
         /\ r # None
<1>1. Project \in Rows
  BY BaselineAssumption
<1>2. CASE r \in Creates
  BY <1>2, NoneAssumption DEF Request, Creates, Edits, Deletes, Confirms
<1>3. CASE r \in Edits
  BY <1>3, NoneAssumption DEF Request, Creates, Edits, Deletes, Confirms
<1>4. CASE r \in Deletes
  BY <1>1, <1>4, NoneAssumption DEF Request, Creates, Edits, Deletes, Confirms
<1>5. CASE r \in Confirms
  BY <1>5, NoneAssumption DEF Request, Creates, Edits, Deletes, Confirms
<1> QED
  BY <1>2, <1>3, <1>4, <1>5 DEF Request

\* An open command is a record; None is not.
LEMMA OpenTxn ==
  ASSUME TypeOK, NEW t \in Tabs, txn[t] # None
  PROVE  /\ txn[t] \in Txn /\ txn[t].key \in Keys /\ txn[t].request \in Request
         /\ txn[t].parent \in Nat /\ txn[t].number \in Nat
BY DEF TypeOK, Txn

-----------------------------------------------------------------------------
(* The commit of a command *)

\* A confirmation that succeeds has the next number, and is one more version.
LEMMA ConfirmAppends ==
  ASSUME TypeOK, OpenCommandsAreSound, NEW t \in Tabs, txn[t] # None,
         txn[t].request.kind = "confirm" => txn[t].number # 0,
         Vacant(t), Confirm(t)
  PROVE  /\ txn[t].number = Len(scope) + 1
         /\ scope' = Append(scope, [candidates |-> txn[t].request.candidates,
                                    parent |-> txn[t].parent, by |-> txn[t].key])
         /\ [candidates |-> txn[t].request.candidates,
             parent |-> txn[t].parent, by |-> txn[t].key] \in ScopeRow
         /\ txn[t].parent <= Len(scope)
<1> DEFINE n == txn[t].number
           row == [candidates |-> txn[t].request.candidates, parent |-> txn[t].parent,
                   by |-> txn[t].key]
<1>1. n \in Nat /\ txn[t].parent \in Nat /\ txn[t].key \in Keys /\ txn[t].request \in Request
  BY OpenTxn
<1>2. txn[t].request.kind = "confirm" /\ n # 0 /\ n <= Len(scope) + 1
  BY DEF Confirm, OpenCommandsAreSound
<1>3. scope \in Seq(ScopeRow) /\ DOMAIN scope = 1..Len(scope) /\ Len(scope) \in Nat
  BY DEF TypeOK
<1>4. n = Len(scope) + 1
  BY <1>1, <1>2, <1>3 DEF Vacant
<1>5. row \in ScopeRow
  BY <1>1, <1>2, RequestKinds DEF ScopeRow
<1>6. scope' = Append(scope, row)
  <2>1. scope' = [m \in 1..(Len(scope) + 1) |-> IF m = n THEN row ELSE scope[m]]
    <3>1. scope' = Placed(n, row)
      BY DEF Confirm
    <3>2. (DOMAIN scope) \cup {n} = 1..(Len(scope) + 1)
      BY <1>3, <1>4
    <3> QED
      BY <3>1, <3>2 DEF Placed
  <2> QED
    BY <1>3, <1>4, <1>5, <2>1
<1> QED
  BY <1>2, <1>4, <1>5, <1>6 DEF OpenCommandsAreSound

\* An acceptance copies the current version.
LEMMA AcceptAppends ==
  ASSUME TypeOK, NewestScopeIsCurrent, Accept
  PROVE  LET row == [candidates |-> scope[project.current].candidates,
                     parent |-> project.current, by |-> None]
         IN scope' = Append(scope, row) /\ row \in ScopeRow
<1>1. /\ scope \in Seq(ScopeRow) /\ Len(scope) \in Nat
      /\ project.current = Len(scope) /\ Len(scope) # 0
  BY DEF Accept, NewestScopeIsCurrent, TypeOK
<1>2. scope[Len(scope)] \in ScopeRow
  BY <1>1
<1>3. [candidates |-> scope[project.current].candidates,
       parent |-> project.current, by |-> None] \in ScopeRow
  BY <1>1, <1>2 DEF ScopeRow
<1> QED
  BY <1>3 DEF Accept

\* The outcomes of a commit: nothing, or the effect of a command whose key is new.
LEMMA FinishCases ==
  ASSUME TypeOK, NEW t \in Tabs, Finish(t)
  PROVE  /\ txn[t] # None
         /\ txn' = [txn EXCEPT ![t] = None]
         /\ \/ UNCHANGED <<contract, baseline, version, log, recorded>>
            \/ /\ recorded[txn[t].key] = None
               /\ recorded' = [recorded EXCEPT ![txn[t].key] = txn[t].request]
               /\ \/ Insert(t)
                  \/ Seen(txn[t].request) /\ (Update(t) \/ Delete(t))
                  \/ Confirm(t) /\ Vacant(t) /\ txn[t].number # 0
<1>1. txn[t] # None /\ txn' = [txn EXCEPT ![t] = None]
  BY DEF Finish
<1>2. CASE ~ Succeeds(t)
  BY <1>1, <1>2 DEF Finish
<1>3. CASE Succeeds(t)
  <2>1. /\ recorded' = [recorded EXCEPT ![txn[t].key] = txn[t].request]
        /\ Insert(t) \/ Update(t) \/ Delete(t) \/ Confirm(t)
        /\ txn[t].request.kind = "confirm" => txn[t].number # 0
    BY <1>3 DEF Finish
  <2>2. recorded[txn[t].key] = None
    BY <1>3 DEF Succeeds, Unused
  <2>3. /\ txn[t].request.kind \in {"edit", "delete"} => Seen(txn[t].request)
        /\ txn[t].request.kind = "confirm" => Vacant(t)
    BY <1>3 DEF Succeeds
  <2>4. /\ Update(t) \/ Delete(t) => txn[t].request.kind \in {"edit", "delete"}
        /\ Confirm(t) => txn[t].request.kind = "confirm"
    BY DEF Update, Delete, Confirm
  <2> QED
    BY <1>1, <2>1, <2>2, <2>3, <2>4
<1> QED
  BY <1>2, <1>3

-----------------------------------------------------------------------------
(* Types *)

\* What a commit does to the rows, by type.
LEMMA FinishTypes ==
  ASSUME TypeOK, OpenCommandsAreSound, NEW t \in Tabs, Finish(t)
  PROVE  /\ document' \in [status : {"UPLOADED", "AWAITING_SCOPE_REVIEW", "CONFIRMED", "REJECTED"},
                           grant : {"open", "consumed", "expired"}]
         /\ candidate' \in [Candidates -> {"ABSENT", "CANDIDATE", "CORRECTED", "CONFIRMED"}]
         /\ scope' \in Seq(ScopeRow)
         /\ \A v \in DOMAIN scope' : scope'[v].parent < v
         /\ project' \in [status : {"PAUSED_UNCONFIRMED_SCOPE", "ACTIVE", "DELETION_PENDING"},
                          current : Nat]
         /\ version' \in [Rows -> Nat]
         /\ log' \in Seq(Keys)
         /\ recorded' \in [Keys -> Request \cup {None}]
<1> DEFINE r == txn[t].request
<1>1. /\ txn[t] # None /\ r \in Request /\ txn[t].key \in Keys
      /\ txn[t].number \in Nat /\ txn[t].parent \in Nat
  BY OpenTxn DEF Finish
<1>2. CASE UNCHANGED <<contract, baseline, version, log, recorded>>
  BY <1>2 DEF TypeOK, contract, baseline
<1>3. ASSUME recorded' = [recorded EXCEPT ![txn[t].key] = r]
      PROVE  recorded' \in [Keys -> Request \cup {None}]
  BY <1>1, <1>3 DEF TypeOK
<1>4. CASE recorded' = [recorded EXCEPT ![txn[t].key] = r] /\ Insert(t)
  <2>1. log' \in Seq(Keys)
    BY <1>1, <1>4 DEF Insert, TypeOK
  <2> QED
    BY <1>3, <1>4, <2>1 DEF Insert, TypeOK, contract, baseline
<1>5. CASE recorded' = [recorded EXCEPT ![txn[t].key] = r] /\ (Update(t) \/ Delete(t))
  <2>1. r.row \in Rows
    BY <1>1, <1>5, RequestKinds DEF Update, Delete
  <2>2. log' \in Seq(Keys)
    <3>1. log' = Append(log, txn[t].key)
      BY <1>5 DEF Update, Delete
    <3> QED
      BY <1>1, <3>1 DEF TypeOK
  <2>3. version' \in [Rows -> Nat]
    BY <1>5, <2>1 DEF Update, Delete, TypeOK
  <2>4. project' \in [status : {"PAUSED_UNCONFIRMED_SCOPE", "ACTIVE", "DELETION_PENDING"},
                      current : Nat]
    BY <1>5 DEF Update, Delete, TypeOK, baseline
  <2>5. UNCHANGED <<document, candidate, scope>>
    BY <1>5 DEF Update, Delete, contract, baseline
  <2> QED
    BY <1>3, <1>5, <2>2, <2>3, <2>4, <2>5 DEF TypeOK
<1>6. CASE /\ recorded' = [recorded EXCEPT ![txn[t].key] = r]
           /\ Confirm(t) /\ Vacant(t) /\ txn[t].number # 0
  <2> DEFINE row == [candidates |-> r.candidates, parent |-> txn[t].parent, by |-> txn[t].key]
  <2>1. /\ scope' = Append(scope, row) /\ row \in ScopeRow
        /\ txn[t].parent <= Len(scope)
    BY <1>1, <1>6, ConfirmAppends
  <2>2. scope \in Seq(ScopeRow) /\ Len(scope) \in Nat
    BY DEF TypeOK
  <2>3. scope' \in Seq(ScopeRow)
    BY <2>1, <2>2
  <2>4. \A v \in DOMAIN scope' : scope'[v].parent < v
    <3> SUFFICES ASSUME NEW v \in DOMAIN scope' PROVE scope'[v].parent < v
      OBVIOUS
    <3>1. v \in 1..(Len(scope) + 1)
      BY <2>1, <2>2
    <3>2. CASE v = Len(scope) + 1
      BY <1>1, <2>1, <2>2, <3>2
    <3>3. CASE v # Len(scope) + 1
      BY <2>1, <2>2, <3>1, <3>3 DEF TypeOK
    <3> QED
      BY <3>2, <3>3
  <2>5. candidate' \in [Candidates -> {"ABSENT", "CANDIDATE", "CORRECTED", "CONFIRMED"}]
    BY <1>6 DEF Confirm, TypeOK
  <2>6. /\ document' \in [status : {"UPLOADED", "AWAITING_SCOPE_REVIEW", "CONFIRMED", "REJECTED"},
                          grant : {"open", "consumed", "expired"}]
        /\ project' \in [status : {"PAUSED_UNCONFIRMED_SCOPE", "ACTIVE", "DELETION_PENDING"},
                         current : Nat]
    BY <1>1, <1>6 DEF Confirm, Current, TypeOK
  <2>7. UNCHANGED <<version, log>>
    BY <1>6 DEF Confirm
  <2> QED
    BY <1>3, <1>6, <2>3, <2>4, <2>5, <2>6, <2>7 DEF TypeOK
<1> QED
  BY <1>2, <1>4, <1>5, <1>6, FinishCases

\* Closing a command opens no other and takes no lock.
LEMMA ClosedTypes ==
  ASSUME TypeOK, NEW t \in Tabs, txn' = [txn EXCEPT ![t] = None]
  PROVE  /\ txn' \in [Tabs -> Txn \cup {None}]
         /\ \A u, o \in Tabs : u # o /\ Numbered(u)' /\ Numbered(o)'
              => txn'[u].request.candidates \cap txn'[o].request.candidates = {}
<1>1. txn' \in [Tabs -> Txn \cup {None}]
  BY DEF TypeOK
<1>2. \A u \in Tabs : Numbered(u)' => Numbered(u) /\ txn'[u] = txn[u]
  BY DEF Numbered, TypeOK
<1> QED
  BY <1>1, <1>2 DEF TypeOK

\* Every action keeps the types, and the locks of confirmations disjoint.
LEMMA TypeStep ==
  ASSUME TypeOK, OpenCommandsAreSound, NewestScopeIsCurrent, [Next]_vars
  PROVE  TypeOK'
<1>1. CASE GrantExpires \/ CompleteUpload \/ ExtractScope \/ \E c \in Candidates : CorrectCandidate(c)
  <2>1. document' \in [status : {"UPLOADED", "AWAITING_SCOPE_REVIEW", "CONFIRMED", "REJECTED"},
                       grant : {"open", "consumed", "expired"}]
    <3>1. CASE GrantExpires
      BY <3>1 DEF GrantExpires, TypeOK
    <3>2. CASE CompleteUpload
      BY <3>2 DEF CompleteUpload, Spent, TypeOK
    <3>3. CASE ExtractScope \/ \E c \in Candidates : CorrectCandidate(c)
      BY <3>3 DEF ExtractScope, CorrectCandidate, TypeOK
    <3> QED
      BY <1>1, <3>1, <3>2, <3>3
  <2>2. candidate' \in [Candidates -> {"ABSENT", "CANDIDATE", "CORRECTED", "CONFIRMED"}]
    BY <1>1 DEF GrantExpires, CompleteUpload, ExtractScope, CorrectCandidate, TypeOK
  <2>3. UNCHANGED <<scope, project, version, log, recorded, txn>>
    BY <1>1 DEF GrantExpires, CompleteUpload, ExtractScope, CorrectCandidate, baseline, commands
  <2> QED
    BY <2>1, <2>2, <2>3 DEF TypeOK, Numbered
<1>2. ASSUME NEW t \in Tabs, NEW k \in Keys, NEW r \in Request, Begin(t, k, r)
      PROVE  TypeOK'
  <2> DEFINE new == [key |-> k, request |-> r, parent |-> project.current, number |-> 0]
  <2>1. new \in Txn /\ txn' = [txn EXCEPT ![t] = new]
    BY <1>2 DEF Begin, Txn, TypeOK
  <2>2. UNCHANGED <<document, candidate, scope, project, version, log, recorded>>
    BY <1>2 DEF Begin, contract, baseline
  <2>3. txn' \in [Tabs -> Txn \cup {None}]
    BY <2>1 DEF TypeOK
  <2>4. \A u \in Tabs : Numbered(u)' => Numbered(u) /\ txn'[u] = txn[u]
    BY <2>1 DEF Numbered, TypeOK
  <2> QED
    BY <2>2, <2>3, <2>4 DEF TypeOK
<1>3. ASSUME NEW t \in Tabs, Number(t)
      PROVE  TypeOK'
  <2>1. txn[t] \in Txn /\ NextNumber(t) \in Nat
    BY <1>3, OpenTxn DEF Number, NextNumber, TypeOK
  <2>2. /\ txn' = [txn EXCEPT ![t] = [txn[t] EXCEPT !.number = NextNumber(t)]]
        /\ \A c \in txn[t].request.candidates : ~Locked(c)
        /\ UNCHANGED <<document, candidate, scope, project, version, log, recorded>>
    BY <1>3 DEF Number, contract, baseline
  <2>3. [txn[t] EXCEPT !.number = NextNumber(t)] \in Txn
    BY <2>1 DEF Txn
  <2>4. /\ txn' \in [Tabs -> Txn \cup {None}]
        /\ txn'[t].request = txn[t].request
        /\ \A u \in Tabs \ {t} : txn'[u] = txn[u]
    BY <2>1, <2>2, <2>3 DEF TypeOK, Txn
  <2>5. \A u \in Tabs \ {t} : Numbered(u)' =>
          txn'[u].request.candidates \cap txn'[t].request.candidates = {}
    BY <2>2, <2>4 DEF Numbered, Locked
  <2>6. \A u, o \in Tabs : u # o /\ Numbered(u)' /\ Numbered(o)'
              => txn'[u].request.candidates \cap txn'[o].request.candidates = {}
    <3> SUFFICES ASSUME NEW u \in Tabs, NEW o \in Tabs, u # o, Numbered(u)', Numbered(o)'
                 PROVE  txn'[u].request.candidates \cap txn'[o].request.candidates = {}
      OBVIOUS
    <3>1. CASE u = t \/ o = t
      BY <2>5, <3>1
    <3>2. CASE u # t /\ o # t
      BY <2>4, <3>2 DEF TypeOK, Numbered
    <3> QED
      BY <3>1, <3>2
  <2> QED
    BY <2>2, <2>4, <2>6 DEF TypeOK
<1>4. ASSUME NEW t \in Tabs, Finish(t)
      PROVE  TypeOK'
  <2>1. txn' = [txn EXCEPT ![t] = None]
    BY <1>4 DEF Finish
  <2> QED
    BY <1>4, <2>1, FinishTypes, ClosedTypes DEF TypeOK
<1>5. ASSUME NEW t \in Tabs, Abandon(t)
      PROVE  TypeOK'
  <2>1. txn' = [txn EXCEPT ![t] = None]
    BY <1>5 DEF Abandon
  <2>2. UNCHANGED <<document, candidate, scope, project, version, log, recorded>>
    BY <1>5 DEF Abandon, contract, baseline
  <2> QED
    BY <2>1, <2>2, ClosedTypes DEF TypeOK
<1>6. CASE Accept
  <2> DEFINE row == [candidates |-> scope[project.current].candidates,
                     parent |-> project.current, by |-> None]
  <2>1. /\ scope \in Seq(ScopeRow) /\ Len(scope) \in Nat
        /\ project.current = Len(scope) /\ Len(scope) # 0
    BY <1>6 DEF Accept, NewestScopeIsCurrent, TypeOK
  <2>3. scope' = Append(scope, row) /\ row \in ScopeRow
    BY <1>6, AcceptAppends
  <2>4. project' = [project EXCEPT !.current = Len(scope) + 1]
    BY <1>6 DEF Accept
  <2>5. scope' \in Seq(ScopeRow)
    BY <2>1, <2>3
  <2>6. \A v \in DOMAIN scope' : scope'[v].parent < v
    <3> SUFFICES ASSUME NEW v \in DOMAIN scope' PROVE scope'[v].parent < v
      OBVIOUS
    <3>1. v \in 1..(Len(scope) + 1)
      BY <2>1, <2>3
    <3>2. CASE v = Len(scope) + 1
      BY <2>1, <2>3, <3>2
    <3>3. CASE v # Len(scope) + 1
      BY <2>1, <2>3, <3>1, <3>3 DEF TypeOK
    <3> QED
      BY <3>2, <3>3
  <2>7. project' \in [status : {"PAUSED_UNCONFIRMED_SCOPE", "ACTIVE", "DELETION_PENDING"},
                      current : Nat]
    BY <2>1, <2>4 DEF TypeOK
  <2>8. UNCHANGED <<document, candidate, version, log, recorded, txn>>
    BY <1>6 DEF Accept, contract, commands
  <2> QED
    BY <2>5, <2>6, <2>7, <2>8 DEF TypeOK, Numbered
<1>7. CASE UNCHANGED vars
  BY <1>7 DEF TypeOK, Numbered, vars, contract, baseline, commands
<1> QED
  BY <1>1, <1>2, <1>3, <1>4, <1>5, <1>6, <1>7 DEF Next

-----------------------------------------------------------------------------
(* Commands in progress *)

\* Scopes only grow, and what a confirmation has read stays there until it commits.
LEMMA OpenCommandsStep ==
  ASSUME TypeOK, OpenCommandsAreSound, NewestScopeIsCurrent, [Next]_vars
  PROVE  OpenCommandsAreSound'
<1> DEFINE Sound(t) ==
      /\ txn[t].parent <= Len(scope)
      /\ txn[t].number # 0 => txn[t].request.kind = "confirm" /\ txn[t].number <= Len(scope) + 1
      /\ txn[t].request.kind = "confirm" =>
           \A c \in txn[t].request.candidates : candidate[c] # "ABSENT"
<1>1. ASSUME NEW t \in Tabs, txn[t] # None, txn'[t] = txn[t],
             Len(scope') \in Nat, Len(scope) <= Len(scope'),
             \A c \in Candidates : candidate[c] # "ABSENT" => candidate'[c] # "ABSENT"
      PROVE  Sound(t)'
  <2>1. /\ Sound(t) /\ txn[t] \in Txn /\ txn[t].request \in Request
        /\ txn[t].parent \in Nat /\ txn[t].number \in Nat
    BY <1>1, OpenTxn DEF OpenCommandsAreSound
  <2>2. txn[t].request.kind = "confirm" => txn[t].request.candidates \in SUBSET Candidates
    BY <2>1, RequestKinds
  <2>3. Len(scope) \in Nat
    BY DEF TypeOK
  <2> QED
    BY <1>1, <2>1, <2>2, <2>3
<1>2. ASSUME NEW c \in Candidates, candidate[c] # "ABSENT"
      PROVE  candidate'[c] # "ABSENT"
  <2>1. CASE \E t \in Tabs : Finish(t)
    <3>1. PICK t \in Tabs : Finish(t)
      BY <2>1
    <3>2. CASE Confirm(t)
      BY <1>2, <3>2 DEF Confirm
    <3>3. CASE ~ Confirm(t)
      BY <1>2, <3>1, <3>3, FinishCases DEF Insert, Update, Delete, contract
    <3> QED
      BY <3>2, <3>3
  <2>2. CASE \E d \in Candidates : CorrectCandidate(d)
    BY <1>2, <2>2 DEF CorrectCandidate, TypeOK
  <2>3. CASE ExtractScope
    BY <1>2, <2>3 DEF ExtractScope
  <2>4. CASE UNCHANGED candidate
    BY <1>2, <2>4
  <2> QED
    BY <2>1, <2>2, <2>3, <2>4
    DEF Next, GrantExpires, CompleteUpload, Begin, Number, Abandon, Accept, contract, vars
<1>3. Len(scope') \in Nat /\ Len(scope) <= Len(scope')
  <2>1. Len(scope) \in Nat /\ scope \in Seq(ScopeRow)
    BY DEF TypeOK
  <2>2. CASE \E t \in Tabs : Finish(t)
    <3>1. PICK t \in Tabs : Finish(t)
      BY <2>2
    <3>2. CASE Confirm(t) /\ Vacant(t) /\ txn[t].number # 0
      <4>1. PICK row \in ScopeRow : scope' = Append(scope, row)
        BY <3>1, <3>2, ConfirmAppends, FinishCases
      <4> QED
        BY <2>1, <4>1
    <3>3. CASE UNCHANGED scope
      BY <2>1, <3>3
    <3> QED
      BY <3>1, <3>2, <3>3, FinishCases DEF Insert, Update, Delete, baseline
  <2>3. CASE Accept
    BY <2>1, <2>3 DEF Accept
  <2>4. CASE UNCHANGED scope
    BY <2>1, <2>4
  <2> QED
    BY <2>2, <2>3, <2>4
    DEF Next, GrantExpires, CompleteUpload, ExtractScope, CorrectCandidate, Begin, Number,
        Abandon, baseline, vars
<1>4. ASSUME NEW u \in Tabs, txn'[u] # None
      PROVE  Sound(u)'
  <2>1. CASE txn'[u] = txn[u]
    BY <1>1, <1>2, <1>3, <1>4, <2>1
  <2>2. ASSUME NEW t \in Tabs, txn' = [txn EXCEPT ![t] = None]
        PROVE  txn'[u] = txn[u]
    BY <1>4, <2>2 DEF TypeOK
  <2>3. ASSUME NEW t \in Tabs, NEW k \in Keys, NEW r \in Request, Begin(t, k, r), u = t
        PROVE  Sound(u)'
    <3>1. /\ txn'[u] = [key |-> k, request |-> r, parent |-> project.current, number |-> 0]
          /\ scope' = scope /\ candidate' = candidate
      BY <2>3 DEF Begin, TypeOK, baseline, contract
    <3>2. r.kind = "confirm" => \A c \in r.candidates : candidate[c] # "ABSENT"
      BY <2>3, RequestKinds DEF Begin
    <3>3. project.current = Len(scope) /\ Len(scope) \in Nat
      BY DEF NewestScopeIsCurrent, TypeOK
    <3> QED
      BY <3>1, <3>2, <3>3
  <2>4. ASSUME NEW t \in Tabs, Number(t), u = t
        PROVE  Sound(u)'
    <3>1. txn[t] \in Txn /\ txn[t] # None /\ txn[t].request.kind = "confirm"
      BY <2>4, OpenTxn DEF Number
    <3>2. /\ txn' = [txn EXCEPT ![t] = [txn[t] EXCEPT !.number = Len(scope) + 1]]
          /\ scope' = scope /\ candidate' = candidate
      BY <2>4 DEF Number, NextNumber, baseline, contract
    <3>3. /\ txn'[u].number = Len(scope) + 1 /\ txn'[u].parent = txn[u].parent
          /\ txn'[u].request = txn[u].request
      BY <2>4, <3>1, <3>2 DEF TypeOK, Txn
    <3>4. Len(scope) \in Nat
      BY DEF TypeOK
    <3> QED
      BY <2>4, <3>1, <3>2, <3>3, <3>4 DEF OpenCommandsAreSound
  <2>5. ASSUME NEW t \in Tabs, u # t,
               Number(t) \/ \E k \in Keys, r \in Request : Begin(t, k, r)
        PROVE  txn'[u] = txn[u]
    BY <2>5 DEF Number, Begin, TypeOK
  <2>6. \A t \in Tabs : Finish(t) \/ Abandon(t) => txn' = [txn EXCEPT ![t] = None]
    BY DEF Finish, Abandon
  <2>7. ASSUME UNCHANGED txn
        PROVE  Sound(u)'
    BY <2>1, <2>7
  <2> QED
    BY <2>1, <2>2, <2>3, <2>4, <2>5, <2>6, <2>7
    DEF Next, GrantExpires, CompleteUpload, ExtractScope, CorrectCandidate, Accept, commands, vars
<1> QED
  BY <1>4 DEF OpenCommandsAreSound

-----------------------------------------------------------------------------
(* Scope versions *)

\* Every step leaves the scope alone or appends the version that is current afterwards.
LEMMA ScopeSteps ==
  ASSUME TypeOK, OpenCommandsAreSound, NewestScopeIsCurrent, [Next]_vars
  PROVE  \/ /\ scope' = scope /\ project'.current = project.current
            /\ project'.status # "PAUSED_UNCONFIRMED_SCOPE" \/ project' = project
         \/ \E row \in ScopeRow :
              /\ scope' = Append(scope, row)
              /\ \/ project' = [status |-> "ACTIVE", current |-> Len(scope) + 1]
                 \/ /\ project.current # 0
                    /\ project' = [project EXCEPT !.current = Len(scope) + 1]
<1>1. ASSUME NEW t \in Tabs, Finish(t), Confirm(t), Vacant(t), txn[t].number # 0
      PROVE  \E row \in ScopeRow :
               /\ scope' = Append(scope, row)
               /\ project' = [status |-> "ACTIVE", current |-> Len(scope) + 1]
  <2>1. txn[t] # None
    BY <1>1 DEF Finish
  <2>2. /\ txn[t].number = Len(scope) + 1
        /\ \E row \in ScopeRow : scope' = Append(scope, row)
    BY <1>1, <2>1, ConfirmAppends
  <2>3. project' = [status |-> "ACTIVE", current |-> txn[t].number]
    BY <1>1 DEF Confirm, Current
  <2> QED
    BY <2>2, <2>3
<1>2. ASSUME NEW t \in Tabs, Delete(t)
      PROVE  /\ scope' = scope /\ project'.current = project.current
             /\ project'.status = "DELETION_PENDING"
  BY <1>2 DEF Delete, TypeOK
<1>3. ASSUME NEW t \in Tabs, Insert(t) \/ Update(t)
      PROVE  scope' = scope /\ project' = project
  BY <1>3 DEF Insert, Update, baseline
<1>4. ASSUME NEW t \in Tabs, Finish(t)
      PROVE  \/ UNCHANGED <<scope, project>>
             \/ Insert(t) \/ Update(t) \/ Delete(t)
             \/ Confirm(t) /\ Vacant(t) /\ txn[t].number # 0
  BY <1>4, FinishCases DEF baseline
<1>5. CASE Accept
  <2> DEFINE row == [candidates |-> scope[project.current].candidates,
                     parent |-> project.current, by |-> None]
  <2>1. scope' = Append(scope, row) /\ row \in ScopeRow
    BY <1>5, AcceptAppends
  <2>2. project.current # 0 /\ project' = [project EXCEPT !.current = Len(scope) + 1]
    BY <1>5 DEF Accept
  <2> QED
    BY <2>1, <2>2
<1> QED
  BY <1>1, <1>2, <1>3, <1>4, <1>5
  DEF Next, GrantExpires, CompleteUpload, ExtractScope, CorrectCandidate, Begin, Number,
      Abandon, baseline, vars

\* Every step leaves the project on its newest version, or waiting for one.
LEMMA NewestStep ==
  ASSUME TypeOK, OpenCommandsAreSound, NewestScopeIsCurrent, [Next]_vars
  PROVE  NewestScopeIsCurrent'
<1>1. scope \in Seq(ScopeRow) /\ Len(scope) \in Nat
  BY DEF TypeOK
<1>2. CASE /\ scope' = scope /\ project'.current = project.current
           /\ project'.status # "PAUSED_UNCONFIRMED_SCOPE" \/ project' = project
  BY <1>2 DEF NewestScopeIsCurrent
<1>3. ASSUME NEW row \in ScopeRow, scope' = Append(scope, row),
             \/ project' = [status |-> "ACTIVE", current |-> Len(scope) + 1]
             \/ project.current # 0 /\ project' = [project EXCEPT !.current = Len(scope) + 1]
      PROVE  NewestScopeIsCurrent'
  <2>1. Len(scope') = Len(scope) + 1
    BY <1>1, <1>3
  <2>2. project'.current = Len(scope) + 1 /\ project'.status # "PAUSED_UNCONFIRMED_SCOPE"
    <3>1. project.current # 0 => project.status # "PAUSED_UNCONFIRMED_SCOPE"
      BY DEF NewestScopeIsCurrent
    <3> QED
      BY <1>3, <3>1 DEF TypeOK
  <2> QED
    BY <2>1, <2>2 DEF NewestScopeIsCurrent
<1> QED
  BY <1>2, <1>3, ScopeSteps

\* No step changes a version.
LEMMA ImmutableStep ==
  ASSUME TypeOK, OpenCommandsAreSound, NewestScopeIsCurrent, [Next]_vars
  PROVE  \A v \in DOMAIN scope : v \in DOMAIN scope' /\ scope'[v] = scope[v]
<1>1. scope \in Seq(ScopeRow) /\ Len(scope) \in Nat
  BY DEF TypeOK
<1>2. CASE scope' = scope
  BY <1>2
<1>3. ASSUME NEW row \in ScopeRow, scope' = Append(scope, row)
      PROVE  \A v \in DOMAIN scope : v \in DOMAIN scope' /\ scope'[v] = scope[v]
  BY <1>1, <1>3
<1> QED
  BY <1>2, <1>3, ScopeSteps

-----------------------------------------------------------------------------
(* Documents *)

\* Confirmed candidates were extracted, by the one extraction the grant pays for.
LEMMA ExtractionStep ==
  ASSUME TypeOK, OpenCommandsAreSound, ExtractionsSpendTheGrant, CandidatesHaveTheirSource,
         [Next]_vars
  PROVE  ExtractionsSpendTheGrant' /\ CandidatesHaveTheirSource'
<1> USE DEF ExtractionsSpendTheGrant, CandidatesHaveTheirSource
<1>1. CASE GrantExpires
  BY <1>1 DEF GrantExpires, TypeOK
<1>2. CASE CompleteUpload
  BY <1>2 DEF CompleteUpload, Spent, TypeOK
<1>3. CASE ExtractScope
  BY <1>3 DEF ExtractScope, TypeOK
<1>4. CASE \E c \in Candidates : CorrectCandidate(c)
  BY <1>4 DEF CorrectCandidate, TypeOK
<1>5. ASSUME NEW t \in Tabs, Finish(t)
      PROVE  ExtractionsSpendTheGrant' /\ CandidatesHaveTheirSource'
  <2>1. CASE Confirm(t)
    <3>1. txn[t] # None /\ txn[t].request \in Request /\ txn[t].request.kind = "confirm"
      BY <1>5, <2>1, OpenTxn DEF Finish, Confirm
    <3>2. PICK c \in Candidates : candidate[c] # "ABSENT"
      BY <3>1, RequestKinds DEF OpenCommandsAreSound
    <3>3. document.grant = "consumed"
      BY <3>2
    <3> QED
      BY <2>1, <3>3 DEF Confirm, TypeOK
  <2>2. CASE UNCHANGED contract
    BY <2>2 DEF contract
  <2> QED
    BY <1>5, <2>1, <2>2, FinishCases DEF Insert, Update, Delete, contract
<1>6. CASE UNCHANGED contract
  BY <1>6 DEF contract
<1> QED
  BY <1>1, <1>2, <1>3, <1>4, <1>5, <1>6 DEF Next, Begin, Number, Abandon, Accept, contract, vars

-----------------------------------------------------------------------------
(* Row versions and idempotency *)

\* An edit that commits has seen the newest row version, which its record puts behind.
LEMMA EditsStep ==
  ASSUME TypeOK, EditsAreBehind, EditsBuildOnEachOther, [Next]_vars
  PROVE  EditsAreBehind' /\ EditsBuildOnEachOther'
<1>1. CASE UNCHANGED <<version, recorded>>
  BY <1>1 DEF EditsAreBehind, EditsBuildOnEachOther
<1>2. ASSUME NEW t \in Tabs, Finish(t),
             recorded' = [recorded EXCEPT ![txn[t].key] = txn[t].request],
             recorded[txn[t].key] = None
      PROVE  EditsAreBehind' /\ EditsBuildOnEachOther'
  <2> DEFINE r == txn[t].request
             k == txn[t].key
  <2>1. txn[t] # None /\ r \in Request /\ k \in Keys
    BY <1>2, OpenTxn DEF Finish
  <2>2. /\ recorded'[k] = r /\ r # None
        /\ \A l \in Keys \ {k} : recorded'[l] = recorded[l]
    BY <1>2, <2>1, RequestKinds DEF TypeOK
  <2>3. /\ r.kind \in {"edit", "delete"} =>
             /\ r.row \in Rows /\ r.expected = version[r.row]
             /\ version' = [version EXCEPT ![r.row] = version[r.row] + 1]
        /\ r.kind \notin {"edit", "delete"} => version' = version
    <3>1. Insert(t) \/ (Seen(r) /\ (Update(t) \/ Delete(t))) \/ Confirm(t)
      <4>1. recorded' # recorded
        BY <1>2, <2>1, <2>2
      <4> QED
        BY <1>2, <4>1, FinishCases
    <3>2. r.kind \in {"edit", "delete"} => r.row \in Rows
      BY <2>1, RequestKinds
    <3>3. CASE Insert(t) \/ Confirm(t)
      BY <3>3 DEF Insert, Confirm
    <3>4. CASE Seen(r) /\ (Update(t) \/ Delete(t))
      BY <3>2, <3>4 DEF Update, Delete, Seen
    <3> QED
      BY <3>1, <3>3, <3>4
  <2>4. \A l \in Keys \ {k} :
          recorded[l] # None /\ recorded[l].kind \in {"edit", "delete"}
            => recorded[l].row \in Rows
    <3> SUFFICES ASSUME NEW l \in Keys, recorded[l] # None,
                        recorded[l].kind \in {"edit", "delete"}
                 PROVE  recorded[l].row \in Rows
      OBVIOUS
    <3>1. recorded[l] \in Request
      BY DEF TypeOK
    <3> QED
      BY <3>1, RequestKinds
  <2>5. version \in [Rows -> Nat]
    BY DEF TypeOK
  <2>6. EditsAreBehind'
    <3> SUFFICES ASSUME NEW l \in Keys, recorded'[l] # None,
                        recorded'[l].kind \in {"edit", "delete"}
                 PROVE  recorded'[l].expected < version'[recorded'[l].row]
      BY DEF EditsAreBehind
    <3>1. CASE l = k
      BY <2>2, <2>3, <2>5, <3>1
    <3>2. CASE l # k
      <4>1. /\ recorded'[l] = recorded[l] /\ recorded[l].row \in Rows
            /\ recorded[l].expected < version[recorded[l].row]
        BY <2>2, <2>4, <3>2 DEF EditsAreBehind
      <4>2. recorded[l].expected \in Nat
        <5>1. recorded[l] \in Request
          BY <3>2, <2>2 DEF TypeOK
        <5> QED
          BY <2>2, <3>2, <5>1, RequestKinds
      <4>3. CASE r.kind \notin {"edit", "delete"}
        BY <2>3, <4>1, <4>3
      <4>4. CASE r.kind \in {"edit", "delete"} /\ recorded[l].row = r.row
        BY <2>3, <2>5, <4>1, <4>2, <4>4
      <4>5. CASE r.kind \in {"edit", "delete"} /\ recorded[l].row # r.row
        BY <2>3, <2>5, <4>1, <4>5
      <4> QED
        BY <4>3, <4>4, <4>5
    <3> QED
      BY <3>1, <3>2
  <2>7. EditsBuildOnEachOther'
    <3>1. \A l \in Keys \ {k} :
            /\ r.kind \in {"edit", "delete"} /\ recorded[l] # None
            /\ recorded[l].kind \in {"edit", "delete"} /\ recorded[l].row = r.row
            => recorded[l].expected # r.expected
      BY <2>3, <2>5 DEF EditsAreBehind
    <3> QED
      BY <2>2, <3>1 DEF EditsBuildOnEachOther
  <2> QED
    BY <2>6, <2>7
<1> QED
  BY <1>1, <1>2, FinishCases
  DEF Next, GrantExpires, CompleteUpload, ExtractScope, CorrectCandidate, Begin, Number,
      Abandon, Accept, commands, vars

\* One more line in the log counts for its key.
LEMMA LogCount ==
  ASSUME NEW s \in Seq(Keys), NEW x \in Keys, NEW k \in Keys
  PROVE  /\ Cardinality({i \in DOMAIN s : s[i] = k}) \in Nat
         /\ Cardinality({i \in DOMAIN Append(s, x) : Append(s, x)[i] = k})
              = Cardinality({i \in DOMAIN s : s[i] = k}) + (IF x = k THEN 1 ELSE 0)
<1> DEFINE old == {i \in DOMAIN s : s[i] = k}
           new == {i \in DOMAIN Append(s, x) : Append(s, x)[i] = k}
<1>1. Len(s) \in Nat /\ DOMAIN s = 1..Len(s)
  OBVIOUS
<1>2. IsFiniteSet(old) /\ Cardinality(old) \in Nat
  <2>1. IsFiniteSet(1..Len(s))
    BY <1>1, FS_Interval
  <2>2. old \subseteq 1..Len(s)
    BY <1>1
  <2> QED
    BY <2>1, <2>2, FS_Subset, FS_CardinalityType
<1>3. /\ DOMAIN Append(s, x) = 1..(Len(s) + 1)
      /\ \A i \in 1..Len(s) : Append(s, x)[i] = s[i]
      /\ Append(s, x)[Len(s) + 1] = x
  BY <1>1
<1>4. Len(s) + 1 \notin old
  BY <1>1
<1>5. ASSUME x = k PROVE Cardinality(new) = Cardinality(old) + 1
  <2>1. new = old \cup {Len(s) + 1}
    BY <1>1, <1>3, <1>5
  <2> QED
    BY <1>2, <1>4, <2>1, FS_AddElement
<1>6. ASSUME x # k PROVE Cardinality(new) = Cardinality(old)
  <2>1. new = old
    BY <1>1, <1>3, <1>6
  <2> QED
    BY <2>1
<1>7. Cardinality(new) = Cardinality(old) + (IF x = k THEN 1 ELSE 0)
  <2> HIDE DEF old, new
  <2> QED
    BY <1>2, <1>5, <1>6
<1> QED
  BY <1>2, <1>7

\* ... and so does one more version.
LEMMA VersionCount ==
  ASSUME NEW s \in Seq(ScopeRow), NEW row \in ScopeRow, NEW k \in Keys
  PROVE  /\ Cardinality({i \in DOMAIN s : s[i].by = k}) \in Nat
         /\ Cardinality({i \in DOMAIN Append(s, row) : Append(s, row)[i].by = k})
              = Cardinality({i \in DOMAIN s : s[i].by = k}) + (IF row.by = k THEN 1 ELSE 0)
<1> DEFINE old == {i \in DOMAIN s : s[i].by = k}
           new == {i \in DOMAIN Append(s, row) : Append(s, row)[i].by = k}
<1>1. Len(s) \in Nat /\ DOMAIN s = 1..Len(s)
  OBVIOUS
<1>2. IsFiniteSet(old) /\ Cardinality(old) \in Nat
  <2>1. IsFiniteSet(1..Len(s))
    BY <1>1, FS_Interval
  <2>2. old \subseteq 1..Len(s)
    BY <1>1
  <2> QED
    BY <2>1, <2>2, FS_Subset, FS_CardinalityType
<1>3. /\ DOMAIN Append(s, row) = 1..(Len(s) + 1)
      /\ \A i \in 1..Len(s) : Append(s, row)[i] = s[i]
      /\ Append(s, row)[Len(s) + 1] = row
  BY <1>1
<1>4. Len(s) + 1 \notin old
  BY <1>1
<1>5. ASSUME row.by = k PROVE Cardinality(new) = Cardinality(old) + 1
  <2>1. new = old \cup {Len(s) + 1}
    BY <1>1, <1>3, <1>5
  <2> QED
    BY <1>2, <1>4, <2>1, FS_AddElement
<1>6. ASSUME row.by # k PROVE Cardinality(new) = Cardinality(old)
  <2>1. new = old
    BY <1>1, <1>3, <1>6
  <2> QED
    BY <2>1
<1>7. Cardinality(new) = Cardinality(old) + (IF row.by = k THEN 1 ELSE 0)
  <2> HIDE DEF old, new
  <2> QED
    BY <1>2, <1>5, <1>6
<1> QED
  BY <1>2, <1>7

\* What a commit of a new key leaves: one line or one version of it, and nothing else.
LEMMA OnceStep ==
  ASSUME TypeOK, OpenCommandsAreSound, NewestScopeIsCurrent, CommandsTakeEffectOnce,
         [Next]_vars
  PROVE  CommandsTakeEffectOnce'
<1> DEFINE Lines(l, k) == Cardinality({i \in DOMAIN l : l[i] = k})
           Made(s, k) == Cardinality({v \in DOMAIN s : s[v].by = k})
<1>1. scope \in Seq(ScopeRow) /\ log \in Seq(Keys)
  BY DEF TypeOK
<1>2. \A k \in Keys : /\ Lines(log, k) \in Nat /\ Made(scope, k) \in Nat
                      /\ Lines(log, k) + Made(scope, k) = IF recorded[k] = None THEN 0 ELSE 1
  <2> SUFFICES ASSUME NEW k \in Keys
               PROVE  /\ Lines(log, k) \in Nat /\ Made(scope, k) \in Nat
                      /\ Lines(log, k) + Made(scope, k) = IF recorded[k] = None THEN 0 ELSE 1
    OBVIOUS
  <2>1. Lines(log, k) \in Nat
    BY <1>1, LogCount
  <2>2. Made(scope, k) \in Nat
    <3>1. [candidates |-> {}, parent |-> 0, by |-> None] \in ScopeRow
      BY DEF ScopeRow
    <3> QED
      BY <1>1, <3>1, VersionCount
  <2> QED
    BY <2>1, <2>2 DEF CommandsTakeEffectOnce
<1>3. CASE UNCHANGED <<scope, log, recorded>>
  BY <1>3 DEF CommandsTakeEffectOnce
<1>4. ASSUME NEW t \in Tabs, Finish(t), recorded[txn[t].key] = None,
             recorded' = [recorded EXCEPT ![txn[t].key] = txn[t].request],
             \/ Insert(t) \/ Update(t) \/ Delete(t)
             \/ Confirm(t) /\ Vacant(t) /\ txn[t].number # 0
      PROVE  CommandsTakeEffectOnce'
  <2> DEFINE key == txn[t].key
  <2>1. txn[t] # None /\ key \in Keys /\ txn[t].request \in Request /\ txn[t].request # None
    BY <1>4, OpenTxn, RequestKinds DEF Finish
  <2>2. \A k \in Keys : recorded'[k] = None <=> recorded[k] = None /\ k # key
    BY <1>4, <2>1 DEF TypeOK
  <2>3. \A k \in Keys : Lines(log', k) + Made(scope', k)
                         = Lines(log, k) + Made(scope, k) + (IF k = key THEN 1 ELSE 0)
    <3> SUFFICES ASSUME NEW k \in Keys
                 PROVE  Lines(log', k) + Made(scope', k)
                         = Lines(log, k) + Made(scope, k) + (IF k = key THEN 1 ELSE 0)
      OBVIOUS
    <3>1. CASE Insert(t) \/ Update(t) \/ Delete(t)
      <4>1. log' = Append(log, key) /\ scope' = scope
        BY <3>1 DEF Insert, Update, Delete, baseline
      <4>2. Lines(log', k) = Lines(log, k) + (IF key = k THEN 1 ELSE 0)
        BY <1>1, <2>1, <4>1, LogCount
      <4>3. Made(scope', k) = Made(scope, k)
        BY <4>1
      <4> HIDE DEF Lines, Made
      <4> QED
        BY <1>2, <4>2, <4>3
    <3>2. CASE Confirm(t) /\ Vacant(t) /\ txn[t].number # 0
      <4>1. PICK row \in ScopeRow : scope' = Append(scope, row) /\ row.by = key
        BY <1>4, <2>1, <3>2, ConfirmAppends
      <4>2. Made(scope', k) = Made(scope, k) + (IF key = k THEN 1 ELSE 0)
        <5>1. Made(Append(scope, row), k) = Made(scope, k) + (IF row.by = k THEN 1 ELSE 0)
          BY <1>1, VersionCount
        <5> HIDE DEF Made, key
        <5> QED
          BY <4>1, <5>1
      <4>3. Lines(log', k) = Lines(log, k)
        BY <3>2 DEF Confirm
      <4> HIDE DEF Lines, Made
      <4> QED
        BY <1>2, <4>2, <4>3
    <3> QED
      BY <1>4, <3>1, <3>2
  <2>4. \A k \in Keys : Lines(log', k) + Made(scope', k)
                         = IF recorded'[k] = None THEN 0 ELSE 1
    <3> HIDE DEF Lines, Made
    <3> QED
      BY <1>2, <1>4, <2>1, <2>2, <2>3
  <2> QED
    BY <2>4 DEF CommandsTakeEffectOnce
<1>5. CASE Accept
  <2> DEFINE row == [candidates |-> scope[project.current].candidates,
                     parent |-> project.current, by |-> None]
  <2>1. scope' = Append(scope, row) /\ row \in ScopeRow /\ row.by = None
    BY <1>5, AcceptAppends
  <2>2. log' = log /\ recorded' = recorded
    BY <1>5 DEF Accept, commands
  <2>3. \A k \in Keys : Made(scope', k) = Made(scope, k)
    <3> SUFFICES ASSUME NEW k \in Keys PROVE Made(scope', k) = Made(scope, k)
      OBVIOUS
    <3>1. None # k
      BY BaselineAssumption
    <3> HIDE DEF row
    <3>2. Made(Append(scope, row), k) = Made(scope, k) + 0
      BY <1>1, <2>1, <3>1, VersionCount
    <3>3. Made(scope, k) \in Nat
      BY <1>2
    <3> HIDE DEF Made
    <3> QED
      BY <2>1, <3>2, <3>3
  <2> QED
    BY <2>2, <2>3 DEF CommandsTakeEffectOnce
<1>6. ASSUME NEW t \in Tabs, Finish(t)
      PROVE  CommandsTakeEffectOnce'
  BY <1>3, <1>4, <1>6, FinishCases DEF baseline
<1> QED
  BY <1>3, <1>5, <1>6
  DEF Next, GrantExpires, CompleteUpload, ExtractScope, CorrectCandidate, Begin, Number,
      Abandon, baseline, commands, vars

-----------------------------------------------------------------------------
(* The theorems *)

\* The initial states satisfy IInv.
LEMMA InitIInv == Init => IInv
<1> SUFFICES ASSUME Init PROVE IInv
  OBVIOUS
<1>1. TypeOK
  BY DEF Init, TypeOK, Uploaded, Extracted, Numbered
<1>2. OpenCommandsAreSound /\ EditsAreBehind /\ EditsBuildOnEachOther /\ NewestScopeIsCurrent
  BY DEF Init, OpenCommandsAreSound, EditsAreBehind, EditsBuildOnEachOther, NewestScopeIsCurrent
<1>3. ExtractionsSpendTheGrant /\ CandidatesHaveTheirSource
  BY DEF Init, ExtractionsSpendTheGrant, CandidatesHaveTheirSource, Uploaded, Extracted
<1>4. CommandsTakeEffectOnce
  <2> SUFFICES ASSUME NEW k \in Keys
               PROVE  Cardinality({i \in DOMAIN log : log[i] = k})
                        + Cardinality({v \in DOMAIN scope : scope[v].by = k}) = 0
    BY DEF Init, CommandsTakeEffectOnce
  <2>1. {i \in DOMAIN log : log[i] = k} = {} /\ {v \in DOMAIN scope : scope[v].by = k} = {}
    BY DEF Init
  <2>2. Cardinality({}) = 0
    BY FS_EmptySet
  <2>3. /\ Cardinality({i \in DOMAIN log : log[i] = k}) = 0
        /\ Cardinality({v \in DOMAIN scope : scope[v].by = k}) = 0
    BY <2>1, <2>2
  <2> QED
    BY <2>3
<1> QED
  BY <1>1, <1>2, <1>3, <1>4 DEF IInv

\* Every step preserves IInv.
LEMMA StepIInv == IInv /\ [Next]_vars => IInv'
<1> SUFFICES ASSUME IInv, [Next]_vars PROVE IInv'
  OBVIOUS
<1> USE DEF IInv
<1>1. TypeOK' /\ OpenCommandsAreSound' /\ NewestScopeIsCurrent'
  BY TypeStep, OpenCommandsStep, NewestStep
<1>2. ExtractionsSpendTheGrant' /\ CandidatesHaveTheirSource'
  BY ExtractionStep
<1>3. EditsAreBehind' /\ EditsBuildOnEachOther' /\ CommandsTakeEffectOnce'
  BY EditsStep, OnceStep
<1> QED
  BY <1>1, <1>2, <1>3

\* The inductive invariant holds in every reachable state.
THEOREM BaselineInvariant == Spec => []IInv
BY InitIInv, StepIInv, PTL DEF Spec

\* Every reachable state is well typed, and two confirmations that are about to commit never
\* hold a candidate in common.
THEOREM BaselineTypes == Spec => []TypeOK
<1>1. IInv => TypeOK
  BY DEF IInv
<1> QED
  BY <1>1, BaselineInvariant, PTL

\* A command takes effect once, for any number of tabs that send it at once or again.
THEOREM CommandsAreIdempotent == Spec => []CommandsTakeEffectOnce
<1>1. IInv => CommandsTakeEffectOnce
  BY DEF IInv
<1> QED
  BY <1>1, BaselineInvariant, PTL

\* No two recorded edits of a row were made on one version of it.
THEOREM NoEditIsLost == Spec => []EditsBuildOnEachOther
<1>1. IInv => EditsBuildOnEachOther
  BY DEF IInv
<1> QED
  BY <1>1, BaselineInvariant, PTL

\* Confirmations on stale reads and acceptances leave the project on its newest scope.
THEOREM NewestStaysCurrent == Spec => []NewestScopeIsCurrent
<1>1. IInv => NewestScopeIsCurrent
  BY DEF IInv
<1> QED
  BY <1>1, BaselineInvariant, PTL

\* Candidates were extracted from the document on record, by its one extraction.
THEOREM CandidatesAreSourced == Spec => []CandidatesHaveTheirSource
<1>1. IInv => CandidatesHaveTheirSource
  BY DEF IInv
<1> QED
  BY <1>1, BaselineInvariant, PTL

\* No step changes or removes a scope version.
THEOREM VersionsAreImmutable == Spec => ScopeVersionsAreImmutable
<1>1. IInv /\ [Next]_vars
        => [\A v \in DOMAIN scope : v \in DOMAIN scope' /\ scope'[v] = scope[v]]_vars
  BY ImmutableStep DEF IInv
<1> QED
  BY <1>1, BaselineInvariant, PTL DEF Spec, ScopeVersionsAreImmutable

=============================================================================

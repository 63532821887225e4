--------------------------- MODULE ScopeBaseline ---------------------------
(***************************************************************************)
(* A project, its contract document and its confirmed scope                *)
(* (services/contracts/service.py), under the API's idempotent commands    *)
(* and row versions (services/api/service.py). A client's acceptance       *)
(* (change_orders/service.py) appends versions to the same scope.          *)
(*                                                                         *)
(* A command reads its idempotency record, runs in one transaction, and    *)
(* inserts the record last. Commands that lock their row before they read  *)
(* it take effect in the commit; confirm_scope reads the project without a *)
(* lock, then locks the candidates, then numbers its version. Commands on  *)
(* documents and candidates repeat without harm (a grant, unique keys) and *)
(* are modelled without their key.                                         *)
(***************************************************************************)
EXTENDS Integers, FiniteSets, Sequences

CONSTANTS
  Tabs,            \* requests of the owner that are served at once
  Keys,            \* Idempotency-Key headers
  Rows,            \* rows with a row_version: the project, clients, the account
  Project,         \* the row of the project
  Candidates,      \* candidates the extraction finds
  MaxAmendments,   \* bound: acceptances
  None

ASSUME BaselineAssumption ==
  /\ Project \in Rows /\ None \notin Keys
  /\ MaxAmendments \in Nat

VARIABLES
  document,   \* ContractDocument.status and its DocumentUploadGrant
  candidate,  \* ScopeCandidate.status
  scope,      \* ScopeVersion rows of the project, by version
  project,    \* Project.status and current_scope_version_id
  version,    \* row_version
  log,        \* rows that commands leave: AuditEvents and created rows, by key
  recorded,   \* ApiIdempotency: the request a key was used for
  txn         \* what an open command has read, or None

contract == <<document, candidate>>
baseline == <<scope, project>>
commands == <<recorded, txn>>
vars == <<contract, baseline, version, log, commands>>

\* What the owner asks for; expected is expected_row_version, as the owner has seen it.
Creates == [kind : {"create"}]
Edits == [kind : {"edit"}, row : Rows, expected : 1..(Cardinality(Keys) + 1)]
Deletes == [kind : {"delete"}, row : {Project}, expected : 1..(Cardinality(Keys) + 1)]
Confirms == [kind : {"confirm"}, candidates : (SUBSET Candidates) \ {{}}]
Request == Creates \cup Edits \cup Deletes \cup Confirms

\* A version an acceptance made has an amendment, another the key it was confirmed with.
ScopeRow == [candidates : SUBSET Candidates, parent : Nat, by : Keys \cup {None}]

Txn == [key : Keys, request : Request, parent : Nat, number : Nat]

ASSUME NoneAssumption == None \notin Request \cup Txn

\* A confirmation that holds the locks of its candidates.
Numbered(t) == txn[t] # None /\ txn[t].number # 0

TypeOK ==
  /\ document \in [status : {"UPLOADED", "AWAITING_SCOPE_REVIEW", "CONFIRMED", "REJECTED"},
                   grant : {"open", "consumed", "expired"}]
  /\ candidate \in [Candidates -> {"ABSENT", "CANDIDATE", "CORRECTED", "CONFIRMED"}]
  /\ scope \in Seq(ScopeRow)
  /\ \A v \in DOMAIN scope : scope[v].parent < v
  /\ project \in [status : {"PAUSED_UNCONFIRMED_SCOPE", "ACTIVE", "DELETION_PENDING"},
                  current : Nat]
  /\ version \in [Rows -> Nat]
  /\ log \in Seq(Keys)
  /\ recorded \in [Keys -> Request \cup {None}]
  /\ txn \in [Tabs -> Txn \cup {None}]
  /\ \A t, o \in Tabs : t # o /\ Numbered(t) /\ Numbered(o)
                       => txn[t].request.candidates \cap txn[o].request.candidates = {}

Uploaded == [status |-> "UPLOADED", grant |-> "open"]
Extracted == [status |-> "AWAITING_SCOPE_REVIEW", grant |-> "consumed"]

\* A fresh upload, or one that was read before the owner goes on.
Init ==
  /\ \/ document = Uploaded /\ candidate = [c \in Candidates |-> "ABSENT"]
     \/ document = Extracted /\ candidate = [c \in Candidates |-> "CANDIDATE"]
  /\ scope = <<>>
  /\ project = [status |-> "PAUSED_UNCONFIRMED_SCOPE", current |-> 0]
  /\ version = [r \in Rows |-> 1]
  /\ log = <<>>
  /\ recorded = [k \in Keys |-> None]
  /\ txn = [t \in Tabs |-> None]

-----------------------------------------------------------------------------
(* The document *)

\* Mutant of Spent: the grant stays open when the extraction succeeds.
SpentOnErrors(status) == IF status = "REJECTED" THEN "consumed" ELSE document.grant

\* consumed_at after an extraction: whether it fails or not.
Spent(status) == "consumed"

GrantExpires ==
  /\ document.grant = "open"
  /\ document' = [document EXCEPT !.grant = "expired"]
  /\ UNCHANGED <<candidate, baseline, version, log, commands>>

\* complete_upload with an open grant: other bytes than were announced reject the document
\* and leave the grant, the extraction spends it.
CompleteUpload ==
  /\ document.grant = "open"
  /\ \/ document' = [document EXCEPT !.status = "REJECTED"]
     \/ \E status \in {"REJECTED", "AWAITING_SCOPE_REVIEW"} :
          document' = [status |-> status, grant |-> Spent(status)]
  /\ UNCHANGED <<candidate, baseline, version, log, commands>>

\* extract_document_scope, persist_structure_candidates: the model may find any of the
\* candidates; those that exist stay as they are.
ExtractScope ==
  /\ document.status \in {"AWAITING_SCOPE_REVIEW", "CONFIRMED"}
  /\ \E found \in SUBSET Candidates :
       candidate' = [c \in Candidates |->
         IF c \in found /\ candidate[c] = "ABSENT" THEN "CANDIDATE" ELSE candidate[c]]
  /\ UNCHANGED <<document, baseline, version, log, commands>>

Locked(c) == \E t \in Tabs : Numbered(t) /\ c \in txn[t].request.candidates

\* correct_scope_candidate: also after the candidate was confirmed.
CorrectCandidate(c) ==
  /\ candidate[c] # "ABSENT" /\ ~Locked(c)
  /\ candidate' = [candidate EXCEPT ![c] = "CORRECTED"]
  /\ UNCHANGED <<document, baseline, version, log, commands>>

-----------------------------------------------------------------------------
(* Commands *)

\* execute_idempotent: a key that is recorded returns its response, or a conflict when the
\* request is another one; either way nothing changes.
Begin(t, k, r) ==
  /\ txn[t] = None /\ recorded[k] = None
  /\ r \in Edits \cup Deletes => r.expected <= version[r.row]
  /\ r \in Confirms => \A c \in r.candidates : candidate[c] # "ABSENT"
  /\ txn' = [txn EXCEPT ![t] = [key |-> k, request |-> r, parent |-> project.current,
                                number |-> 0]]
  /\ UNCHANGED <<contract, baseline, version, log, recorded>>

\* MAX(version) + 1, read when the candidates are locked.
NextNumber(t) == Len(scope) + 1

Number(t) ==
  /\ txn[t] # None /\ txn[t].number = 0
  /\ txn[t].request.kind = "confirm"
  /\ \A c \in txn[t].request.candidates : ~Locked(c)
  /\ txn' = [txn EXCEPT ![t].number = NextNumber(t)]
  /\ UNCHANGED <<contract, baseline, version, log, recorded>>

\* Mutant of Vacant: the key is partial, without the versions of acceptances.
VacantOfConfirmed(t) == txn[t].number \in DOMAIN scope => scope[txn[t].number].by = None

\* The unique key of project and version.
Vacant(t) == txn[t].number \notin DOMAIN scope

\* Mutant of Unused: the record is trusted to be missing still.
AlwaysUnused(t) == TRUE

\* The unique key of actor, route and key.
Unused(t) == recorded[txn[t].key] = None

\* Mutant of Seen: the expected version is not compared.
AlwaysSeen(r) == TRUE

Seen(r) == r.expected = version[r.row]

Succeeds(t) ==
  LET r == txn[t].request
  IN /\ Unused(t)
     /\ r.kind \in {"edit", "delete"} => Seen(r)
     /\ r.kind = "confirm" => Vacant(t)

Placed(v, row) == [n \in (DOMAIN scope) \cup {v} |-> IF n = v THEN row ELSE scope[n]]

\* Mutant of Current: the first confirmed scope stays the current one.
FirstCurrent(t) == IF project.current = 0 THEN txn[t].number ELSE project.current

Current(t) == txn[t].number

\* create_client, create_contact, create_project, create_request: a row and its audit event.
Insert(t) ==
  /\ txn[t].request.kind = "create"
  /\ log' = Append(log, txn[t].key)
  /\ UNCHANGED <<contract, baseline, version>>

\* update_client, update_preference, update_project: one more row version.
Update(t) ==
  /\ txn[t].request.kind = "edit"
  /\ version' = [version EXCEPT ![txn[t].request.row] = @ + 1]
  /\ log' = Append(log, txn[t].key)
  /\ UNCHANGED <<contract, baseline>>

\* delete_project
Delete(t) ==
  /\ txn[t].request.kind = "delete"
  /\ version' = [version EXCEPT ![txn[t].request.row] = @ + 1]
  /\ log' = Append(log, txn[t].key)
  /\ project' = [project EXCEPT !.status = "DELETION_PENDING"]
  /\ UNCHANGED <<contract, scope>>

\* confirm_scope, with the parent that was read before the locks.
Confirm(t) ==
  LET r == txn[t].request
  IN /\ r.kind = "confirm"
     /\ scope' = Placed(txn[t].number, [candidates |-> r.candidates, parent |-> txn[t].parent,
                                        by |-> txn[t].key])
     /\ project' = [status |-> "ACTIVE", current |-> Current(t)]
     /\ candidate' = [c \in Candidates |->
          IF c \in r.candidates THEN "CONFIRMED" ELSE candidate[c]]
     /\ document' = [document EXCEPT !.status = "CONFIRMED"]
     /\ UNCHANGED <<version, log>>

\* The commit, or the rollback after a conflict.
Finish(t) ==
  /\ txn[t] # None
  /\ txn[t].request.kind = "confirm" => txn[t].number # 0
  /\ IF Succeeds(t)
     THEN /\ Insert(t) \/ Update(t) \/ Delete(t) \/ Confirm(t)
          /\ recorded' = [recorded EXCEPT ![txn[t].key] = txn[t].request]
     ELSE UNCHANGED <<contract, baseline, version, log, recorded>>
  /\ txn' = [txn EXCEPT ![t] = None]

\* The request ends without a commit.
Abandon(t) ==
  /\ txn[t] # None
  /\ txn' = [txn EXCEPT ![t] = None]
  /\ UNCHANGED <<contract, baseline, version, log, recorded>>

amendments == {v \in DOMAIN scope : scope[v].by = None}

\* accept_client: locks the project before it reads it; the new version has the items of the
\* one before and the accepted revision.
Accept ==
  /\ project.current # 0
  /\ Cardinality(amendments) < MaxAmendments
  /\ LET v == Len(scope) + 1
     IN /\ scope' = Append(scope, [candidates |-> scope[project.current].candidates,
                                   parent |-> project.current, by |-> None])
        /\ project' = [project EXCEPT !.current = v]
  /\ UNCHANGED <<contract, version, log, commands>>

-----------------------------------------------------------------------------

Next ==
  \/ GrantExpires \/ CompleteUpload \/ ExtractScope
  \/ \E c \in Candidates : CorrectCandidate(c)
  \/ \E t \in Tabs : \E k \in Keys, r \in Request : Begin(t, k, r)
  \/ \E t \in Tabs : Number(t) \/ Finish(t) \/ Abandon(t)
  \/ Accept

Spec == Init /\ [][Next]_vars

-----------------------------------------------------------------------------
(* Properties *)

\* However often a command is sent, at once or after a lost answer, it takes effect once if
\* its key is recorded and not at all if it is not.
CommandsTakeEffectOnce ==
  \A k \in Keys :
    Cardinality({i \in DOMAIN log : log[i] = k})
      + Cardinality({v \in DOMAIN scope : scope[v].by = k})
    = IF recorded[k] = None THEN 0 ELSE 1

\* Every edit of a row was made on the one before it: nobody overwrites a version that he
\* has not seen.
EditsBuildOnEachOther ==
  \A k, l \in Keys :
    /\ recorded[k] # None /\ recorded[l] # None /\ k # l
    /\ recorded[k].kind \in {"edit", "delete"} /\ recorded[l].kind \in {"edit", "delete"}
    /\ recorded[k].row = recorded[l].row
    => recorded[k].expected # recorded[l].expected

\* Confirmations and acceptances that race never leave the project on an older scope than
\* the newest, and a project with a scope is never back to being unconfirmed.
NewestScopeIsCurrent ==
  /\ project.current = Len(scope)
  /\ project.status = "PAUSED_UNCONFIRMED_SCOPE" => scope = <<>>

\* A scope version is what the owner or the client agreed to: no later step changes it.
ScopeVersionsAreImmutable ==
  [][\A v \in DOMAIN scope : v \in DOMAIN scope' /\ scope'[v] = scope[v]]_vars

\* A document is extracted once: candidates never outlive their source, and what the owner
\* confirms was read from the bytes that are on record.
CandidatesHaveTheirSource ==
  (\E c \in Candidates : candidate[c] # "ABSENT")
    => document.status \in {"AWAITING_SCOPE_REVIEW", "CONFIRMED"}

\* TDD section 44: accepted work remains in the effective scope. Each amendment is an
\* ancestor of the current version, or that version itself.
AcceptedWorkStaysInScope ==
  LET Ancestors[v \in 0..Len(scope)] ==
        IF v = 0 THEN {} ELSE {v} \cup Ancestors[scope[v].parent]
  IN amendments \subseteq Ancestors[project.current]

=============================================================================

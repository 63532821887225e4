------------------------------- MODULE Outbox -------------------------------
(***************************************************************************)
(* The transactional outbox (services/workers/durable.py, recovery.py,     *)
(* transactions.py): a command commits a job and an outbox entry together, *)
(* and sweeps of concurrent invocations publish the entries and replace    *)
(* lost wakeups. The bus (external) delivers them at least once.           *)
(*                                                                         *)
(* A sweep commits after every entry, and its first commit gives up the    *)
(* row locks of its whole batch: it goes on with entries another sweep may *)
(* have selected since. What publish_attempts and last_error say beyond    *)
(* "tried" is left out; the life of the job is module DurableJobs.         *)
(***************************************************************************)
EXTENDS Integers, FiniteSets, Sequences, SequencesExt

CONSTANTS
  Jobs,
  Sweepers,        \* invocations whose sweeps overlap
  Undeliverable,   \* jobs whose entries the bus always rejects
  BatchLimit,      \* limit of publish_outbox
  MaxEntries,      \* bound: outbox entries of a job
  MaxRetries,      \* bound: attempts of jobs that end in RETRY_WAIT, together
  MaxTroubles,     \* bound: crashes, rejected publications and lost deliveries, together
  None

ASSUME OutboxAssumption ==
  /\ Undeliverable \subseteq Jobs
  /\ BatchLimit \in Nat \ {0} /\ MaxEntries \in Nat \ {0}
  /\ MaxRetries \in Nat /\ MaxTroubles \in Nat
  /\ IsFiniteSet(Jobs)
  /\ None \notin Nat

VARIABLES
  job,       \* Job.state, as far as a dispatcher tells states apart
  outbox,    \* OutboxEvent rows in the order of created_at
  sweep,     \* where the sweep of an invocation is; batch: rows it is still to publish
  bus,       \* entries the bus has accepted and not yet delivered for good (external)
  sent,      \* history: entries the bus has ever accepted
  woken,     \* jobs whose dispatcher has heard of them since they became runnable (external)
  budget

entries == <<job, outbox>>
dispatch == <<bus, sent, woken>>
vars == <<entries, sweep, dispatch, budget>>

Ids == 1..(MaxEntries * Cardinality(Jobs))
Entry == [job : Jobs, published : BOOLEAN, attempted : BOOLEAN, recent : BOOLEAN]
Phases == {"IDLE", "DISCOVERED", "SELECTED", "NEXT", "PUBLISHING", "ACCEPTED",
           "REJECTED"}

TypeOK ==
  /\ job \in [Jobs -> {"ABSENT", "RUNNABLE", "TAKEN"}]
  /\ outbox \in Seq(Entry) /\ Len(outbox) <= Cardinality(Ids)
  /\ sweep \in [Sweepers -> [phase : Phases, lost : SUBSET Jobs, batch : SUBSET DOMAIN outbox]]
  /\ \A s \in Sweepers : Cardinality(sweep[s].batch) <= BatchLimit
  /\ \A s, o \in Sweepers : s # o /\ sweep[s].phase = "SELECTED" /\ sweep[o].phase = "SELECTED"
                          => sweep[s].batch \cap sweep[o].batch = {}
  /\ bus \subseteq sent /\ sent \subseteq DOMAIN outbox
  /\ woken \subseteq {j \in Jobs : job[j] = "RUNNABLE"}
  /\ budget \in [retries : 0..MaxRetries, troubles : 0..MaxTroubles]

Resting == [phase |-> "IDLE", lost |-> {}, batch |-> {}]

Init ==
  /\ job = [j \in Jobs |-> "ABSENT"] /\ outbox = <<>>
  /\ sweep = [s \in Sweepers |-> Resting]
  /\ bus = {} /\ sent = {} /\ woken = {}
  /\ budget = [retries |-> MaxRetries, troubles |-> MaxTroubles]

Spend(what) ==
  /\ budget[what] > 0
  /\ budget' = [budget EXCEPT ![what] = @ - 1]

-----------------------------------------------------------------------------
(* Jobs *)

EntriesOf(j) == {e \in DOMAIN outbox : outbox[e].job = j}
Queued(j) == [job |-> j, published |-> FALSE, attempted |-> FALSE, recent |-> TRUE]

\* commit_durable_command, enqueue_job: the job and its entry in one transaction.
Enqueue(j) ==
  /\ job[j] = "ABSENT"
  /\ job' = [job EXCEPT ![j] = "RUNNABLE"]
  /\ outbox' = Append(outbox, Queued(j))
  /\ UNCHANGED <<sweep, dispatch, budget>>

\* claim_jobs: with or without a wakeup. The job runs, and may never be runnable again.
Claim(j) ==
  /\ job[j] = "RUNNABLE"
  /\ job' = [job EXCEPT ![j] = "TAKEN"]
  /\ woken' = woken \ {j}
  /\ UNCHANGED <<outbox, sweep, bus, sent, budget>>

\* fail_job, recover_expired_jobs: RETRY_WAIT, without an outbox entry of its own.
Retry(j) ==
  /\ job[j] = "TAKEN"
  /\ Spend("retries")
  /\ job' = [job EXCEPT ![j] = "RUNNABLE"]
  /\ UNCHANGED <<outbox, sweep, dispatch>>

\* The oldest recent entry becomes older than RECOVERY_STALE_SECONDS.
Age(e) ==
  /\ e \in DOMAIN outbox /\ outbox[e].recent
  /\ \A o \in 1..(e - 1) : ~outbox[o].recent
  /\ outbox' = [outbox EXCEPT ![e].recent = FALSE]
  /\ UNCHANGED <<job, sweep, dispatch, budget>>

-----------------------------------------------------------------------------
(* The sweep *)

\* Mutant of Covered: a job is covered by any entry it ever had.
CoveredByAny(j) == EntriesOf(j) # {}

\* discover_lost_wakeups: an entry is still to be published or is recent.
Covered(j) == \E e \in EntriesOf(j) : ~outbox[e].published \/ outbox[e].recent

\* run_recovery_sweep up to its commit: two sweeps may find the same job.
Discover(s) ==
  /\ sweep[s].phase = "IDLE"
  /\ sweep' = [sweep EXCEPT ![s] =
       [phase |-> "DISCOVERED", batch |-> {},
        lost |-> {j \in Jobs : job[j] = "RUNNABLE" /\ ~Covered(j)}]]
  /\ UNCHANGED <<entries, dispatch, budget>>

Wakeups(s) ==
  LET room == {j \in sweep[s].lost : Cardinality(EntriesOf(j)) < MaxEntries}
  IN SetToSeq({Queued(j) : j \in room})

\* Mutant of Locked: the rows are selected without FOR UPDATE.
NoneLocked(s) == {}

\* FOR UPDATE locks live until the first commit of the sweep.
Locked(s) == UNION {sweep[o].batch :
                      o \in {p \in Sweepers \ {s} : sweep[p].phase = "SELECTED"}}

Unpublished(s, rows) == {e \in DOMAIN rows : ~rows[e].published /\ e \notin Locked(s)}

\* The oldest of them, up to the limit.
Batch(s, rows) ==
  {e \in Unpublished(s, rows) :
     Cardinality({o \in Unpublished(s, rows) : o < e}) < BatchLimit}

\* The wakeups are committed, and publish_outbox selects the oldest unpublished rows that
\* are not locked.
Select(s) ==
  /\ sweep[s].phase = "DISCOVERED"
  /\ outbox' = outbox \o Wakeups(s)
  /\ sweep' = [sweep EXCEPT ![s] =
       IF Batch(s, outbox') = {} THEN Resting
       ELSE [phase |-> "SELECTED", lost |-> {}, batch |-> Batch(s, outbox')]]
  /\ UNCHANGED <<job, dispatch, budget>>

\* The row whose turn it is: the batch goes on in the order of created_at.
Due(s) == Min(sweep[s].batch)

\* Updates of a row another transaction has locked wait.
At(s, phase) == sweep[s].phase \in phase /\ Due(s) \notin Locked(s)

\* publish_attempts is committed before the network call.
Attempt(s) ==
  /\ At(s, {"SELECTED", "NEXT"})
  /\ outbox' = [outbox EXCEPT ![Due(s)].attempted = TRUE]
  /\ sweep' = [sweep EXCEPT ![s].phase = "PUBLISHING"]
  /\ UNCHANGED <<job, dispatch, budget>>

\* _publish_outbox_event: put_events accepts the entry or counts it as failed.
Accept(s) ==
  LET e == Due(s)
  IN /\ sweep[s].phase = "PUBLISHING"
     /\ outbox[e].job \notin Undeliverable
     /\ bus' = bus \cup {e} /\ sent' = sent \cup {e}
     /\ sweep' = [sweep EXCEPT ![s].phase = "ACCEPTED"]
     /\ UNCHANGED <<entries, woken, budget>>

Reject(s) ==
  /\ sweep[s].phase = "PUBLISHING"
  /\ IF outbox[Due(s)].job \in Undeliverable
     THEN UNCHANGED budget ELSE Spend("troubles")
  /\ sweep' = [sweep EXCEPT ![s].phase = "REJECTED"]
  /\ UNCHANGED <<entries, dispatch>>

\* Mutant of Remaining: a rejected entry ends the sweep.
RemainingIfAccepted(s) == IF sweep[s].phase = "REJECTED" THEN {} ELSE sweep[s].batch \ {Due(s)}

\* The batch goes on after a rejected entry.
Remaining(s) == sweep[s].batch \ {Due(s)}

\* Mutant of Marked: the error path saves published_at, too.
MarkedAnyway(s) == [outbox EXCEPT ![Due(s)].published = TRUE]

\* published_at, or only last_error.
Marked(s) ==
  IF sweep[s].phase = "ACCEPTED"
  THEN [outbox EXCEPT ![Due(s)].published = TRUE] ELSE outbox

\* The result is committed, and with the next entry its own attempt.
Save(s) ==
  /\ At(s, {"ACCEPTED", "REJECTED"})
  /\ outbox' = Marked(s)
  /\ sweep' = [sweep EXCEPT ![s] =
       IF Remaining(s) = {} THEN Resting ELSE [@ EXCEPT !.phase = "NEXT", !.batch = Remaining(s)]]
  /\ UNCHANGED <<job, dispatch, budget>>

\* The invocation ends: nothing uncommitted stays.
SweepCrash(s) ==
  /\ sweep[s].phase # "IDLE"
  /\ Spend("troubles")
  /\ sweep' = [sweep EXCEPT ![s] = Resting]
  /\ UNCHANGED <<entries, dispatch>>

-----------------------------------------------------------------------------
(* The bus *)

Lose(e) ==
  /\ e \in bus /\ Spend("troubles")
  /\ bus' = bus \ {e}
  /\ UNCHANGED <<entries, sweep, sent, woken>>

\* A delivery that is not acknowledged comes again.
Deliver(e) ==
  /\ e \in bus
  /\ bus' = bus \ {e}
  /\ woken' = woken \cup {j \in {outbox[e].job} : job[j] = "RUNNABLE"}
  /\ UNCHANGED <<entries, sweep, sent, budget>>

-----------------------------------------------------------------------------

SweepStep(s) == Discover(s) \/ Select(s) \/ Attempt(s)
                \/ Accept(s) \/ Reject(s) \/ Save(s)

Next ==
  \/ \E j \in Jobs : Enqueue(j) \/ Claim(j) \/ Retry(j)
  \/ \E e \in Ids : Age(e) \/ Lose(e) \/ Deliver(e)
  \/ \E s \in Sweepers : SweepStep(s) \/ SweepCrash(s)

Spec == Init /\ [][Next]_vars

\* The scheduler invokes the worker every minute, put_events answers, the bus retries a
\* delivery until it is acknowledged, and time passes. Nobody promises that a job is claimed.
FairSpec ==
  /\ Spec
  /\ \A s \in Sweepers : WF_vars(SweepStep(s))
  /\ WF_vars(\E e \in Ids : Age(e)) /\ WF_vars(\E e \in Ids : Deliver(e))

-----------------------------------------------------------------------------
(* Properties *)

\* An entry that is marked published was accepted by the bus, whichever sweeps carried it,
\* and nothing reaches the bus before the attempt to send it is on record.
PublicationsAreHonest ==
  /\ \A e \in DOMAIN outbox : outbox[e].published => e \in sent
  /\ \A e \in sent : outbox[e].attempted

\* One entry the bus will not take does not hold up the others of its batch: each of them is
\* published in the end, crashes and overlapping sweeps or not.
EntriesArePublished ==
  LET Waiting(j) == \E e \in EntriesOf(j) : ~outbox[e].published
  IN \A j \in Jobs \ Undeliverable : Waiting(j) ~> ~Waiting(j)

\* A job that waits for a worker is woken again although its delivery was lost, its sweep
\* died or it went back to RETRY_WAIT, which writes no entry; up to the bound on entries.
JobsAreWoken ==
  LET Exhausted(j) == /\ Cardinality(EntriesOf(j)) >= MaxEntries
                      /\ \A e \in EntriesOf(j) : outbox[e].published /\ e \notin bus
  IN \A j \in Jobs \ Undeliverable :
       job[j] = "RUNNABLE" ~> (job[j] # "RUNNABLE" \/ j \in woken \/ Exhausted(j))

=============================================================================

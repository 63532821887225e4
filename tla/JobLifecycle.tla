---------------------------- MODULE JobLifecycle ----------------------------
(***************************************************************************)
(* What the durable job layer promises of a job, whoever works it: the     *)
(* life of one row, without workers, leases, clocks or transactions.       *)
(*                                                                         *)
(* A claim opens a new generation and burns an attempt; only the generation*)
(* that is open can commit a result or give up; a result is committed once *)
(* and is final; past its attempts a job runs only if an operator insists. *)
(* Several jobs may move in one step (a batch claim, a sweep, a disconnect)*)
(* and each moves as if it were alone.                                     *)
(***************************************************************************)
EXTENDS Naturals

CONSTANTS
  Jobs,
  CancellableJobs, \* jobs that a disconnect may cancel
  MaxAttempts

VARIABLES
  state,      \* the job's state
  generation, \* claims made of it: the fencing generation
  result      \* generations that have committed a result

lifeVars == <<state, generation, result>>

Runnable == {"QUEUED", "RETRY_WAIT"}

Init ==
  /\ state = [j \in Jobs |-> "ABSENT"]
  /\ generation = [j \in Jobs |-> 0]
  /\ result = [j \in Jobs |-> {}]

\* The job goes from one of `from` to `to`, in the same generation and with the same result.
Move(j, from, to) ==
  /\ state[j] \in from /\ state'[j] = to
  /\ generation'[j] = generation[j]
  /\ result'[j] = result[j]

Stay(j) == Move(j, {state[j]}, state[j])

Submit(j) == Move(j, {"ABSENT"}, "QUEUED")

Take(j) ==
  /\ state[j] \in Runnable /\ state'[j] = "RUNNING"
  /\ generation[j] < MaxAttempts
  /\ generation'[j] = generation[j] + 1
  /\ result'[j] = result[j]

\* The one result of the job, by its open generation.
Commit(j) ==
  /\ state[j] = "RUNNING" /\ state'[j] = "SUCCEEDED"
  /\ generation'[j] = generation[j]
  /\ result[j] = {} /\ result'[j] = {generation[j]}

\* After an error or a lost lease, while attempts are left.
Postpone(j) == generation[j] < MaxAttempts /\ Move(j, {"RUNNING"}, "RETRY_WAIT")

GiveUp(j) == Move(j, {"RUNNING"} \cup Runnable, "FAILED_REQUIRES_REVIEW")

\* The operator insists.
Reopen(j) == Move(j, {"FAILED_REQUIRES_REVIEW", "RETRY_WAIT"}, "RETRY_WAIT")

\* A disconnect may overtake the job wherever it is.
Cancel(j) ==
  /\ j \in CancellableJobs /\ state[j] # "ABSENT"
  /\ Move(j, {state[j]}, "CANCELLED")

Step(j) == \/ Stay(j) \/ Submit(j) \/ Take(j) \/ Commit(j) \/ Postpone(j)
           \/ GiveUp(j) \/ Reopen(j) \/ Cancel(j)

Next == \A j \in Jobs : Step(j)

Spec == Init /\ [][Next]_lifeVars
=============================================================================

---------------------------- MODULE MCDurableJobs ----------------------------
(***************************************************************************)
(* Instances of DurableJobs for TLC. The cfg files choose the jobs; which  *)
(* of them are analysis or Gmail jobs is named there by model value.       *)
(***************************************************************************)
EXTENDS DurableJobs, TLC

\* Workers are interchangeable: no definition of DurableJobs names one.
WorkerSymmetry == Permutations(Workers)
=============================================================================

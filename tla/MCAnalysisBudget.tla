-------------------------- MODULE MCAnalysisBudget --------------------------
(***************************************************************************)
(* Instances of AnalysisBudget for TLC; the bounds are in the cfg files.   *)
(***************************************************************************)
EXTENDS AnalysisBudget, TLC

CONSTANTS j1, j2, t1, r1

\* Two jobs of one tenant ...
SameTenant == (j1 :> t1) @@ (j2 :> t1)

\* ... and of one request: the one that was enqueued with it and one of POST /analyze.
SameRequest == (j1 :> r1) @@ (j2 :> r1)

\* Invocations and the two jobs are interchangeable: no definition names one.
Symmetry == Permutations(Workers) \cup Permutations(Jobs)
=============================================================================

-------------------------- MODULE MCScopeBaseline ---------------------------
(***************************************************************************)
(* Instances of ScopeBaseline.                                             *)
(***************************************************************************)
EXTENDS ScopeBaseline, TLC

Symmetry == Permutations(Tabs) \cup Permutations(Keys) \cup Permutations(Candidates)

=============================================================================

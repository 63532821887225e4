----------------------------- MODULE MCRouting ------------------------------
(***************************************************************************)
(* Instances of Routing: two messages of one thread.                       *)
(***************************************************************************)
EXTENDS Routing, TLC

OneThread == [m \in Messages |-> CHOOSE t \in Threads : TRUE]

Symmetry == Permutations(Projects) \cup Permutations(Messages) \cup Permutations(Tabs)

=============================================================================

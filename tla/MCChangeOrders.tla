--------------------------- MODULE MCChangeOrders ---------------------------
(***************************************************************************)
(* Instances of ChangeOrders for TLC.                                      *)
(***************************************************************************)
EXTENDS ChangeOrders, TLC

\* Client requests are interchangeable: no definition of ChangeOrders names one.
RequestSymmetry == Permutations(Requests)
=============================================================================

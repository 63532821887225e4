------------------------------ MODULE MCOutbox -------------------------------
(***************************************************************************)
(* Instances of Outbox: one job's entries are deliverable, one job's not.  *)
(***************************************************************************)
EXTENDS Outbox

CONSTANTS fine, oversized

=============================================================================

--------------------------- MODULE MCMailboxSync ----------------------------
(***************************************************************************)
(* Instances of MailboxSync.                                               *)
(***************************************************************************)
EXTENDS MailboxSync

=============================================================================

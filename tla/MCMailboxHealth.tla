-------------------------- MODULE MCMailboxHealth --------------------------
(***************************************************************************)
(* Instances of MailboxHealth for TLC.                                     *)
(***************************************************************************)
EXTENDS MailboxHealth, TLC
=============================================================================

----------------------------- MODULE MCMailSync -----------------------------
(***************************************************************************)
(* Instances of MailSync alone for TLC.                                    *)
(***************************************************************************)
EXTENDS MailSync, TLC

\* The ids of a mailbox's mails are its own.
OwnIds == [e \in Mails |-> e[2]]
=============================================================================

------------------------------ MODULE MCUpkeep ------------------------------
(***************************************************************************)
(* The instance of Upkeep for TLC.                                         *)
(***************************************************************************)
EXTENDS Upkeep, TLC

\* The ids of a mailbox's mails are its own.
OwnIds == [e \in Mails |-> e[2]]
=============================================================================

----------------------------- MODULE LeaseBook -----------------------------
(***************************************************************************)
(* What the pool promises about the mailboxes its tasks use, whatever the  *)
(* handlers that change them: a task is granted a mailbox at most once, a  *)
(* lease that has ended never comes back, and no mailbox is leased to more *)
(* than Cap tasks.                                                         *)
(***************************************************************************)
EXTENDS Naturals, FiniteSets

CONSTANTS
  Holders,  \* the tasks
  Boxes,    \* the mailboxes
  Cap,      \* the most leases of a mailbox at a time
  None      \* no mailbox yet

VARIABLES
  box,      \* the mailbox a holder has been granted
  active    \* the holders whose lease has not ended

bookVars == <<box, active>>

Leases(m) == {h \in active : box[h] = m}

BookInit ==
  /\ box = [h \in Holders |-> None]
  /\ active = {}

Grant(h, m) ==
  /\ box[h] = None
  /\ Cardinality(Leases(m)) < Cap
  /\ box' = [box EXCEPT ![h] = m]
  /\ active' = active \cup {h}

\* One handler may end several leases: a round of the monitor, a shared mail.
End(ended) ==
  /\ ended # {}
  /\ active' = active \ ended
  /\ UNCHANGED box

BookNext ==
  \/ \E h \in Holders, m \in Boxes : Grant(h, m)
  \/ \E ended \in SUBSET active : End(ended)

BookSpec == BookInit /\ [][BookNext]_bookVars
=============================================================================

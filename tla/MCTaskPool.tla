----------------------------- MODULE MCTaskPool -----------------------------
(***************************************************************************)
(* Instances of TaskPool for TLC.                                          *)
(***************************************************************************)
EXTENDS TaskPool, TLC

\* Tasks, mails and sessions are interchangeable in Init, Next and the safety
\* properties.
Symmetry ==
  Permutations(Tasks) \cup Permutations(Mails) \cup Permutations(Sessions)
=============================================================================

---------------------------- MODULE MCFetchQueue ----------------------------
(***************************************************************************)
(* Instances of FetchQueue for TLC.                                        *)
(***************************************************************************)
EXTENDS FetchQueue, TLC

\* Workers and mailboxes are interchangeable in Init, Next and the safety
\* properties.
Symmetry == Permutations(Consumers) \cup Permutations(Mailboxes)
=============================================================================

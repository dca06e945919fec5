---------------------------- MODULE UpkeepProofs ----------------------------
(***************************************************************************)
(* The theorems about Upkeep: what is proved of the sync of the mailboxes  *)
(* and of the queue holds of the two side by side.                         *)
(***************************************************************************)
EXTENDS Upkeep, MailSyncProofs, FetchQueueProofs

\* A behaviour of the upkeep is one of the sync and one of the queue, whatever is fair
\* of it.
THEOREM SyncAndQueue == UpkeepSpec => MailSpec /\ Spec
<1>1. UpkeepInit => MailInit /\ Init
  BY DEF UpkeepInit
<1>2. [UpkeepNext]_upkeepVars => [MailNext]_mailVars
  BY DEF UpkeepNext, MailPart, QueuePart, upkeepVars
<1>3. [UpkeepNext]_upkeepVars => [Next]_vars
  BY DEF UpkeepNext, MailPart, QueuePart, upkeepVars
<1>. QED  BY <1>1, <1>2, <1>3, PTL DEF UpkeepSpec, MailSpec, Spec

\* What holds of the sync and of the queue alone holds of them side by side, as the run
\* checks it; OnePending as long as neither retries nor rounds of one kind overlap, which
\* takes two operators or two schedulers.
THEOREM UpkeepIsSafe ==
  UpkeepSpec =>
    /\ []MailTypeOK /\ []NothingBehindCursor
    /\ []RetriesApart /\ []RoundsApart => []OnePending
  BY SyncAndQueue, MailTyping, CursorSafe, PendingOnce, PTL
=============================================================================

------------------------------- MODULE Upkeep -------------------------------
(***************************************************************************)
(* What keeps mail coming, side by side: the queue of background jobs and  *)
(* the syncs that its jobs are.  As in Services a behaviour is one of one  *)
(* of them, the other standing still: the queue leaves open how a job      *)
(* ends, and the sync how often it is called.                              *)
(***************************************************************************)
EXTENDS MailSync, FetchQueue

VARIABLE part  \* the component this behaviour is one of

upkeepVars == <<part, mailVars, vars>>

\* A component that stands still does so in one of its initial states.
UpkeepInit ==
  /\ part \in {"mail", "queue"}
  /\ MailInit /\ Init
  /\ part # "mail" =>
       provider = (CHOOSE f \in [Inboxes -> Kinds] : TRUE) /\ unreadable = {}

MailPart == part = "mail" /\ MailNext /\ UNCHANGED <<part, vars>>
QueuePart == part = "queue" /\ Next /\ UNCHANGED <<part, mailVars>>

UpkeepNext == MailPart \/ QueuePart

\* MailFairSpec and FairSpec, each where that component runs.
UpkeepFairness ==
  /\ \A s \in Workers :
       WF_mailVars(part = "mail" /\ (SyncFetch(s, {}) \/ SyncRaises(s) \/ SessionStep(s)))
  /\ \A m \in Inboxes :
       /\ SF_mailVars(part = "mail" /\ \E s \in Workers : SyncRead(s, m))
       /\ SF_mailVars(part = "mail" /\ \E s \in Workers : job[s].box = m /\ SyncFetch(s, {}))
  /\ \A w \in Consumers : WF_vars(part = "queue" /\ WorkerStep(w))
  /\ \A s \in Schedulers : WF_vars(part = "queue" /\ RecoverStep(s))
  /\ \A j \in Jobs :
       /\ WF_vars(part = "queue" /\ BecomeDue(j))
       /\ WF_vars(part = "queue" /\ BecomeStale(j))

UpkeepSpec == UpkeepInit /\ [][UpkeepNext]_upkeepVars /\ UpkeepFairness
=============================================================================

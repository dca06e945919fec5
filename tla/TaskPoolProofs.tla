--------------------------- MODULE TaskPoolProofs ---------------------------
(***************************************************************************)
(* Theorems about TaskPool, for every set of tasks, mailboxes, mails,      *)
(* sessions and schedulers and every value of the pool's settings.         *)
(***************************************************************************)
EXTENDS TaskPool, FiniteSetTheorems, TLAPS

-----------------------------------------------------------------------------
(* What a session's copy holds *)

\* The copy that an open session holds has the fields of its handler.
LEMMA CopyFields ==
  ASSUME NEW c \in Copies
  PROVE  /\ c.op = "cancel" => c.task \in Tasks /\ c.held \subseteq Mailboxes
         /\ c.op = "claim" => /\ c.task \in Tasks /\ c.held \subseteq Mailboxes
                              /\ c.box \in Mailboxes \cup {None} /\ c.done \in BOOLEAN
         /\ c.op = "allocate" => c.box \in Mailboxes
         /\ c.op = "release" => c.held \subseteq Mailboxes
         /\ c.op = "cooldown" => c.boxes \subseteq Mailboxes /\ c.popped \subseteq Mailboxes
         /\ c.op = "health" => /\ c.box \in Mailboxes /\ c.seen \in Statuses
                               /\ c.well \in BOOLEAN
         /\ c.op = "sync" => /\ c.box \in Mailboxes /\ c.until \in Untils
                             /\ c.well \in BOOLEAN /\ c.held \subseteq Mailboxes
         /\ c.op = "dispatch" => /\ c.task \in Tasks /\ c.mail \in Mails
                                 /\ c.sent \in Nat \ {0} /\ c.held \subseteq Mailboxes
                                 /\ c.waiting \in BOOLEAN
         /\ c.op = "recover" => c.task \in Tasks /\ c.mail \in Mails
  BY DEF Copies, Idle

\* A session that is opened with a copy of the right form is well typed, and so
\* is one that is closed.
LEMMA OpenTypes ==
  ASSUME SessTypes, NEW s \in Sessions, NEW op, NEW copy \in Copies, Open(s, op, copy)
  PROVE  SessTypes'
  BY DEF SessTypes, Open

LEMMA CloseTypes ==
  ASSUME SessTypes, NEW s \in Sessions, NEW op, Close(s, op)
  PROVE  SessTypes'
  BY DEF SessTypes, Close, Copies

LEMMA ReleaseTypes ==
  ASSUME BoxTypes, NEW held, Release(held)
  PROVE  /\ status' \in [Mailboxes -> Statuses]
         /\ until' \in [Mailboxes -> Untils]
  BY DEF BoxTypes, Release, Statuses, Untils

-----------------------------------------------------------------------------
(* Type correctness: one step per action *)

\* The types of everything but the history.
Columns == TaskTypes /\ BoxTypes /\ MailTypes /\ SessTypes /\ MonTypes

LEMMA TypeInit == Init => TypeOK
  BY DEF Init, TypeOK, TaskTypes, BoxTypes, MailTypes, SessTypes, MonTypes, HistoryTypes,
         TaskStates, Statuses, Callbacks, Untils, DeliveryStates, Copies, Rounds, Idle, MonitorIdle

LEMMA ClientTypes ==
  ASSUME TypeOK,
         \/ \E t \in Tasks, p \in Projects \cup {None}, url \in BOOLEAN : CreateTask(t, p, url)
         \/ \E s \in Sessions, t \in Tasks : CancelRead(s, t) \/ ClaimRead(s, t)
         \/ \E s \in Sessions : CancelCommit(s)
         \/ \E s \in Sessions, o \in {"success", "failed"} : ClaimCommit(s, o)
  PROVE  Columns'
<1>. USE DEF TypeOK, Columns
<1>1. ASSUME NEW t \in Tasks, NEW p \in Projects \cup {None}, NEW url \in BOOLEAN,
             CreateTask(t, p, url)
      PROVE  Columns'
  <2>1. TaskTypes'
    BY <1>1 DEF CreateTask, TaskTypes, TaskStates, Callbacks, Allocatable
  <2>2. BoxTypes'
    BY <1>1 DEF CreateTask, BoxTypes, Statuses, Allocatable
  <2>3. MailTypes' /\ SessTypes' /\ MonTypes'
    BY <1>1 DEF CreateTask, MailTypes, SessTypes, MonTypes, mailVars
  <2>. QED  BY <2>1, <2>2, <2>3
<1>2. ASSUME NEW s \in Sessions, NEW t \in Tasks, CancelRead(s, t)
      PROVE  Columns'
  <2>1. [op |-> "cancel", task |-> t, held |-> HeldBy(t)] \in Copies
    BY DEF Copies, HeldBy
  <2>2. SessTypes'
    BY <1>2, <2>1, OpenTypes DEF CancelRead
  <2>. QED  BY <1>2, <2>2 DEF CancelRead, TaskTypes, BoxTypes, MailTypes, MonTypes,
                              taskVars, boxVars, mailVars
<1>3. ASSUME NEW s \in Sessions, NEW t \in Tasks, ClaimRead(s, t)
      PROVE  Columns'
  <2>1. [op |-> "claim", task |-> t, box |-> mbox[t], held |-> HeldBy(t),
         done |-> state[t] = "COMPLETED"] \in Copies
    BY DEF Copies, HeldBy, TaskTypes
  <2>2. SessTypes'
    BY <1>3, <2>1, OpenTypes DEF ClaimRead
  <2>. QED  BY <1>3, <2>2 DEF ClaimRead, TaskTypes, BoxTypes, MailTypes, MonTypes,
                              taskVars, boxVars, mailVars
<1>4. ASSUME NEW s \in Sessions, CancelCommit(s)
      PROVE  Columns'
  <2>1. sess[s] \in Copies /\ sess[s].op = "cancel"
    BY <1>4 DEF CancelCommit, Close, SessTypes
  <2>2. sess[s].task \in Tasks
    BY <2>1, CopyFields
  <2>3. TaskTypes'
    BY <1>4, <2>2 DEF CancelCommit, TaskTypes, TaskStates
  <2>4. BoxTypes'
    BY <1>4, ReleaseTypes DEF CancelCommit, BoxTypes
  <2>5. SessTypes'
    BY <1>4, CloseTypes DEF CancelCommit
  <2>. QED  BY <1>4, <2>3, <2>4, <2>5 DEF CancelCommit, MailTypes, MonTypes, mailVars
<1>5. ASSUME NEW s \in Sessions, NEW o \in {"success", "failed"}, ClaimCommit(s, o)
      PROVE  Columns'
  <2>1. sess[s] \in Copies /\ sess[s].op = "claim"
    BY <1>5 DEF ClaimCommit, Close, SessTypes
  <2>2. sess[s].task \in Tasks
    BY <2>1, CopyFields
  <2>3. TaskTypes'
    BY <1>5, <2>2 DEF ClaimCommit, TaskTypes, TaskStates
  <2>4. BoxTypes'
    <3>1. CASE /\ status' = [m \in Mailboxes |->
                               IF m \in sess[s].held THEN "AVAILABLE" ELSE status[m]]
               /\ UNCHANGED until
      BY <1>5, <3>1 DEF ClaimCommit, BoxTypes, Statuses
    <3>2. CASE Release(sess[s].held)
      BY <1>5, <3>2, ReleaseTypes DEF ClaimCommit, BoxTypes
    <3>. QED  BY <1>5, <3>1, <3>2 DEF ClaimCommit
  <2>5. SessTypes'
    BY <1>5, CloseTypes DEF ClaimCommit
  <2>. QED  BY <1>5, <2>3, <2>4, <2>5 DEF ClaimCommit, MailTypes, MonTypes, mailVars
<1>. QED  BY <1>1, <1>2, <1>3, <1>4, <1>5
LEMMA OperatorTypes ==
  ASSUME TypeOK,
         \/ \E s \in Sessions, m \in Mailboxes : AllocateRead(s, m) \/ ReleaseRead(s, m)
         \/ \E s \in Sessions : AllocateCommit(s) \/ ReleaseCommit(s)
         \/ \E m \in Mailboxes, to \in Statuses : PatchStatus(m, to)
  PROVE  Columns'
<1>. USE DEF TypeOK, Columns
<1>1. ASSUME NEW s \in Sessions, NEW m \in Mailboxes, AllocateRead(s, m)
      PROVE  Columns'
  <2>1. [op |-> "allocate", box |-> m] \in Copies
    BY DEF Copies
  <2>2. SessTypes'
    BY <1>1, <2>1, OpenTypes DEF AllocateRead
  <2>. QED  BY <1>1, <2>2 DEF AllocateRead, TaskTypes, BoxTypes, MailTypes, MonTypes,
                              taskVars, boxVars, mailVars
<1>2. ASSUME NEW s \in Sessions, NEW m \in Mailboxes, ReleaseRead(s, m)
      PROVE  Columns'
  <2>1. [op |-> "release", held |-> {m}] \in Copies
    BY DEF Copies
  <2>2. SessTypes'
    BY <1>2, <2>1, OpenTypes DEF ReleaseRead
  <2>. QED  BY <1>2, <2>2 DEF ReleaseRead, TaskTypes, BoxTypes, MailTypes, MonTypes,
                              taskVars, boxVars, mailVars
<1>3. ASSUME NEW s \in Sessions, AllocateCommit(s)
      PROVE  Columns'
  <2>1. SessTypes'
    BY <1>3, CloseTypes DEF AllocateCommit
  <2>2. BoxTypes'
    BY <1>3 DEF AllocateCommit, BoxTypes, Statuses
  <2>. QED  BY <1>3, <2>1, <2>2 DEF AllocateCommit, TaskTypes, MailTypes, MonTypes,
                                    taskVars, mailVars
<1>4. ASSUME NEW s \in Sessions, ReleaseCommit(s)
      PROVE  Columns'
  <2>1. SessTypes'
    BY <1>4, CloseTypes DEF ReleaseCommit
  <2>2. BoxTypes'
    BY <1>4, ReleaseTypes DEF ReleaseCommit, BoxTypes
  <2>. QED  BY <1>4, <2>1, <2>2 DEF ReleaseCommit, TaskTypes, MailTypes, MonTypes,
                                    taskVars, mailVars
<1>5. ASSUME NEW m \in Mailboxes, NEW to \in Statuses, PatchStatus(m, to)
      PROVE  Columns'
  BY <1>5 DEF PatchStatus, TaskTypes, BoxTypes, MailTypes, SessTypes, MonTypes,
              taskVars, mailVars
<1>. QED  BY <1>1, <1>2, <1>3, <1>4, <1>5

LEMMA UpkeepTypes ==
  ASSUME TypeOK,
         \/ \E s \in Sessions : CooldownRead(s) \/ CooldownCommit(s)
         \/ \E s \in Sessions, m \in Mailboxes : HealthRead(s, m)
         \/ \E s \in Sessions, ok \in BOOLEAN, threshold \in BOOLEAN :
              HealthCommit(s, ok, threshold)
         \/ \E m \in Mailboxes : CooldownElapse(m)
         \/ \E t \in Tasks : Expire(t)
         \/ Midnight
  PROVE  Columns'
<1>. USE DEF TypeOK, Columns
<1>1. ASSUME NEW s \in Sessions, CooldownRead(s)
      PROVE  Columns'
  <2>. DEFINE due == {m \in Mailboxes : status[m] = "COOLDOWN" /\ until[m] \in {"none", "elapsed"}}
              copy == [op |-> "cooldown", boxes |-> due,
                       popped |-> {m \in due : until[m] = "elapsed"}]
  <2>1. copy \in Copies
    BY DEF Copies
  <2>2. Open(s, "cooldown", copy)
    BY <1>1 DEF Cooled, CooldownRead
  <2>3. SessTypes'
    BY <2>1, <2>2, OpenTypes
  <2>. QED  BY <1>1, <2>3 DEF Cooled, CooldownRead, TaskTypes, BoxTypes, MailTypes, MonTypes,
                              taskVars, boxVars, mailVars
<1>2. ASSUME NEW s \in Sessions, CooldownCommit(s)
      PROVE  Columns'
  <2>1. SessTypes'
    BY <1>2, CloseTypes DEF CooldownCommit
  <2>2. BoxTypes'
    BY <1>2 DEF CooldownCommit, BoxTypes, Statuses, Untils
  <2>. QED  BY <1>2, <2>1, <2>2 DEF CooldownCommit, TaskTypes, MailTypes, MonTypes,
                                    taskVars, mailVars
<1>3. ASSUME NEW s \in Sessions, NEW m \in Mailboxes, HealthRead(s, m)
      PROVE  Columns'
  <2>1. [op |-> "health", box |-> m, seen |-> status[m], well |-> healthy[m]] \in Copies
    BY DEF Copies, BoxTypes
  <2>2. SessTypes'
    BY <1>3, <2>1, OpenTypes DEF HealthRead
  <2>. QED  BY <1>3, <2>2 DEF HealthRead, TaskTypes, BoxTypes, MailTypes, MonTypes,
                              taskVars, boxVars, mailVars
<1>4. ASSUME NEW s \in Sessions, NEW ok \in BOOLEAN, NEW threshold \in BOOLEAN,
             HealthCommit(s, ok, threshold)
      PROVE  Columns'
  <2>1. SessTypes'
    BY <1>4, CloseTypes DEF HealthCommit
  <2>2. healthy' \in [Mailboxes -> BOOLEAN]
    BY <1>4 DEF HealthCommit, BoxTypes
  <2>3. status' \in [Mailboxes -> Statuses]
    BY <1>4 DEF HealthCommit, BoxTypes, Statuses
  <2>. QED  BY <1>4, <2>1, <2>2, <2>3 DEF HealthCommit, TaskTypes, BoxTypes, MailTypes,
                                          MonTypes, taskVars, mailVars
<1>5. ASSUME NEW m \in Mailboxes, CooldownElapse(m)
      PROVE  Columns'
  BY <1>5 DEF CooldownElapse, TaskTypes, BoxTypes, MailTypes, SessTypes, MonTypes, Untils,
              taskVars, mailVars
<1>6. ASSUME NEW t \in Tasks, Expire(t)
      PROVE  Columns'
  BY <1>6 DEF Expire, TaskTypes, BoxTypes, MailTypes, SessTypes, MonTypes, boxVars, mailVars
<1>7. ASSUME Midnight
      PROVE  Columns'
  BY <1>7 DEF Midnight, TaskTypes, BoxTypes, MailTypes, SessTypes, MonTypes, boxVars, mailVars
<1>. QED  BY <1>1, <1>2, <1>3, <1>4, <1>5, <1>6, <1>7
LEMMA SyncTypes ==
  ASSUME TypeOK, NEW s \in Sessions,
         \/ \E m \in Mailboxes : SyncRead(s, m)
         \/ \E e \in Mails, hit \in SUBSET Tasks : IngestPlain(s, e, hit) \/ IngestResult(s, e, hit)
         \/ \E moved \in BOOLEAN : SyncCommit(s, moved)
         \/ SyncGiveUp(s)
  PROVE  Columns'
<1>. USE DEF TypeOK, Columns
<1>1. ASSUME NEW m \in Mailboxes, SyncRead(s, m)
      PROVE  Columns'
  <2>1. SyncCopy(m, until[m], healthy[m], {x \in {m} : status[x] = "IN_USE"}) \in Copies
    BY DEF SyncCopy, Copies, BoxTypes
  <2>2. SessTypes'
    BY <1>1, <2>1, OpenTypes DEF SyncRead
  <2>. QED  BY <1>1, <2>2 DEF SyncRead, TaskTypes, BoxTypes, MailTypes, MonTypes,
                              taskVars, boxVars, mailVars
<1>2. ASSUME NEW e \in Mails, NEW hit \in SUBSET Tasks, IngestPlain(s, e, hit)
      PROVE  Columns'
  <2>1. TaskTypes'
    BY <1>2 DEF IngestPlain, TaskTypes, TaskStates
  <2>. QED  BY <1>2, <2>1 DEF IngestPlain, Ingesting, BoxTypes, MailTypes, SessTypes,
                              MonTypes, boxVars
<1>3. ASSUME NEW e \in Mails, NEW hit \in SUBSET Tasks, IngestResult(s, e, hit)
      PROVE  Columns'
  <2>1. TaskTypes'
    BY <1>3 DEF IngestResult, TaskTypes, TaskStates, Callbacks
  <2>2. BoxTypes'
    BY <1>3, ReleaseTypes DEF IngestResult, BoxTypes
  <2>3. MailTypes'
    BY <1>3 DEF Enqueued, IngestResult, Ingesting, MailTypes, DeliveryStates
  <2>4. SessTypes'
    <3>. DEFINE copy  == sess[s]
                freed == {m \in copy.held : hit # {t \in hit : callback[t] # "NO_URL"}}
                u     == IF freed # {} /\ HasCooldown THEN "running" ELSE copy.until
    <3>1. copy \in Copies /\ copy.op = "sync"
      BY <1>3 DEF IngestResult, Ingesting, SessTypes
    <3>2. /\ copy.box \in Mailboxes /\ copy.until \in Untils
          /\ copy.well \in BOOLEAN /\ copy.held \subseteq Mailboxes
      BY <3>1, CopyFields
    <3>3. u \in Untils /\ copy.held \ freed \subseteq Mailboxes
      BY <3>2 DEF Untils
    <3>4. SyncCopy(copy.box, u, copy.well, copy.held \ freed) \in Copies
      BY <3>2, <3>3 DEF SyncCopy, Copies
    <3>5. sess' = [sess EXCEPT ![s] = SyncCopy(copy.box, u, copy.well, copy.held \ freed)]
      BY <1>3 DEF IngestResult
    <3>. QED  BY <3>4, <3>5 DEF SessTypes
  <2>5. MonTypes'
    BY <1>3 DEF IngestResult, Ingesting, MonTypes
  <2>. QED  BY <2>1, <2>2, <2>3, <2>4, <2>5
<1>4. ASSUME NEW moved \in BOOLEAN, SyncCommit(s, moved)
      PROVE  Columns'
  <2>1. sess[s] \in Copies /\ sess[s].op = "sync"
    BY <1>4 DEF SyncCommit, SessTypes
  <2>2. sess[s].until \in Untils
    BY <2>1, CopyFields
  <2>3. BoxTypes'
    BY <1>4, <2>2 DEF SyncCommit, BoxTypes, Untils
  <2>. QED  BY <1>4, <2>3 DEF SyncCommit, TaskTypes, MailTypes, SessTypes, Copies, MonTypes,
                              taskVars, mailVars
<1>5. ASSUME SyncGiveUp(s)
      PROVE  Columns'
  BY <1>5 DEF SyncGiveUp, TaskTypes, BoxTypes, MailTypes, SessTypes, Copies, MonTypes,
              taskVars, mailVars
<1>. QED  BY <1>1, <1>2, <1>3, <1>4, <1>5

LEMMA DispatchTypes ==
  ASSUME TypeOK,
         \/ \E s \in Sessions, t \in Tasks, e \in Mails :
              DispatchClaim(s, t, e) \/ RecoverRead(s, t, e)
         \/ \E s \in Sessions : DispatchOk(s) \/ DispatchFail(s) \/ RecoverCommit(s)
  PROVE  Columns'
<1>. USE DEF TypeOK, Columns
<1>1. ASSUME NEW s \in Sessions, NEW t \in Tasks, NEW e \in Mails, DispatchClaim(s, t, e)
      PROVE  Columns'
  <2>0. attempt[<<t, e>>] \in Nat
    BY DEF MailTypes
  <2>1. [op |-> "dispatch", task |-> t, mail |-> e, sent |-> attempt[<<t, e>>] + 1,
         held |-> HeldBy(t), waiting |-> state[t] = "WAITING_CALLBACK"] \in Copies
    BY <2>0 DEF Copies, HeldBy
  <2>2. SessTypes'
    BY <1>1, <2>1, OpenTypes DEF DispatchClaim
  <2>3. MailTypes'
    BY <1>1 DEF DispatchClaim, MailTypes, DeliveryStates
  <2>. QED  BY <1>1, <2>2, <2>3 DEF DispatchClaim, TaskTypes, BoxTypes, MonTypes,
                                    taskVars, boxVars
<1>2. ASSUME NEW s \in Sessions, DispatchOk(s)
      PROVE  Columns'
  <2>1. sess[s] \in Copies /\ sess[s].op = "dispatch"
    BY <1>2 DEF DispatchOk, Close, SessTypes
  <2>2. sess[s].task \in Tasks /\ sess[s].mail \in Mails /\ sess[s].sent \in Nat
    BY <2>1, CopyFields
  <2>3. TaskTypes'
    BY <1>2, <2>2 DEF DispatchOk, TaskTypes, TaskStates, Callbacks
  <2>4. BoxTypes'
    BY <1>2, ReleaseTypes DEF DispatchOk, BoxTypes
  <2>5. MailTypes'
    BY <1>2, <2>2 DEF DispatchOk, MailTypes, DeliveryStates
  <2>6. SessTypes'
    BY <1>2, CloseTypes DEF DispatchOk
  <2>. QED  BY <1>2, <2>3, <2>4, <2>5, <2>6 DEF DispatchOk, MonTypes
<1>3. ASSUME NEW s \in Sessions, DispatchFail(s)
      PROVE  Columns'
  <2>1. sess[s] \in Copies /\ sess[s].op = "dispatch"
    BY <1>3 DEF DispatchFail, Close, SessTypes
  <2>2. sess[s].task \in Tasks /\ sess[s].mail \in Mails /\ sess[s].sent \in Nat
    BY <2>1, CopyFields
  <2>3. TaskTypes'
    BY <1>3, <2>2 DEF Exhausted, DispatchFail, TaskTypes, Callbacks
  <2>4. MailTypes'
    BY <1>3, <2>2 DEF Exhausted, DispatchFail, MailTypes, DeliveryStates
  <2>5. SessTypes'
    BY <1>3, CloseTypes DEF DispatchFail
  <2>. QED  BY <1>3, <2>3, <2>4, <2>5 DEF DispatchFail, BoxTypes, MonTypes, boxVars
<1>4. ASSUME NEW s \in Sessions, NEW t \in Tasks, NEW e \in Mails, RecoverRead(s, t, e)
      PROVE  Columns'
  <2>1. [op |-> "recover", task |-> t, mail |-> e] \in Copies
    BY DEF Copies
  <2>2. SessTypes'
    BY <1>4, <2>1, OpenTypes DEF RecoverRead
  <2>. QED  BY <1>4, <2>2 DEF RecoverRead, TaskTypes, BoxTypes, MailTypes, MonTypes,
                              taskVars, boxVars, mailVars
<1>5. ASSUME NEW s \in Sessions, RecoverCommit(s)
      PROVE  Columns'
  <2>1. SessTypes'
    BY <1>5, CloseTypes DEF RecoverCommit
  <2>2. MailTypes'
    BY <1>5 DEF RecoverCommit, MailTypes, DeliveryStates
  <2>. QED  BY <1>5, <2>1, <2>2 DEF RecoverCommit, TaskTypes, BoxTypes, MonTypes,
                                    taskVars, boxVars
<1>. QED  BY <1>1, <1>2, <1>3, <1>4, <1>5

LEMMA MonitorTypes ==
  ASSUME TypeOK, NEW w \in Schedulers, MonitorStep(w) \/ MonitorAbort(w)
  PROVE  Columns'
<1>. USE DEF TypeOK, Columns
<1>1. CASE MonitorRead(w)
  <2>1. MonTypes'
    BY <1>1 DEF MonitorRead, MonTypes, TaskTypes, Rounds, Sweeping, Serving, Lapsed, Waiting, HeldBy
  <2>. QED  BY <1>1, <2>1 DEF MonitorRead, TaskTypes, BoxTypes, MailTypes, SessTypes,
                              taskVars, boxVars, mailVars
<1>2. CASE MonitorSweep(w)
  <2>1. TaskTypes'
    BY <1>2 DEF MonitorSweep, TaskTypes, TaskStates
  <2>2. BoxTypes'
    BY <1>2, ReleaseTypes DEF MonitorSweep, BoxTypes
  <2>3. MonTypes'
    BY <1>2 DEF MonitorSweep, MonTypes, Rounds, Serving, Waiting
  <2>. QED  BY <1>2, <2>1, <2>2, <2>3 DEF MonitorSweep, MailTypes, SessTypes, mailVars
<1>3. ASSUME NEW t \in Tasks, NEW m \in Mailboxes, MonitorPlan(w, t, m)
      PROVE  Columns'
  <2>1. MonTypes'
    BY <1>3 DEF MonitorPlan, MonTypes, Rounds, Planned
  <2>. QED  BY <1>3, <2>1 DEF MonitorPlan, TaskTypes, BoxTypes, MailTypes, SessTypes,
                              taskVars, boxVars, mailVars
<1>4. ASSUME NEW t \in Tasks, MonitorSkip(w, t)
      PROVE  Columns'
  <2>1. MonTypes'
    BY <1>4 DEF MonitorSkip, MonTypes, Rounds, Serving
  <2>. QED  BY <1>4, <2>1 DEF MonitorSkip, TaskTypes, BoxTypes, MailTypes, SessTypes,
                              taskVars, boxVars, mailVars
<1>5. CASE MonitorAssign(w)
  <2>1. mon[w].task \in Tasks /\ mon[w].box \in Mailboxes
    BY <1>5 DEF MonitorAssign, Monitoring, MonTypes
  <2>2. TaskTypes'
    BY <1>5, <2>1 DEF Assigned, MonitorAssign, TaskTypes, TaskStates
  <2>3. BoxTypes'
    BY <1>5, <2>1 DEF MonitorAssign, BoxTypes, Statuses
  <2>4. MonTypes'
    BY <1>5 DEF MonitorAssign, MonTypes, Rounds, Serving
  <2>. QED  BY <1>5, <2>2, <2>3, <2>4 DEF MonitorAssign, MailTypes, SessTypes, mailVars
<1>6. CASE MonitorCommit(w) \/ MonitorAbort(w)
  <2>1. MonTypes'
    BY <1>6 DEF MonitorCommit, MonitorAbort, MonTypes, Rounds, MonitorIdle
  <2>. QED  BY <1>6, <2>1 DEF MonitorCommit, MonitorAbort, TaskTypes, BoxTypes, MailTypes,
                              SessTypes, taskVars, boxVars, mailVars
<1>. QED  BY <1>1, <1>2, <1>3, <1>4, <1>5, <1>6 DEF MonitorStep

\* The history grows by tasks that a monitor assigns and by recoveries.
LEMMA SessionHistory ==
  ASSUME HistoryTypes, NEW s \in Sessions,
         \/ Begin(s) \/ Finish(s) \/ Abort(s)
         \/ \E e \in Mails, hit \in SUBSET Tasks : IngestPlain(s, e, hit) \/ IngestResult(s, e, hit)
  PROVE  HistoryTypes'
<1>1. CASE RecoverCommit(s)
  <2>. DEFINE d == <<sess[s].task, sess[s].mail>>
  <2>1. UNCHANGED regranted /\ (revived' = [revived EXCEPT ![d] = @ + 1] \/ UNCHANGED revived)
    BY <1>1 DEF RecoverCommit
  <2>. QED  BY <2>1 DEF HistoryTypes
<1>2. CASE Begin(s)
  BY <1>2 DEF Begin, CancelRead, ClaimRead, AllocateRead, ReleaseRead, HealthRead, SyncRead,
              CooldownRead, DispatchClaim, RecoverRead, history, HistoryTypes
<1>3. CASE \/ CancelCommit(s) \/ AllocateCommit(s) \/ ReleaseCommit(s) \/ CooldownCommit(s)
           \/ \E o \in {"success", "failed"} : ClaimCommit(s, o)
           \/ \E ok \in BOOLEAN, threshold \in BOOLEAN : HealthCommit(s, ok, threshold)
           \/ (\E moved \in BOOLEAN : SyncCommit(s, moved)) \/ SyncGiveUp(s)
           \/ DispatchOk(s) \/ DispatchFail(s) \/ Abort(s)
           \/ \E e \in Mails, hit \in SUBSET Tasks :
                IngestPlain(s, e, hit) \/ IngestResult(s, e, hit)
  <2>1. UNCHANGED history
    BY <1>3 DEF CancelCommit, ClaimCommit, AllocateCommit, ReleaseCommit, CooldownCommit,
                HealthCommit, SyncCommit, SyncGiveUp, DispatchOk, DispatchFail, Abort,
                IngestPlain, IngestResult
  <2>. QED  BY <2>1 DEF history, HistoryTypes
<1>. QED  BY <1>1, <1>2, <1>3 DEF Finish

LEMMA MonitorHistory ==
  ASSUME TypeOK, NEW w \in Schedulers, MonitorStep(w) \/ MonitorAbort(w)
  PROVE  HistoryTypes'
<1>1. CASE MonitorAssign(w)
  <2>1. mon[w].task \in Tasks
    BY <1>1 DEF MonitorAssign, Monitoring, TypeOK, MonTypes
  <2>. QED  BY <1>1, <2>1 DEF MonitorAssign, TypeOK, HistoryTypes
<1>2. CASE \/ MonitorRead(w) \/ MonitorSweep(w) \/ MonitorCommit(w) \/ MonitorAbort(w)
           \/ \E t \in Tasks : MonitorSkip(w, t) \/ \E m \in Mailboxes : MonitorPlan(w, t, m)
  <2>1. UNCHANGED history
    BY <1>2 DEF MonitorRead, MonitorSweep, MonitorCommit, MonitorAbort, MonitorSkip, MonitorPlan
  <2>. QED  BY <2>1 DEF history, TypeOK, HistoryTypes
<1>. QED  BY <1>1, <1>2 DEF MonitorStep

LEMMA TypeStep == TypeOK /\ [Next]_vars => TypeOK'
<1>. SUFFICES ASSUME TypeOK, [Next]_vars  PROVE Columns' /\ HistoryTypes'
  BY DEF TypeOK, Columns
<1>1. ASSUME NEW s \in Sessions, Begin(s) \/ Finish(s) \/ Abort(s)
      PROVE  Columns' /\ HistoryTypes'
  <2>. HistoryTypes'
    BY <1>1, SessionHistory DEF TypeOK
  <2>1. CASE Begin(s)
    BY <2>1, ClientTypes, OperatorTypes, UpkeepTypes, SyncTypes, DispatchTypes DEF Begin
  <2>2. CASE Finish(s)
    BY <2>2, ClientTypes, OperatorTypes, UpkeepTypes, SyncTypes, DispatchTypes DEF Finish
  <2>3. CASE Abort(s)
    BY <2>3 DEF Abort, TypeOK, Columns, TaskTypes, BoxTypes, MailTypes, SessTypes, Copies,
                MonTypes, taskVars, boxVars, mailVars
  <2>. QED  BY <1>1, <2>1, <2>2, <2>3
<1>2. CASE UNCHANGED vars
  BY <1>2 DEF vars, taskVars, boxVars, mailVars, history, TypeOK, Columns, TaskTypes, BoxTypes,
              MailTypes, SessTypes, MonTypes, HistoryTypes
<1>3. CASE \/ \E t \in Tasks, p \in Projects \cup {None}, url \in BOOLEAN : CreateTask(t, p, url)
           \/ \E m \in Mailboxes, to \in Statuses : PatchStatus(m, to)
           \/ \E t \in Tasks : Expire(t)
           \/ \E m \in Mailboxes : CooldownElapse(m)
           \/ Midnight
  <2>1. UNCHANGED history
    BY <1>3 DEF CreateTask, PatchStatus, Expire, CooldownElapse, Midnight
  <2>2. HistoryTypes'
    BY <2>1 DEF history, TypeOK, HistoryTypes
  <2>. QED  BY <1>3, <2>2, ClientTypes, OperatorTypes, UpkeepTypes
<1>4. ASSUME NEW s \in Sessions,
             \E e \in Mails, hit \in SUBSET Tasks : IngestPlain(s, e, hit) \/ IngestResult(s, e, hit)
      PROVE  Columns' /\ HistoryTypes'
  BY <1>4, SyncTypes, SessionHistory DEF TypeOK
<1>5. ASSUME NEW w \in Schedulers, MonitorStep(w) \/ MonitorAbort(w)
      PROVE  Columns' /\ HistoryTypes'
  BY <1>5, MonitorTypes, MonitorHistory
<1>. QED  BY <1>1, <1>2, <1>3, <1>4, <1>5 DEF Next

\* Every variable keeps the type of the column, copy or round it stands for.
THEOREM Typing == Spec => []TypeOK
  BY TypeInit, TypeStep, PTL DEF Spec
-----------------------------------------------------------------------------
(* Leases *)

\* A step that grants no mailbox and plans no grant: a task keeps its state, ends,
\* or receives the mail it waited for.
NoGrant ==
  /\ UNCHANGED mbox
  /\ \A t \in Tasks :
       \/ state'[t] = state[t]
       \/ state'[t] \in TERMINAL_STATES
       \/ /\ state[t] = "WAITING_EMAIL" /\ mbox[t] # None
          /\ state'[t] \in {"EMAIL_RECEIVED", "WAITING_CALLBACK"}
  /\ \A w \in Schedulers : mon'[w].phase = "plan" => mon'[w] = mon[w]

LEMMA SessionsGrantNothing ==
  ASSUME TypeOK, NEW s \in Sessions,
         \/ Begin(s) \/ Finish(s) \/ Abort(s)
         \/ \E e \in Mails, hit \in SUBSET Tasks : IngestPlain(s, e, hit) \/ IngestResult(s, e, hit)
  PROVE  NoGrant
<1>. USE DEF TypeOK, TERMINAL_STATES
<1>1. CASE Begin(s)
  BY <1>1 DEF Begin, CancelRead, ClaimRead, AllocateRead, ReleaseRead, HealthRead, SyncRead,
              CooldownRead, DispatchClaim, RecoverRead, taskVars, NoGrant
<1>2. CASE Abort(s)
  BY <1>2 DEF Abort, taskVars, NoGrant
<1>3. CASE CancelCommit(s)
  BY <1>3 DEF CancelCommit, TaskTypes, NoGrant
<1>4. ASSUME NEW o \in {"success", "failed"}, ClaimCommit(s, o)
      PROVE  NoGrant
  BY <1>4 DEF ClaimCommit, TaskTypes, NoGrant
<1>5. CASE DispatchOk(s)
  BY <1>5 DEF DispatchOk, TaskTypes, NoGrant
<1>6. CASE \/ AllocateCommit(s) \/ ReleaseCommit(s) \/ CooldownCommit(s) \/ DispatchFail(s)
           \/ \E ok \in BOOLEAN, threshold \in BOOLEAN : HealthCommit(s, ok, threshold)
           \/ (\E moved \in BOOLEAN : SyncCommit(s, moved)) \/ SyncGiveUp(s)
           \/ RecoverCommit(s)
  BY <1>6 DEF AllocateCommit, ReleaseCommit, CooldownCommit, DispatchFail, HealthCommit,
              SyncCommit, SyncGiveUp, RecoverCommit, taskVars, NoGrant
<1>7. ASSUME NEW e \in Mails, NEW hit \in SUBSET Tasks,
             IngestPlain(s, e, hit) \/ IngestResult(s, e, hit)
      PROVE  NoGrant
  <2>1. sess[s] \in Copies /\ sess[s].op = "sync"
    BY <1>7 DEF IngestPlain, IngestResult, Ingesting, SessTypes
  <2>2. sess[s].box # None
    BY <2>1, CopyFields, PoolAssumption
  <2>3. \A t \in hit : state[t] = "WAITING_EMAIL" /\ mbox[t] # None
    BY <1>7, <2>2 DEF IngestPlain, IngestResult, Matchable
  <2>4. \A t \in Tasks : \/ state'[t] = state[t]
                         \/ t \in hit /\ state'[t] \in {"EMAIL_RECEIVED", "WAITING_CALLBACK",
                                                        "COMPLETED"}
    BY <1>7 DEF IngestPlain, IngestResult
  <2>5. UNCHANGED <<mbox, mon>>
    BY <1>7 DEF IngestPlain, IngestResult
  <2>. QED  BY <2>3, <2>4, <2>5 DEF NoGrant
<1>. QED  BY <1>1, <1>2, <1>3, <1>4, <1>5, <1>6, <1>7 DEF Finish

LEMMA MonitorGrantsNothing ==
  ASSUME TypeOK, NEW w \in Schedulers,
         \/ MonitorRead(w) \/ MonitorSweep(w) \/ MonitorCommit(w) \/ MonitorAbort(w)
         \/ \E t \in Tasks : MonitorSkip(w, t)
  PROVE  NoGrant
<1>. USE DEF TypeOK, MonTypes
<1>1. CASE MonitorSweep(w)
  BY <1>1 DEF MonitorSweep, Serving, TERMINAL_STATES, NoGrant
<1>2. CASE \/ MonitorRead(w) \/ MonitorCommit(w) \/ MonitorAbort(w)
           \/ \E t \in Tasks : MonitorSkip(w, t)
  BY <1>2 DEF MonitorRead, MonitorCommit, MonitorAbort, MonitorSkip, Sweeping, Serving,
              MonitorIdle, taskVars, NoGrant
<1>. QED  BY <1>1, <1>2

\* A step creates a task, chooses a mailbox for a waiting one, assigns the one
\* chosen, or grants nothing.
LEMMA Steps ==
  ASSUME TypeOK, [Next]_vars
  PROVE  \/ \E t \in Tasks, p \in Projects \cup {None}, url \in BOOLEAN : CreateTask(t, p, url)
         \/ \E w \in Schedulers, t \in Tasks, m \in Mailboxes : MonitorPlan(w, t, m)
         \/ \E w \in Schedulers : MonitorAssign(w)
         \/ NoGrant
<1>1. CASE \/ \E m \in Mailboxes, to \in Statuses : PatchStatus(m, to)
           \/ \E t \in Tasks : Expire(t)
           \/ \E m \in Mailboxes : CooldownElapse(m)
           \/ Midnight
           \/ UNCHANGED vars
  BY <1>1 DEF PatchStatus, Expire, CooldownElapse, Midnight, vars, taskVars,
              NoGrant
<1>. QED  BY <1>1, SessionsGrantNothing, MonitorGrantsNothing DEF Next, MonitorStep

LEMMA MailboxStep ==
  ASSUME TypeOK, MailboxBeforeMail, [Next]_vars
  PROVE  MailboxBeforeMail'
<1>. USE DEF TypeOK, MailboxBeforeMail
<1>1. ASSUME NEW u \in Tasks, NEW p \in Projects \cup {None}, NEW url \in BOOLEAN,
             CreateTask(u, p, url)
      PROVE  MailboxBeforeMail'
  BY <1>1, PoolAssumption DEF CreateTask, Allocatable, TaskTypes
<1>2. ASSUME NEW w \in Schedulers, NEW u \in Tasks, NEW m \in Mailboxes, MonitorPlan(w, u, m)
      PROVE  MailboxBeforeMail'
  BY <1>2 DEF MonitorPlan, taskVars
<1>3. ASSUME NEW w \in Schedulers, MonitorAssign(w)
      PROVE  MailboxBeforeMail'
  <2>1. mon[w].task \in Tasks /\ mon[w].box \in Mailboxes
    BY <1>3 DEF MonitorAssign, Monitoring, MonTypes
  <2>. QED  BY <1>3, <2>1, PoolAssumption DEF Assigned, MonitorAssign, TaskTypes
<1>4. CASE NoGrant
  BY <1>4 DEF NoGrant, TERMINAL_STATES
<1>. QED  BY <1>1, <1>2, <1>3, <1>4, Steps

\* No task expects, has or announces mail without a mailbox.
THEOREM MailboxFirst == Spec => []MailboxBeforeMail
<1>1. Init => MailboxBeforeMail
  BY DEF Init, MailboxBeforeMail
<1>. QED  BY <1>1, Typing, MailboxStep, PTL DEF Spec

\* One element more is at most one more.
LEMMA AddOne ==
  ASSUME NEW S, IsFiniteSet(S), NEW x
  PROVE  Cardinality(S \cup {x}) \in Nat /\ Cardinality(S \cup {x}) <= Cardinality(S) + 1
<1>1. Cardinality(S) \in Nat
  BY FS_CardinalityType
<1>2. Cardinality(S \cup {x}) = IF x \in S THEN Cardinality(S) ELSE Cardinality(S) + 1
  BY FS_AddElement
<1>. QED  BY <1>1, <1>2

\* The cardinalities that LeasesCounted adds up are natural numbers.
LEMMA LeasesFinite ==
  ASSUME NEW m
  PROVE  /\ IsFiniteSet(InFlight(m)) /\ Cardinality(InFlight(m)) \in Nat
         /\ IsFiniteSet(Planning(m)) /\ Cardinality(Planning(m)) \in Nat
         /\ Cardinality(Schedulers) \in Nat
         /\ Cardinality(Planning(m)) <= Cardinality(Schedulers)
<1>1. InFlight(m) \subseteq Tasks /\ Planning(m) \subseteq Schedulers
  BY DEF InFlight, Planning
<1>. QED  BY <1>1, PoolAssumption, FS_Subset, FS_CardinalityType

\* Sets of leases and of plans that do not grow keep the bound.
LEMMA BoundKept ==
  ASSUME NEW m \in Mailboxes, LeasesCounted,
         InFlight(m)' \subseteq InFlight(m), Planning(m)' \subseteq Planning(m)
  PROVE  Cardinality(InFlight(m)') + Cardinality(Planning(m)')
           <= MaxConcurrent + Cardinality(Schedulers)
<1>1. /\ Cardinality(InFlight(m)') <= Cardinality(InFlight(m))
      /\ Cardinality(InFlight(m)') \in Nat
  BY LeasesFinite, FS_Subset, FS_CardinalityType
<1>2. /\ Cardinality(Planning(m)') <= Cardinality(Planning(m))
      /\ Cardinality(Planning(m)') \in Nat
  BY LeasesFinite, FS_Subset, FS_CardinalityType
<1>3. MaxConcurrent \in Nat
  BY PoolAssumption
<1>. QED  BY <1>1, <1>2, <1>3, LeasesFinite DEF LeasesCounted

LEMMA LeasesStep ==
  ASSUME TypeOK, MailboxBeforeMail, LeasesCounted, [Next]_vars
  PROVE  LeasesCounted'
<1>. SUFFICES ASSUME NEW m \in Mailboxes
              PROVE  Cardinality(InFlight(m)') + Cardinality(Planning(m)')
                       <= MaxConcurrent + Cardinality(Schedulers)
  BY DEF LeasesCounted
<1>. USE DEF TypeOK
<1>1. ASSUME NEW t \in Tasks, NEW p \in Projects \cup {None}, NEW url \in BOOLEAN,
             CreateTask(t, p, url)
      PROVE  Cardinality(InFlight(m)') + Cardinality(Planning(m)')
               <= MaxConcurrent + Cardinality(Schedulers)
  <2>1. Planning(m)' = Planning(m)
    BY <1>1 DEF CreateTask, Planning
  <2>2. CASE InFlight(m)' \subseteq InFlight(m)
    BY <2>1, <2>2, BoundKept
  <2>3. CASE ~(InFlight(m)' \subseteq InFlight(m))
    <3>1. mbox[t] = None
      BY <1>1 DEF CreateTask, MailboxBeforeMail
    <3>2. \A u \in Tasks \ {t} : state'[u] = state[u] /\ mbox'[u] = mbox[u]
      BY <1>1 DEF CreateTask, TaskTypes
    <3>3. mbox'[t] = m
      BY <2>3, <3>2 DEF InFlight
    <3>4. m \in Allocatable(p) /\ state'[t] = "WAITING_EMAIL"
      BY <1>1, <3>1, <3>3, PoolAssumption DEF CreateTask, TaskTypes
    <3>5. Cardinality(InFlight(m)) < MaxConcurrent
      BY <3>4 DEF Allocatable
    <3>6. InFlight(m)' = InFlight(m) \cup {t}
      BY <3>2, <3>3, <3>4 DEF InFlight, IN_FLIGHT_STATES
    <3>7. /\ Cardinality(InFlight(m)') <= Cardinality(InFlight(m)) + 1
          /\ Cardinality(InFlight(m)') \in Nat
      BY <3>6, LeasesFinite, AddOne
    <3>. QED  BY <2>1, <3>5, <3>7, LeasesFinite, PoolAssumption
  <2>. QED  BY <2>2, <2>3
<1>2. ASSUME NEW w \in Schedulers, NEW t \in Tasks, NEW n \in Mailboxes, MonitorPlan(w, t, n)
      PROVE  Cardinality(InFlight(m)') + Cardinality(Planning(m)')
               <= MaxConcurrent + Cardinality(Schedulers)
  <2>1. InFlight(m)' = InFlight(m)
    BY <1>2 DEF MonitorPlan, InFlight, taskVars
  <2>2. CASE n # m
    <3>1. Planning(m)' \subseteq Planning(m)
      BY <1>2, <2>2 DEF MonitorPlan, Planned, Planning, MonTypes
    <3>. QED  BY <2>1, <3>1, BoundKept
  <2>3. CASE n = m
    <3>1. Cardinality(InFlight(m)) < MaxConcurrent
      BY <1>2, <2>3 DEF MonitorPlan, Allocatable
    <3>2. Planning(m)' \subseteq Schedulers
      BY DEF Planning
    <3>3. /\ Cardinality(Planning(m)') \in Nat
          /\ Cardinality(Planning(m)') <= Cardinality(Schedulers)
      BY <3>2, PoolAssumption, FS_Subset, FS_CardinalityType
    <3>. QED  BY <2>1, <3>1, <3>3, LeasesFinite, PoolAssumption
  <2>. QED  BY <2>2, <2>3
<1>3. ASSUME NEW w \in Schedulers, MonitorAssign(w)
      PROVE  Cardinality(InFlight(m)') + Cardinality(Planning(m)')
               <= MaxConcurrent + Cardinality(Schedulers)
  <2>. DEFINE t == mon[w].task
  <2>1. /\ t \in Tasks /\ mon[w].box \in Mailboxes /\ mon[w].phase = "plan"
    BY <1>3 DEF MonitorAssign, Monitoring, MonTypes
  <2>2. Planning(m)' = Planning(m) \ {w}
    BY <1>3 DEF MonitorAssign, Serving, Planning, MonTypes
  <2>3. CASE mon[w].box # m
    <3>1. InFlight(m)' \subseteq InFlight(m)
      BY <1>3, <2>1, <2>3 DEF Assigned, MonitorAssign, InFlight, TaskTypes
    <3>. QED  BY <2>2, <3>1, BoundKept
  <2>4. CASE mon[w].box = m
    <3>1. InFlight(m)' = InFlight(m) \cup {t}
      BY <1>3, <2>1, <2>4 DEF Assigned, MonitorAssign, InFlight, IN_FLIGHT_STATES, TaskTypes
    <3>2. /\ Cardinality(InFlight(m)') <= Cardinality(InFlight(m)) + 1
          /\ Cardinality(InFlight(m)') \in Nat
      BY <3>1, LeasesFinite, AddOne
    <3>3. w \in Planning(m)
      BY <2>1, <2>4 DEF Planning
    <3>4. Cardinality(Planning(m)') = Cardinality(Planning(m)) - 1
      BY <2>2, <3>3, LeasesFinite, FS_RemoveElement
    <3>. QED  BY <3>2, <3>4, LeasesFinite, PoolAssumption DEF LeasesCounted
  <2>. QED  BY <2>3, <2>4
<1>4. CASE NoGrant
  <2>1. InFlight(m)' \subseteq InFlight(m)
    BY <1>4 DEF NoGrant, InFlight, IN_FLIGHT_STATES, TERMINAL_STATES
  <2>2. Planning(m)' \subseteq Planning(m)
    BY <1>4 DEF NoGrant, Planning
  <2>. QED  BY <2>1, <2>2, BoundKept
<1>. QED  BY <1>1, <1>2, <1>3, <1>4, Steps

\* Whatever the interleaving, the leases and the plans of a mailbox stay within
\* its limit and one per scheduler.
THEOREM LeasesBound == Spec => []LeasesCounted
<1>1. Init => LeasesCounted
  <2>. SUFFICES ASSUME Init, NEW m \in Mailboxes
                PROVE  Cardinality(InFlight(m)) + Cardinality(Planning(m))
                         <= MaxConcurrent + Cardinality(Schedulers)
    BY DEF LeasesCounted
  <2>1. InFlight(m) = {} /\ Planning(m) = {}
    BY DEF Init, InFlight, IN_FLIGHT_STATES, Planning, MonitorIdle
  <2>. QED  BY <2>1, FS_EmptySet, LeasesFinite, PoolAssumption
<1>. QED  BY <1>1, Typing, MailboxFirst, LeasesStep, PTL DEF Spec

\* A mailbox is never used by more than MaxConcurrent tasks and one more per
\* running scheduler.
THEOREM Overbooking == Spec => []OverbookingBound
<1>1. LeasesCounted => OverbookingBound
  BY LeasesFinite, PoolAssumption DEF LeasesCounted, OverbookingBound
<1>. QED  BY <1>1, LeasesBound, PTL
-----------------------------------------------------------------------------
(* Deliveries *)

\* A step that leaves rows, results and dispatches as they are; a task that waits
\* for its callback after it has done so before.
NoDelivery ==
  /\ UNCHANGED <<mailVars, result, revived>>
  /\ \A t \in Tasks : state'[t] = "WAITING_CALLBACK" => state[t] = "WAITING_CALLBACK"
  /\ \A s \in Sessions : sess'[s].op \in {"dispatch", "recover"} => sess'[s] = sess[s]

\* A session that opens with a copy of another handler, or closes, dispatches nothing.
LEMMA OpenElse ==
  ASSUME SessTypes, NEW s \in Sessions, NEW op, NEW copy, Open(s, op, copy),
         copy.op \notin {"dispatch", "recover"},
         UNCHANGED <<taskVars, mailVars, history>>
  PROVE  NoDelivery
  BY DEF SessTypes, Open, taskVars, history, NoDelivery

LEMMA CloseElse ==
  ASSUME SessTypes, NEW s \in Sessions, NEW op, Close(s, op),
         UNCHANGED <<mailVars, result, history>>,
         \A t \in Tasks : state'[t] = "WAITING_CALLBACK" => state[t] = "WAITING_CALLBACK"
  PROVE  NoDelivery
  BY DEF SessTypes, Close, Idle, history, NoDelivery

LEMMA SessionsDeliverNothing ==
  ASSUME TypeOK, NEW s \in Sessions, Begin(s) \/ Finish(s) \/ Abort(s)
  PROVE  \/ \E t \in Tasks, e \in Mails : DispatchClaim(s, t, e) \/ RecoverRead(s, t, e)
         \/ DispatchOk(s) \/ DispatchFail(s) \/ RecoverCommit(s)
         \/ NoDelivery
<1>. USE DEF TypeOK
<1>1. ASSUME NEW t \in Tasks, CancelRead(s, t) \/ ClaimRead(s, t)
      PROVE  NoDelivery
  <2>1. CASE CancelRead(s, t)
    BY <2>1, OpenElse DEF CancelRead
  <2>2. CASE ClaimRead(s, t)
    BY <2>2, OpenElse DEF ClaimRead
  <2>. QED  BY <1>1, <2>1, <2>2
<1>2. ASSUME NEW m \in Mailboxes,
             AllocateRead(s, m) \/ ReleaseRead(s, m) \/ HealthRead(s, m) \/ SyncRead(s, m)
      PROVE  NoDelivery
  <2>1. CASE AllocateRead(s, m)
    BY <2>1, OpenElse DEF AllocateRead
  <2>2. CASE ReleaseRead(s, m)
    BY <2>2, OpenElse DEF ReleaseRead
  <2>3. CASE HealthRead(s, m)
    BY <2>3, OpenElse DEF HealthRead
  <2>4. CASE SyncRead(s, m)
    BY <2>4, OpenElse DEF SyncRead, SyncCopy
  <2>. QED  BY <1>2, <2>1, <2>2, <2>3, <2>4
<1>3. CASE CooldownRead(s)
  BY <1>3, OpenElse DEF CooldownRead
<1>4. CASE Abort(s)
  BY <1>4 DEF Abort, SessTypes, Idle, taskVars, history, NoDelivery
<1>5. CASE CancelCommit(s)
  <2>1. \A t \in Tasks : state'[t] = "WAITING_CALLBACK" => state[t] = "WAITING_CALLBACK"
    BY <1>5 DEF CancelCommit, TaskTypes
  <2>. QED  BY <1>5, <2>1, CloseElse DEF CancelCommit
<1>6. ASSUME NEW o \in {"success", "failed"}, ClaimCommit(s, o)
      PROVE  NoDelivery
  <2>1. \A t \in Tasks : state'[t] = "WAITING_CALLBACK" => state[t] = "WAITING_CALLBACK"
    BY <1>6 DEF ClaimCommit, TaskTypes
  <2>2. Close(s, "claim") /\ UNCHANGED <<mailVars, result, history>>
    BY <1>6 DEF ClaimCommit
  <2>. QED  BY <2>1, <2>2, CloseElse
<1>7. CASE AllocateCommit(s)
  BY <1>7, CloseElse DEF AllocateCommit, taskVars
<1>8. CASE ReleaseCommit(s)
  BY <1>8, CloseElse DEF ReleaseCommit, taskVars
<1>9. CASE CooldownCommit(s)
  BY <1>9, CloseElse DEF CooldownCommit, taskVars
<1>10. ASSUME NEW ok \in BOOLEAN, NEW threshold \in BOOLEAN, HealthCommit(s, ok, threshold)
       PROVE  NoDelivery
  <2>1. Close(s, "health") /\ UNCHANGED <<mailVars, result, state, history>>
    BY <1>10 DEF HealthCommit, taskVars
  <2>. QED  BY <2>1, CloseElse
<1>11. CASE (\E moved \in BOOLEAN : SyncCommit(s, moved)) \/ SyncGiveUp(s)
  BY <1>11 DEF SyncCommit, SyncGiveUp, SessTypes, Idle, taskVars, history, NoDelivery
<1>. QED  BY <1>1, <1>2, <1>3, <1>4, <1>5, <1>6, <1>7, <1>8, <1>9, <1>10, <1>11 DEF Begin, Finish

\* A step ingests a mail, dispatches or recovers a delivery, or does nothing to them.
LEMMA DeliverySteps ==
  ASSUME TypeOK, [Next]_vars
  PROVE  \/ \E s \in Sessions, e \in Mails, hit \in SUBSET Tasks :
              IngestPlain(s, e, hit) \/ IngestResult(s, e, hit)
         \/ \E s \in Sessions, t \in Tasks, e \in Mails :
              DispatchClaim(s, t, e) \/ RecoverRead(s, t, e)
         \/ \E s \in Sessions : DispatchOk(s) \/ DispatchFail(s) \/ RecoverCommit(s)
         \/ NoDelivery
<1>. USE DEF TypeOK
<1>1. ASSUME NEW t \in Tasks, NEW p \in Projects \cup {None}, NEW url \in BOOLEAN,
             CreateTask(t, p, url)
      PROVE  NoDelivery
  BY <1>1 DEF CreateTask, TaskTypes, history, NoDelivery
<1>2. ASSUME NEW w \in Schedulers, MonitorStep(w) \/ MonitorAbort(w)
      PROVE  NoDelivery
  <2>1. CASE MonitorSweep(w)
    BY <2>1 DEF MonitorSweep, history, NoDelivery
  <2>2. CASE MonitorAssign(w)
    BY <2>2 DEF MonitorAssign, TaskTypes, NoDelivery
  <2>3. CASE \/ MonitorRead(w) \/ MonitorCommit(w) \/ MonitorAbort(w)
             \/ \E t \in Tasks : MonitorSkip(w, t) \/ \E m \in Mailboxes : MonitorPlan(w, t, m)
    BY <2>3 DEF MonitorRead, MonitorCommit, MonitorAbort, MonitorSkip, MonitorPlan, taskVars,
                history, NoDelivery
  <2>. QED  BY <1>2, <2>1, <2>2, <2>3 DEF MonitorStep
<1>3. CASE \/ \E m \in Mailboxes, to \in Statuses : PatchStatus(m, to)
           \/ \E t \in Tasks : Expire(t)
           \/ \E m \in Mailboxes : CooldownElapse(m)
           \/ Midnight
           \/ UNCHANGED vars
  BY <1>3 DEF PatchStatus, Expire, CooldownElapse, Midnight, vars, taskVars,
              history, NoDelivery
<1>. QED  BY <1>1, <1>2, <1>3, SessionsDeliverNothing DEF Next

\* What makes AttemptsBounded inductive: a delivery that is under way has attempts
\* left too, a row's first is its mail's first, and a mail is ingested once.
Undone == {"PENDING", "SENDING", "RETRYING"}

RowsCount ==
  \A d \in Tasks \X Mails :
    /\ attempt[d] <= MaxAttempts + revived[d]
    /\ delivery[d] = "NONE" => attempt[d] = 0
    /\ delivery[d] = "EXHAUSTED" => attempt[d] >= MaxAttempts
    /\ delivery[d] \in Undone => attempt[d] < MaxAttempts + revived[d]

RowsHaveMail ==
  /\ \A d \in Tasks \X Mails : delivery[d] # "NONE" => d[2] \in ingested
  /\ \A s \in Sessions :
       sess[s].op \in {"dispatch", "recover"} => sess[s].mail \in ingested

DispatchesCount ==
  \A s \in Sessions : sess[s].op = "dispatch" =>
    sess[s].sent <= MaxAttempts + revived[<<sess[s].task, sess[s].mail>>]

DeliveryInv == RowsCount /\ RowsHaveMail /\ DispatchesCount

\* A sync dispatches nothing, before a mail and after it.
LEMMA IngestingSession ==
  ASSUME TypeOK, NEW s \in Sessions, NEW e \in Mails, NEW hit \in SUBSET Tasks,
         IngestPlain(s, e, hit) \/ IngestResult(s, e, hit)
  PROVE  /\ e \in Mails \ ingested /\ ingested' = ingested \cup {e} /\ UNCHANGED attempt
         /\ \A r \in Sessions :
              sess'[r].op \in {"dispatch", "recover"} => sess'[r] = sess[r]
         /\ UNCHANGED revived
<1>1. e \in Mails \ ingested /\ ingested' = ingested \cup {e} /\ sess[s].op = "sync"
  BY DEF IngestPlain, IngestResult, Ingesting
<1>2. CASE IngestPlain(s, e, hit)
  BY <1>1, <1>2 DEF IngestPlain, history
<1>3. CASE IngestResult(s, e, hit)
  <2>. DEFINE copy == sess[s]
              freed == {m \in copy.held : hit # {t \in hit : callback[t] # "NO_URL"}}
              u == IF freed # {} /\ HasCooldown THEN "running" ELSE copy.until
              new == SyncCopy(copy.box, u, copy.well, copy.held \ freed)
  <2>1. new.op = "sync"
    BY DEF SyncCopy
  <2>2. sess' = [sess EXCEPT ![s] = new]
    BY <1>3 DEF IngestResult
  <2>3. UNCHANGED <<attempt, revived>>
    BY <1>3 DEF IngestResult, history
  <2>. HIDE DEF new
  <2>4. \A r \in Sessions :
          sess'[r].op \in {"dispatch", "recover"} => sess'[r] = sess[r]
    BY <2>1, <2>2 DEF TypeOK, SessTypes
  <2>. QED  BY <1>1, <2>3, <2>4
<1>. QED  BY <1>2, <1>3

\* What a dispatch and a recovery hold: a task and a mail, and a number of attempts.
LEMMA Dispatching ==
  ASSUME TypeOK, NEW s \in Sessions, sess[s].op \in {"dispatch", "recover"}
  PROVE  /\ sess[s].task \in Tasks /\ sess[s].mail \in Mails
         /\ <<sess[s].task, sess[s].mail>> \in Tasks \X Mails
         /\ sess[s].op = "dispatch" => sess[s].sent \in Nat \ {0}
<1>1. sess[s] \in Copies
  BY DEF TypeOK, SessTypes
<1>. QED  BY <1>1, CopyFields

LEMMA DeliveryStep ==
  ASSUME TypeOK, DeliveryInv, [Next]_vars
  PROVE  DeliveryInv'
<1>. USE DEF DeliveryInv, Undone
<1>. MaxAttempts \in Nat \ {0} /\ attempt \in [Tasks \X Mails -> Nat]
     /\ delivery \in [Tasks \X Mails -> DeliveryStates] /\ revived \in [Tasks \X Mails -> Nat]
  BY PoolAssumption DEF TypeOK, MailTypes, HistoryTypes
<1>1. ASSUME NEW s \in Sessions, NEW e \in Mails, NEW hit \in SUBSET Tasks,
             IngestPlain(s, e, hit) \/ IngestResult(s, e, hit)
      PROVE  DeliveryInv'
  <2>1. /\ e \in Mails \ ingested /\ ingested' = ingested \cup {e}
        /\ UNCHANGED <<attempt, revived>>
        /\ \A r \in Sessions : sess'[r].op \in {"dispatch", "recover"} => sess'[r] = sess[r]
    BY <1>1, IngestingSession
  <2>2. \A d \in Tasks \X Mails : \/ delivery'[d] = delivery[d]
                                  \/ d[2] = e /\ delivery'[d] = "PENDING"
    <3>1. CASE IngestPlain(s, e, hit)
      <4>1. UNCHANGED delivery
        BY <3>1 DEF IngestPlain
      <4>. QED  BY <4>1
    <3>2. CASE IngestResult(s, e, hit)
      <4>1. delivery' = Enqueued({t \in hit : callback[t] # "NO_URL"}, e)
        BY <3>2 DEF IngestResult
      <4>. QED  BY <4>1 DEF Enqueued
    <3>. QED  BY <1>1, <3>1, <3>2
  <2>3. \A d \in Tasks \X Mails : d[2] = e => delivery[d] = "NONE" /\ attempt[d] = 0
    BY <2>1 DEF RowsHaveMail, RowsCount
  <2>4. RowsCount'
    BY <2>1, <2>2, <2>3 DEF RowsCount
  <2>5. RowsHaveMail'
    BY <2>1, <2>2 DEF RowsHaveMail
  <2>6. DispatchesCount'
    BY <2>1 DEF DispatchesCount
  <2>. QED  BY <2>4, <2>5, <2>6
<1>2. ASSUME NEW s \in Sessions, NEW t \in Tasks, NEW e \in Mails, DispatchClaim(s, t, e)
      PROVE  DeliveryInv'
  <2>. DEFINE d == <<t, e>>
              copy == [op |-> "dispatch", task |-> t, mail |-> e,
                       sent |-> attempt[d] + 1, held |-> HeldBy(t),
                       waiting |-> state[t] = "WAITING_CALLBACK"]
  <2>1. /\ delivery[d] \in Dispatchable /\ UNCHANGED <<attempt, ingested, revived>>
        /\ delivery' = [delivery EXCEPT ![d] = "SENDING"]
        /\ sess' = [sess EXCEPT ![s] = copy]
    BY <1>2 DEF DispatchClaim, Open, history
  <2>2. d \in Tasks \X Mails /\ d[2] = e
    OBVIOUS
  <2>3. attempt[d] < MaxAttempts + revived[d] /\ e \in ingested
    BY <2>1, <2>2 DEF Dispatchable, RowsCount, RowsHaveMail
  <2>4. copy.mail = e /\ copy.sent = attempt[d] + 1 /\ <<copy.task, copy.mail>> = d
    OBVIOUS
  <2>. HIDE DEF d, copy
  <2>5. \A r \in Sessions : sess'[r] = sess[r] \/ sess'[r] = copy
    BY <2>1 DEF TypeOK, SessTypes
  <2>6. RowsCount'
    BY <2>1, <2>2, <2>3 DEF RowsCount
  <2>7. RowsHaveMail'
    BY <2>1, <2>2, <2>3, <2>4, <2>5 DEF RowsHaveMail
  <2>8. DispatchesCount'
    <3>1. copy.sent <= MaxAttempts + revived[d]
      BY <2>2, <2>3, <2>4
    <3>. QED  BY <2>1, <2>4, <2>5, <3>1 DEF DispatchesCount
  <2>. QED  BY <2>6, <2>7, <2>8
<1>3. ASSUME NEW s \in Sessions, DispatchOk(s) \/ DispatchFail(s)
      PROVE  DeliveryInv'
  <2>. DEFINE d == <<sess[s].task, sess[s].mail>>
  <2>1. /\ sess[s].op = "dispatch" /\ sess' = [sess EXCEPT ![s] = Idle] /\ UNCHANGED <<ingested, revived>>
        /\ attempt' = [attempt EXCEPT ![d] = sess[s].sent]
    BY <1>3 DEF DispatchOk, DispatchFail, Close, history
  <2>2. /\ d \in Tasks \X Mails /\ d[2] = sess[s].mail
        /\ sess[s].sent \in Nat \ {0} /\ sess[s].sent <= MaxAttempts + revived[d] /\ sess[s].mail \in ingested
    BY <2>1, Dispatching DEF DispatchesCount, RowsHaveMail
  <2>3. \/ delivery' = [delivery EXCEPT ![d] = "SUCCESS"]
        \/ sess[s].sent >= MaxAttempts /\ delivery' = [delivery EXCEPT ![d] = "EXHAUSTED"]
        \/ ~(sess[s].sent >= MaxAttempts) /\ delivery' = [delivery EXCEPT ![d] = "RETRYING"]
    BY <1>3 DEF DispatchOk, DispatchFail, Exhausted
  <2>4. \A r \in Sessions : sess'[r].op \in {"dispatch", "recover"} => sess'[r] = sess[r]
    BY <2>1 DEF TypeOK, SessTypes, Idle
  <2>. HIDE DEF d
  <2>5. RowsCount'
    <3>1. \A x \in Tasks \X Mails : x # d => attempt'[x] = attempt[x] /\ delivery'[x] = delivery[x]
      BY <2>1, <2>2, <2>3
    <3>2. /\ attempt'[d] = sess[s].sent
          /\ \/ delivery'[d] = "SUCCESS"
             \/ delivery'[d] = "EXHAUSTED" /\ sess[s].sent >= MaxAttempts
             \/ delivery'[d] = "RETRYING" /\ ~(sess[s].sent >= MaxAttempts)
      BY <2>1, <2>2, <2>3
    <3>3. revived[d] \in Nat /\ revived' = revived
      BY <2>1, <2>2
    <3>4. /\ attempt'[d] <= MaxAttempts + revived'[d]
          /\ delivery'[d] # "NONE"
          /\ delivery'[d] = "EXHAUSTED" => attempt'[d] >= MaxAttempts
          /\ delivery'[d] \in Undone => attempt'[d] < MaxAttempts + revived'[d]
      BY <2>2, <3>2, <3>3
    <3>. QED  BY <3>1, <3>3, <3>4 DEF RowsCount
  <2>6. RowsHaveMail'
    BY <2>1, <2>2, <2>3, <2>4 DEF RowsHaveMail
  <2>7. DispatchesCount'
    BY <2>1, <2>4 DEF DispatchesCount
  <2>. QED  BY <2>5, <2>6, <2>7
<1>4. ASSUME NEW s \in Sessions, NEW t \in Tasks, NEW e \in Mails, RecoverRead(s, t, e)
      PROVE  DeliveryInv'
  <2>. DEFINE copy == [op |-> "recover", task |-> t, mail |-> e]
  <2>1. /\ delivery[<<t, e>>] = "SENDING" /\ UNCHANGED <<mailVars, revived>>
        /\ sess' = [sess EXCEPT ![s] = copy]
    BY <1>4 DEF RecoverRead, Open, history
  <2>2. e \in ingested /\ copy.mail = e /\ copy.op = "recover"
    BY <2>1 DEF RowsHaveMail
  <2>. HIDE DEF copy
  <2>3. \A r \in Sessions : sess'[r] = sess[r] \/ sess'[r] = copy
    BY <2>1 DEF TypeOK, SessTypes
  <2>4. RowsCount' /\ RowsHaveMail'
    BY <2>1, <2>2, <2>3 DEF mailVars, RowsCount, RowsHaveMail
  <2>5. DispatchesCount'
    BY <2>1, <2>2, <2>3 DEF DispatchesCount
  <2>. QED  BY <2>4, <2>5
<1>5. ASSUME NEW s \in Sessions, RecoverCommit(s)
      PROVE  DeliveryInv'
  <2>. DEFINE d == <<sess[s].task, sess[s].mail>>
  <2>1. /\ sess[s].op = "recover" /\ sess' = [sess EXCEPT ![s] = Idle]
        /\ UNCHANGED <<ingested, attempt>>
        /\ delivery' = [delivery EXCEPT ![d] = "RETRYING"]
        /\ revived' = IF delivery[d] \in {"SUCCESS", "EXHAUSTED"}
                        THEN [revived EXCEPT ![d] = @ + 1] ELSE revived
    BY <1>5 DEF RecoverCommit, Close, Ended
  <2>2. d \in Tasks \X Mails /\ d[2] = sess[s].mail /\ sess[s].mail \in ingested
    BY <2>1, Dispatching DEF RowsHaveMail
  <2>3. \A r \in Sessions : sess'[r].op \in {"dispatch", "recover"} => sess'[r] = sess[r]
    BY <2>1 DEF TypeOK, SessTypes, Idle
  <2>. HIDE DEF d
  <2>4. \A x \in Tasks \X Mails : revived'[x] \in Nat /\ revived'[x] >= revived[x]
    BY <2>1, <2>2
  <2>5. RowsCount'
    <3>1. attempt[d] < MaxAttempts + revived'[d]
      <4>1. CASE delivery[d] \in {"SUCCESS", "EXHAUSTED"}
        BY <2>1, <2>2, <4>1 DEF RowsCount
      <4>2. CASE delivery[d] \notin {"SUCCESS", "EXHAUSTED"}
        <5>1. revived' = revived /\ delivery[d] \in Undone \cup {"NONE"}
          BY <2>1, <2>2, <4>2 DEF DeliveryStates
        <5>. QED  BY <2>2, <5>1 DEF RowsCount
      <4>. QED  BY <4>1, <4>2
    <3>2. ASSUME NEW x \in Tasks \X Mails
          PROVE  /\ attempt'[x] <= MaxAttempts + revived'[x]
                 /\ delivery'[x] = "NONE" => attempt'[x] = 0
                 /\ delivery'[x] = "EXHAUSTED" => attempt'[x] >= MaxAttempts
                 /\ delivery'[x] \in Undone => attempt'[x] < MaxAttempts + revived'[x]
      <4>1. CASE x = d
        <5>1. delivery'[d] = "RETRYING" /\ attempt'[d] = attempt[d]
          BY <2>1, <2>2
        <5>. QED  BY <2>4, <3>1, <4>1, <5>1
      <4>2. CASE x # d
        <5>1. delivery'[x] = delivery[x] /\ attempt'[x] = attempt[x] /\ revived'[x] = revived[x]
          BY <2>1, <4>2
        <5>. QED  BY <5>1 DEF RowsCount
      <4>. QED  BY <4>1, <4>2
    <3>. QED  BY <3>2 DEF RowsCount
  <2>6. RowsHaveMail'
    BY <2>1, <2>2, <2>3 DEF RowsHaveMail
  <2>7. DispatchesCount'
    <3>. SUFFICES ASSUME NEW r \in Sessions, sess'[r].op = "dispatch"
                  PROVE  sess'[r].sent <= MaxAttempts + revived'[<<sess'[r].task, sess'[r].mail>>]
      BY DEF DispatchesCount
    <3>. DEFINE x == <<sess[r].task, sess[r].mail>>
    <3>1. sess'[r] = sess[r] /\ sess[r].op = "dispatch"
      BY <2>3
    <3>2. x \in Tasks \X Mails /\ sess[r].sent \in Nat
      BY <3>1, Dispatching
    <3>3. sess[r].sent <= MaxAttempts + revived[x]
      BY <3>1 DEF DispatchesCount
    <3>4. revived[x] \in Nat /\ revived'[x] \in Nat /\ revived'[x] >= revived[x]
      BY <2>4, <3>2
    <3>. HIDE DEF x
    <3>5. sess[r].sent <= MaxAttempts + revived'[x]
      BY <3>2, <3>3, <3>4
    <3>. QED  BY <3>1, <3>5 DEF x
  <2>. QED  BY <2>5, <2>6, <2>7
<1>6. CASE NoDelivery
  BY <1>6 DEF NoDelivery, mailVars, RowsCount, RowsHaveMail, DispatchesCount
<1>. QED  BY <1>1, <1>2, <1>3, <1>4, <1>5, <1>6, DeliverySteps

LEMMA DeliveryAlways == Spec => []DeliveryInv
<1>1. Init => DeliveryInv
  <2>. SUFFICES ASSUME Init PROVE DeliveryInv
    OBVIOUS
  <2>1. \A d \in Tasks \X Mails : delivery[d] = "NONE" /\ attempt[d] = 0 /\ revived[d] = 0
    BY DEF Init
  <2>3. MaxAttempts \in Nat
    BY PoolAssumption
  <2>4. RowsCount
    BY <2>1, <2>3 DEF RowsCount, Undone
  <2>5. \A s \in Sessions : sess[s] = Idle
    BY DEF Init
  <2>6. RowsHaveMail /\ DispatchesCount
    BY <2>1, <2>5 DEF Idle, RowsHaveMail, DispatchesCount
  <2>. QED  BY <2>4, <2>6 DEF DeliveryInv
<1>. QED  BY <1>1, Typing, DeliveryStep, PTL DEF Spec

\* However late the rounds and the recoveries commit, a delivery counts at most
\* max_attempt attempts and one for every time a recovery has put it back after its
\* end, and it is not given up before max_attempt.
THEOREM DeliveryAttempts == Spec => []AttemptsBounded
<1>1. DeliveryInv => AttemptsBounded
  BY DEF DeliveryInv, RowsCount, DispatchesCount, Undone, AttemptsBounded
<1>. QED  BY <1>1, DeliveryAlways, PTL

\* What makes CallbackAccounted inductive: the delivery is that of the result, and
\* every dispatch of it knows that the task waits, so that its success ends the wait.
ResultsHaveMail == \A t \in Tasks : result[t] # None => result[t] \in ingested

CallbackHasRow ==
  \A t \in Tasks : state[t] = "WAITING_CALLBACK" =>
    result[t] # None /\ delivery[<<t, result[t]>>] \in Undone \cup {"EXHAUSTED"}

DispatchKnows ==
  \A s \in Sessions : sess[s].op = "dispatch" =>
    LET t == sess[s].task IN
    state[t] = "WAITING_CALLBACK" /\ sess[s].mail = result[t] => sess[s].waiting

CallbackInv == ResultsHaveMail /\ CallbackHasRow /\ DispatchKnows

LEMMA CallbackStep ==
  ASSUME TypeOK, DeliveryInv, CallbackInv, [Next]_vars
  PROVE  CallbackInv'
<1>. USE DEF CallbackInv, Undone
<1>. /\ delivery \in [Tasks \X Mails -> DeliveryStates]
     /\ state \in [Tasks -> TaskStates] /\ result \in [Tasks -> Mails \cup {None}]
     /\ sess \in [Sessions -> Copies]
     /\ None \notin Mails
  BY PoolAssumption DEF TypeOK, MailTypes, TaskTypes, SessTypes
<1>1. ASSUME NEW s \in Sessions, NEW e \in Mails, NEW hit \in SUBSET Tasks,
             IngestPlain(s, e, hit) \/ IngestResult(s, e, hit)
      PROVE  CallbackInv'
  <2>. DEFINE called == {t \in hit : callback[t] # "NO_URL"}
  <2>1. /\ e \in Mails \ ingested /\ ingested' = ingested \cup {e}
        /\ \A r \in Sessions : sess'[r].op \in {"dispatch", "recover"} => sess'[r] = sess[r]
    BY <1>1, IngestingSession
  <2>2. CASE IngestPlain(s, e, hit)
    <3>1. UNCHANGED <<result, delivery>>
      BY <2>2 DEF IngestPlain
    <3>2. \A t \in Tasks : state'[t] = "WAITING_CALLBACK" => state[t] = "WAITING_CALLBACK"
      BY <2>2 DEF IngestPlain
    <3>3. ResultsHaveMail' /\ CallbackHasRow'
      BY <2>1, <3>1, <3>2 DEF ResultsHaveMail, CallbackHasRow
    <3>4. DispatchKnows'
      <4>. SUFFICES ASSUME NEW r \in Sessions, sess'[r].op = "dispatch",
                           state'[sess'[r].task] = "WAITING_CALLBACK",
                           sess'[r].mail = result'[sess'[r].task]
                    PROVE  sess'[r].waiting
        BY DEF DispatchKnows
      <4>1. sess'[r] = sess[r] /\ sess[r].task \in Tasks
        BY <2>1, Dispatching
      <4>. QED  BY <3>1, <3>2, <4>1 DEF DispatchKnows
    <3>. QED  BY <3>3, <3>4
  <2>3. CASE IngestResult(s, e, hit)
    <3>1. \A t \in Tasks : result'[t] = IF t \in hit THEN e ELSE result[t]
      BY <2>3 DEF IngestResult
    <3>2. \A t \in Tasks : state'[t] = "WAITING_CALLBACK" =>
            t \in called \/ (t \notin hit /\ state[t] = "WAITING_CALLBACK")
      BY <2>3 DEF IngestResult
    <3>3. delivery' = Enqueued(called, e)
      BY <2>3 DEF IngestResult
    <3>4. \A t \in Tasks, f \in Mails :
            delivery'[<<t, f>>] = IF t \in called /\ f = e THEN "PENDING" ELSE delivery[<<t, f>>]
      BY <3>3 DEF Enqueued
    <3>5. ResultsHaveMail'
      BY <2>1, <3>1 DEF ResultsHaveMail
    <3>6. CallbackHasRow'
      <4>. SUFFICES ASSUME NEW t \in Tasks, state'[t] = "WAITING_CALLBACK"
                    PROVE  /\ result'[t] # None
                           /\ delivery'[<<t, result'[t]>>] \in Undone \cup {"EXHAUSTED"}
        BY DEF CallbackHasRow
      <4>1. CASE t \in called
        BY <2>1, <3>1, <3>4, <4>1
      <4>2. CASE t \notin hit /\ state[t] = "WAITING_CALLBACK"
        <5>1. result'[t] = result[t] /\ result[t] \in Mails
          BY <3>1, <4>2 DEF CallbackHasRow
        <5>2. delivery'[<<t, result[t]>>] = delivery[<<t, result[t]>>]
          BY <3>4, <4>2, <5>1
        <5>. QED  BY <4>2, <5>1, <5>2 DEF CallbackHasRow
      <4>. QED  BY <3>2, <4>1, <4>2
    <3>7. DispatchKnows'
      <4>. SUFFICES ASSUME NEW r \in Sessions, sess'[r].op = "dispatch",
                           state'[sess'[r].task] = "WAITING_CALLBACK",
                           sess'[r].mail = result'[sess'[r].task]
                    PROVE  sess'[r].waiting
        BY DEF DispatchKnows
      <4>1. sess'[r] = sess[r] /\ sess[r].op = "dispatch" /\ sess[r].task \in Tasks
        BY <2>1, Dispatching
      <4>2. sess[r].mail # e
        BY <2>1, <4>1 DEF DeliveryInv, RowsHaveMail
      <4>3. sess[r].task \notin hit
        BY <3>1, <4>1, <4>2
      <4>. QED  BY <3>1, <3>2, <4>1, <4>3 DEF DispatchKnows
    <3>. QED  BY <3>5, <3>6, <3>7
  <2>. QED  BY <1>1, <2>2, <2>3
<1>2. ASSUME NEW s \in Sessions, NEW t \in Tasks, NEW e \in Mails, DispatchClaim(s, t, e)
      PROVE  CallbackInv'
  <2>. DEFINE copy == [op |-> "dispatch", task |-> t, mail |-> e,
                       sent |-> attempt[<<t, e>>] + 1, held |-> HeldBy(t),
                       waiting |-> state[t] = "WAITING_CALLBACK"]
  <2>1. /\ UNCHANGED <<state, result, ingested>>
        /\ delivery' = [delivery EXCEPT ![<<t, e>>] = "SENDING"]
        /\ sess' = [sess EXCEPT ![s] = copy]
    BY <1>2 DEF DispatchClaim, Open, taskVars
  <2>2. copy.task = t /\ copy.waiting = (state[t] = "WAITING_CALLBACK")
    OBVIOUS
  <2>. HIDE DEF copy
  <2>3. \A r \in Sessions : sess'[r] = sess[r] \/ sess'[r] = copy
    BY <2>1
  <2>4. CallbackHasRow' /\ ResultsHaveMail'
    BY <2>1 DEF CallbackHasRow, ResultsHaveMail
  <2>5. DispatchKnows'
    BY <2>1, <2>2, <2>3 DEF DispatchKnows
  <2>. QED  BY <2>4, <2>5
<1>3. ASSUME NEW s \in Sessions, DispatchOk(s)
      PROVE  CallbackInv'
  <2>. DEFINE t == sess[s].task
              e == sess[s].mail
  <2>1. /\ sess[s].op = "dispatch" /\ sess' = [sess EXCEPT ![s] = Idle]
        /\ UNCHANGED <<result, ingested>>
        /\ delivery' = [delivery EXCEPT ![<<t, e>>] = "SUCCESS"]
    BY <1>3 DEF DispatchOk, Close
  <2>2. \/ sess[s].waiting /\ state' = [state EXCEPT ![t] = "COMPLETED"]
        \/ ~sess[s].waiting /\ state' = state
    BY <1>3 DEF DispatchOk
  <2>3. t \in Tasks /\ e \in Mails
    BY <2>1, Dispatching
  <2>4. state[t] = "WAITING_CALLBACK" /\ e = result[t] => sess[s].waiting
    BY <2>1 DEF DispatchKnows
  <2>5. \A r \in Sessions : sess'[r].op = "dispatch" => sess'[r] = sess[r]
    BY <2>1 DEF Idle
  <2>. HIDE DEF t, e
  <2>6. \A u \in Tasks : state'[u] = "WAITING_CALLBACK" =>
          state[u] = "WAITING_CALLBACK" /\ ~(u = t /\ e = result[t])
    BY <2>2, <2>3, <2>4
  <2>7. CallbackHasRow' /\ ResultsHaveMail'
    BY <2>1, <2>3, <2>6 DEF CallbackHasRow, ResultsHaveMail
  <2>8. DispatchKnows'
    <3>. SUFFICES ASSUME NEW r \in Sessions, sess'[r].op = "dispatch",
                         state'[sess'[r].task] = "WAITING_CALLBACK",
                         sess'[r].mail = result'[sess'[r].task]
                  PROVE  sess'[r].waiting
      BY DEF DispatchKnows
    <3>1. sess'[r] = sess[r] /\ sess[r].task \in Tasks
      BY <2>5, Dispatching
    <3>. QED  BY <2>1, <2>6, <3>1 DEF DispatchKnows
  <2>. QED  BY <2>7, <2>8
<1>4. ASSUME NEW s \in Sessions, DispatchFail(s)
      PROVE  CallbackInv'
  <2>. DEFINE d == <<sess[s].task, sess[s].mail>>
  <2>1. /\ sess[s].op = "dispatch" /\ sess' = [sess EXCEPT ![s] = Idle]
        /\ UNCHANGED <<state, result, ingested>>
        /\ delivery' \in {[delivery EXCEPT ![d] = "EXHAUSTED"], [delivery EXCEPT ![d] = "RETRYING"]}
    BY <1>4 DEF DispatchFail, Close
  <2>2. d \in Tasks \X Mails
    BY <2>1, Dispatching
  <2>3. \A r \in Sessions : sess'[r].op = "dispatch" => sess'[r] = sess[r]
    BY <2>1 DEF Idle
  <2>. HIDE DEF d
  <2>4. CallbackHasRow' /\ ResultsHaveMail'
    BY <2>1, <2>2 DEF CallbackHasRow, ResultsHaveMail
  <2>5. DispatchKnows'
    BY <2>1, <2>3 DEF DispatchKnows
  <2>. QED  BY <2>4, <2>5
<1>5. ASSUME NEW s \in Sessions,
             (\E t \in Tasks, e \in Mails : RecoverRead(s, t, e)) \/ RecoverCommit(s)
      PROVE  CallbackInv'
  <2>1. /\ UNCHANGED <<state, result, ingested>>
        /\ \A r \in Sessions : sess'[r].op = "dispatch" => sess'[r] = sess[r]
    <3>1. CASE \E t \in Tasks, e \in Mails : RecoverRead(s, t, e)
      BY <3>1 DEF RecoverRead, Open, taskVars, mailVars
    <3>2. CASE RecoverCommit(s)
      BY <3>2 DEF RecoverCommit, Close, Idle, taskVars
    <3>. QED  BY <1>5, <3>1, <3>2
  <2>2. \A d \in Tasks \X Mails : delivery'[d] \in {delivery[d], "RETRYING"}
    BY <1>5 DEF RecoverRead, RecoverCommit, mailVars
  <2>3. CallbackHasRow' /\ ResultsHaveMail'
    BY <2>1, <2>2 DEF CallbackHasRow, ResultsHaveMail
  <2>4. DispatchKnows'
    BY <2>1 DEF DispatchKnows
  <2>. QED  BY <2>3, <2>4
<1>6. CASE NoDelivery
  <2>1. /\ UNCHANGED <<result, ingested, delivery>>
        /\ \A t \in Tasks : state'[t] = "WAITING_CALLBACK" => state[t] = "WAITING_CALLBACK"
        /\ \A s \in Sessions : sess'[s].op = "dispatch" => sess'[s] = sess[s]
    BY <1>6 DEF NoDelivery, mailVars
  <2>2. ResultsHaveMail' /\ CallbackHasRow'
    BY <2>1 DEF ResultsHaveMail, CallbackHasRow
  <2>3. DispatchKnows'
    <3>. SUFFICES ASSUME NEW r \in Sessions, sess'[r].op = "dispatch",
                         state'[sess'[r].task] = "WAITING_CALLBACK",
                         sess'[r].mail = result'[sess'[r].task]
                  PROVE  sess'[r].waiting
      BY DEF DispatchKnows
    <3>1. sess'[r] = sess[r] /\ sess[r].task \in Tasks
      BY <2>1, Dispatching
    <3>. QED  BY <2>1, <3>1 DEF DispatchKnows
  <2>. QED  BY <2>2, <2>3
<1>. QED  BY <1>1, <1>2, <1>3, <1>4, <1>5, <1>6, DeliverySteps

\* A task that waits for its callback has a delivery that is not yet answered, or that
\* is given up, whatever resurrects the task, recovers the delivery or overlaps.
THEOREM CallbackHasDelivery == Spec => []CallbackAccounted
<1>1. Init => CallbackInv
  BY DEF Init, Idle, CallbackInv, ResultsHaveMail, CallbackHasRow, DispatchKnows
<1>2. TypeOK /\ CallbackInv => CallbackAccounted
  BY DEF TypeOK, TaskTypes, CallbackInv, CallbackHasRow, Undone, CallbackAccounted
<1>. QED  BY <1>1, <1>2, Typing, DeliveryAlways, CallbackStep, PTL DEF Spec

-----------------------------------------------------------------------------
(* Results *)

\* No two rounds have the same task to serve, as two that read at the same time would;
\* a scheduler that is alone never does.
RoundsApart == \A v, w \in Schedulers : mon[v].todo \cap mon[w].todo # {} => v = w

\* What a round has to serve, before and after a step other than an assignment.
NothingNewTodo ==
  \A w \in Schedulers : \A t \in mon'[w].todo :
    t \in mon[w].todo \/ (state[t] = "WAITING_MAILBOX" /\ state'[t] = state[t])

\* What the refinement of the lease book needs to know: a task has no result before it
\* waits for mail, nor while a monitor has it to serve, and no other monitor gives it
\* a mailbox in the meantime.
NoneBeforeMail ==
  \A t \in Tasks :
    state[t] \in {"NONE", "WAITING_MAILBOX", "WAITING_EMAIL"} => result[t] = None

NoneWhileServed ==
  \A w \in Schedulers :
    /\ \A t \in mon[w].todo :
         result[t] = None /\ state[t] \in {"WAITING_MAILBOX"} \cup TERMINAL_STATES
    /\ mon[w].phase = "plan" => mon[w].task \in mon[w].todo

ResultInv == NoneBeforeMail /\ NoneWhileServed

LEMMA TodoStep ==
  ASSUME TypeOK, NoneWhileServed, NEW w \in Schedulers,
         \/ MonitorRead(w) \/ MonitorSweep(w) \/ MonitorCommit(w) \/ MonitorAbort(w)
         \/ \E t \in Tasks : MonitorSkip(w, t)
  PROVE  /\ NothingNewTodo /\ UNCHANGED result
         /\ \A v \in Schedulers : mon'[v].phase = "plan" => mon'[v] = mon[v]
<1>. USE DEF TypeOK, MonTypes
<1>1. CASE MonitorRead(w)
  BY <1>1 DEF MonitorRead, Sweeping, Serving, Waiting, taskVars, NothingNewTodo
<1>2. CASE MonitorSweep(w)
  BY <1>2 DEF MonitorSweep, Serving, Waiting, NothingNewTodo
<1>3. CASE MonitorCommit(w) \/ MonitorAbort(w)
  BY <1>3 DEF MonitorCommit, MonitorAbort, MonitorIdle, taskVars, NothingNewTodo
<1>4. ASSUME NEW t \in Tasks, MonitorSkip(w, t)
      PROVE  NothingNewTodo /\ UNCHANGED result
             /\ \A v \in Schedulers : mon'[v].phase = "plan" => mon'[v] = mon[v]
  BY <1>4 DEF MonitorSkip, Serving, taskVars, NothingNewTodo
<1>. QED  BY <1>1, <1>2, <1>3, <1>4

\* A step that neither creates a task, nor plans, nor assigns leaves results alone, but
\* for those of the tasks that waited for mail and do so no longer.
ResultsKept ==
  \A t \in Tasks :
    \/ result'[t] = result[t]
    \/ state[t] = "WAITING_EMAIL" /\ state'[t] \in {"WAITING_CALLBACK", "COMPLETED"}

LEMMA SessionResults ==
  ASSUME TypeOK, NEW s \in Sessions,
         \/ Begin(s) \/ Finish(s) \/ Abort(s)
         \/ \E e \in Mails, hit \in SUBSET Tasks : IngestPlain(s, e, hit) \/ IngestResult(s, e, hit)
  PROVE  ResultsKept /\ UNCHANGED mon
<1>1. CASE Begin(s)
  BY <1>1 DEF Begin, CancelRead, ClaimRead, AllocateRead, ReleaseRead, HealthRead, SyncRead,
              CooldownRead, DispatchClaim, RecoverRead, taskVars, ResultsKept
<1>2. CASE Finish(s) \/ Abort(s)
  BY <1>2 DEF Finish, Abort, CancelCommit, ClaimCommit, AllocateCommit, ReleaseCommit,
              CooldownCommit, HealthCommit, SyncCommit, SyncGiveUp, DispatchOk, DispatchFail,
              RecoverCommit, taskVars, ResultsKept
<1>3. ASSUME NEW e \in Mails, NEW hit \in SUBSET Tasks,
             IngestPlain(s, e, hit) \/ IngestResult(s, e, hit)
      PROVE  ResultsKept /\ UNCHANGED mon
  <2>1. CASE IngestPlain(s, e, hit)
    BY <2>1 DEF IngestPlain, ResultsKept
  <2>2. CASE IngestResult(s, e, hit)
    <3>1. \A t \in Tasks : result'[t] = IF t \in hit THEN e ELSE result[t]
      BY <2>2 DEF IngestResult
    <3>2. \A t \in hit : state[t] = "WAITING_EMAIL"
      BY <2>2 DEF IngestResult, Matchable
    <3>3. \A t \in hit : state'[t] \in {"WAITING_CALLBACK", "COMPLETED"}
      BY <2>2 DEF IngestResult
    <3>4. UNCHANGED mon
      BY <2>2 DEF IngestResult
    <3>. QED  BY <3>1, <3>2, <3>3, <3>4 DEF ResultsKept
  <2>. QED  BY <1>3, <2>1, <2>2
<1>. QED  BY <1>1, <1>2, <1>3

\* The steps of a round: lemma Steps, with what they do to the results.
LEMMA ResultSteps ==
  ASSUME TypeOK, ResultInv, [Next]_vars
  PROVE  \/ \E t \in Tasks, p \in Projects \cup {None}, url \in BOOLEAN : CreateTask(t, p, url)
         \/ \E w \in Schedulers, t \in Tasks, m \in Mailboxes : MonitorPlan(w, t, m)
         \/ \E w \in Schedulers : MonitorAssign(w)
         \/ NoGrant /\ ResultsKept /\ NothingNewTodo
<1>1. ASSUME NEW s \in Sessions,
             \/ Begin(s) \/ Finish(s) \/ Abort(s)
             \/ \E e \in Mails, hit \in SUBSET Tasks :
                  IngestPlain(s, e, hit) \/ IngestResult(s, e, hit)
      PROVE  NoGrant /\ ResultsKept /\ NothingNewTodo
  <2>1. NoGrant /\ ResultsKept /\ UNCHANGED mon
    BY <1>1, SessionsGrantNothing, SessionResults
  <2>. QED  BY <2>1 DEF NothingNewTodo
<1>2. ASSUME NEW w \in Schedulers,
             \/ MonitorRead(w) \/ MonitorSweep(w) \/ MonitorCommit(w) \/ MonitorAbort(w)
             \/ \E t \in Tasks : MonitorSkip(w, t)
      PROVE  NoGrant /\ ResultsKept /\ NothingNewTodo
  <2>1. NoGrant
    BY <1>2, MonitorGrantsNothing
  <2>2. NothingNewTodo /\ UNCHANGED result
    BY <1>2, TodoStep DEF ResultInv
  <2>. QED  BY <2>1, <2>2 DEF ResultsKept
<1>3. CASE \/ \E m \in Mailboxes, to \in Statuses : PatchStatus(m, to)
           \/ \E t \in Tasks : Expire(t)
           \/ \E m \in Mailboxes : CooldownElapse(m)
           \/ Midnight
           \/ UNCHANGED vars
  <2>1. UNCHANGED <<state, mbox, result, mon>>
    BY <1>3 DEF PatchStatus, Expire, CooldownElapse, Midnight, vars, taskVars
  <2>. QED  BY <2>1 DEF NoGrant, ResultsKept, NothingNewTodo
<1>. QED  BY <1>1, <1>2, <1>3 DEF Next, MonitorStep

LEMMA ResultStep ==
  ASSUME RoundsApart, TypeOK, ResultInv, [Next]_vars
  PROVE  ResultInv' /\ \A t \in Tasks : result[t] # None => result'[t] = result[t]
<1>. USE DEF ResultInv
<1>. /\ state \in [Tasks -> TaskStates] /\ mon \in [Schedulers -> Rounds]
     /\ \A w \in Schedulers : mon[w].todo \subseteq Tasks
  BY DEF TypeOK, TaskTypes, MonTypes, Rounds
<1>1. ASSUME NEW u \in Tasks, NEW p \in Projects \cup {None}, NEW url \in BOOLEAN,
             CreateTask(u, p, url)
      PROVE  ResultInv' /\ \A t \in Tasks : result[t] # None => result'[t] = result[t]
  <2>1. /\ state[u] = "NONE" /\ UNCHANGED <<result, mon>>
        /\ \A t \in Tasks : t # u => state'[t] = state[t]
    BY <1>1 DEF CreateTask
  <2>2. result[u] = None /\ \A w \in Schedulers : u \notin mon[w].todo
    BY <2>1 DEF NoneBeforeMail, NoneWhileServed, TERMINAL_STATES
  <2>3. NoneBeforeMail'
    BY <2>1, <2>2 DEF NoneBeforeMail
  <2>4. NoneWhileServed'
    BY <2>1, <2>2 DEF NoneWhileServed
  <2>. QED  BY <2>1, <2>3, <2>4
<1>2. ASSUME NEW v \in Schedulers, NEW u \in Tasks, NEW m \in Mailboxes, MonitorPlan(v, u, m)
      PROVE  ResultInv' /\ \A t \in Tasks : result[t] # None => result'[t] = result[t]
  <2>. DEFINE round == Planned(mon[v].todo, u, m)
  <2>1. /\ UNCHANGED <<state, result>> /\ u \in mon[v].todo
        /\ mon' = [mon EXCEPT ![v] = round]
    BY <1>2 DEF MonitorPlan, taskVars
  <2>2. round.todo = mon[v].todo /\ round.task = u
    BY DEF Planned
  <2>. HIDE DEF round
  <2>3. \A w \in Schedulers : mon'[w].todo = mon[w].todo
                              /\ (mon'[w] = mon[w] \/ mon'[w].task \in mon[w].todo)
    BY <2>1, <2>2
  <2>. QED  BY <2>1, <2>3 DEF NoneBeforeMail, NoneWhileServed
<1>3. ASSUME NEW v \in Schedulers, MonitorAssign(v)
      PROVE  ResultInv' /\ \A t \in Tasks : result[t] # None => result'[t] = result[t]
  <2>. DEFINE u == mon[v].task
              round == Serving(mon[v].todo \ {u})
  <2>1. /\ UNCHANGED result /\ mon[v].phase = "plan"
        /\ state' = [state EXCEPT ![u] = "WAITING_EMAIL"]
        /\ mon' = [mon EXCEPT ![v] = round]
    BY <1>3 DEF MonitorAssign, Monitoring
  <2>2. round.todo = mon[v].todo \ {u} /\ round.phase = "allocate"
    BY DEF Serving
  <2>3. u \in mon[v].todo /\ result[u] = None
    BY <2>1 DEF NoneWhileServed
  <2>. HIDE DEF u, round
  <2>4. \A w \in Schedulers : /\ mon'[w].todo = mon[w].todo \ {u}
                              /\ mon'[w].phase = "plan" => mon'[w].task \in mon'[w].todo
    <3>1. ASSUME NEW w \in Schedulers, w # v PROVE u \notin mon[w].todo /\ mon'[w] = mon[w]
      BY <2>1, <2>3, <3>1 DEF RoundsApart
    <3>. QED  BY <2>1, <2>2, <3>1 DEF NoneWhileServed
  <2>5. NoneBeforeMail'
    BY <2>1, <2>3 DEF NoneBeforeMail
  <2>6. NoneWhileServed'
    BY <2>1, <2>4 DEF NoneWhileServed
  <2>. QED  BY <2>1, <2>5, <2>6
<1>4. CASE NoGrant /\ ResultsKept /\ NothingNewTodo
  <2>1. \A t \in Tasks : result[t] # None => result'[t] = result[t]
    BY <1>4 DEF ResultsKept, NoneBeforeMail
  <2>2. NoneBeforeMail'
    BY <1>4 DEF NoGrant, ResultsKept, NoneBeforeMail, TERMINAL_STATES
  <2>3. \A w \in Schedulers : \A t \in mon[w].todo :
          result'[t] = None /\ state'[t] \in {"WAITING_MAILBOX"} \cup TERMINAL_STATES
    BY <1>4 DEF NoGrant, ResultsKept, NoneWhileServed, TERMINAL_STATES
  <2>4. \A t \in Tasks : state[t] = "WAITING_MAILBOX" /\ state'[t] = state[t] => result'[t] = None
    BY <1>4 DEF ResultsKept, NoneBeforeMail
  <2>5. mon' \in [Schedulers -> Rounds]
    BY TypeStep DEF TypeOK, MonTypes
  <2>6. \A w \in Schedulers : mon'[w].todo \subseteq Tasks
    BY <2>5 DEF Rounds
  <2>7. NoneWhileServed'
    BY <1>4, <2>3, <2>4, <2>6 DEF NoGrant, NothingNewTodo, NoneWhileServed
  <2>. QED  BY <2>1, <2>2, <2>7
<1>. QED  BY <1>1, <1>2, <1>3, <1>4, ResultSteps

\* What makes ResultStable inductive for any number of schedulers: a task has no result
\* before it has a mailbox, nor while it waits for mail, unless it was given another one.
BoundInBox == \A t \in Tasks : result[t] # None => mbox[t] # None

NoneUntilMail ==
  \A t \in Tasks :
    state[t] \in {"NONE", "WAITING_MAILBOX", "WAITING_EMAIL"} /\ t \notin regranted
      => result[t] = None

BindingInv == BoundInBox /\ NoneUntilMail

LEMMA SessionRegrants ==
  ASSUME NEW s \in Sessions,
         \/ Begin(s) \/ Finish(s) \/ Abort(s)
         \/ \E e \in Mails, hit \in SUBSET Tasks : IngestPlain(s, e, hit) \/ IngestResult(s, e, hit)
  PROVE  UNCHANGED regranted
<1>1. CASE Begin(s)
  BY <1>1 DEF Begin, CancelRead, ClaimRead, AllocateRead, ReleaseRead, HealthRead, SyncRead,
              CooldownRead, DispatchClaim, RecoverRead, history
<1>2. CASE Finish(s) \/ Abort(s)
  BY <1>2 DEF Finish, Abort, CancelCommit, ClaimCommit, AllocateCommit, ReleaseCommit,
              CooldownCommit, HealthCommit, SyncCommit, SyncGiveUp, DispatchOk, DispatchFail,
              RecoverCommit, history
<1>3. CASE \E e \in Mails, hit \in SUBSET Tasks : IngestPlain(s, e, hit) \/ IngestResult(s, e, hit)
  BY <1>3 DEF IngestPlain, IngestResult, history
<1>. QED  BY <1>1, <1>2, <1>3

\* Lemma Steps, with what a step that grants nothing does to results and the history.
LEMMA BindingSteps ==
  ASSUME TypeOK, [Next]_vars
  PROVE  \/ \E t \in Tasks, p \in Projects \cup {None}, url \in BOOLEAN : CreateTask(t, p, url)
         \/ \E w \in Schedulers, t \in Tasks, m \in Mailboxes : MonitorPlan(w, t, m)
         \/ \E w \in Schedulers : MonitorAssign(w)
         \/ NoGrant /\ ResultsKept /\ UNCHANGED regranted
<1>1. ASSUME NEW s \in Sessions,
             \/ Begin(s) \/ Finish(s) \/ Abort(s)
             \/ \E e \in Mails, hit \in SUBSET Tasks :
                  IngestPlain(s, e, hit) \/ IngestResult(s, e, hit)
      PROVE  NoGrant /\ ResultsKept /\ UNCHANGED regranted
  BY <1>1, SessionsGrantNothing, SessionResults, SessionRegrants
<1>2. ASSUME NEW w \in Schedulers,
             \/ MonitorRead(w) \/ MonitorSweep(w) \/ MonitorCommit(w) \/ MonitorAbort(w)
             \/ \E t \in Tasks : MonitorSkip(w, t)
      PROVE  NoGrant /\ ResultsKept /\ UNCHANGED regranted
  <2>1. UNCHANGED <<result, regranted>>
    BY <1>2 DEF MonitorRead, MonitorSweep, MonitorCommit, MonitorAbort, MonitorSkip,
                taskVars, history
  <2>. QED  BY <1>2, <2>1, MonitorGrantsNothing DEF ResultsKept
<1>3. CASE \/ \E m \in Mailboxes, to \in Statuses : PatchStatus(m, to)
           \/ \E t \in Tasks : Expire(t)
           \/ \E m \in Mailboxes : CooldownElapse(m)
           \/ Midnight
           \/ UNCHANGED vars
  <2>1. UNCHANGED <<state, mbox, result, mon, regranted>>
    BY <1>3 DEF PatchStatus, Expire, CooldownElapse, Midnight, vars, taskVars, history
  <2>. QED  BY <2>1 DEF NoGrant, ResultsKept
<1>. QED  BY <1>1, <1>2, <1>3 DEF Next, MonitorStep

LEMMA BindingStep ==
  ASSUME TypeOK, MailboxBeforeMail, BindingInv, [Next]_vars
  PROVE  /\ BindingInv'
         /\ \A t \in Tasks : result[t] # None /\ t \notin regranted => result'[t] = result[t]
<1>. USE DEF BindingInv
<1>. state \in [Tasks -> TaskStates] /\ mbox \in [Tasks -> Mailboxes \cup {None}]
  BY DEF TypeOK, TaskTypes
<1>1. ASSUME NEW u \in Tasks, NEW p \in Projects \cup {None}, NEW url \in BOOLEAN,
             CreateTask(u, p, url)
      PROVE  /\ BindingInv'
             /\ \A t \in Tasks : result[t] # None /\ t \notin regranted => result'[t] = result[t]
  <2>1. /\ state[u] = "NONE" /\ UNCHANGED <<result, regranted>>
        /\ \A t \in Tasks \ {u} : state'[t] = state[t] /\ mbox'[t] = mbox[t]
    BY <1>1 DEF CreateTask, history
  <2>2. mbox[u] = None
    BY <2>1 DEF MailboxBeforeMail
  <2>. QED  BY <2>1, <2>2 DEF BoundInBox, NoneUntilMail
<1>2. ASSUME NEW w \in Schedulers, NEW u \in Tasks, NEW m \in Mailboxes, MonitorPlan(w, u, m)
      PROVE  /\ BindingInv'
             /\ \A t \in Tasks : result[t] # None /\ t \notin regranted => result'[t] = result[t]
  BY <1>2 DEF MonitorPlan, taskVars, history, BoundInBox, NoneUntilMail
<1>3. ASSUME NEW w \in Schedulers, MonitorAssign(w)
      PROVE  /\ BindingInv'
             /\ \A t \in Tasks : result[t] # None /\ t \notin regranted => result'[t] = result[t]
  <2>. DEFINE u == mon[w].task
  <2>1. u \in Tasks /\ mon[w].box \in Mailboxes
    BY <1>3 DEF MonitorAssign, Monitoring, TypeOK, MonTypes
  <2>2. /\ state' = [state EXCEPT ![u] = "WAITING_EMAIL"]
        /\ mbox' = [mbox EXCEPT ![u] = mon[w].box] /\ UNCHANGED result
        /\ regranted' = IF mbox[u] = None THEN regranted ELSE regranted \cup {u}
    BY <1>3 DEF MonitorAssign, Assigned
  <2>. HIDE DEF u
  <2>3. BoundInBox'
    BY <2>1, <2>2, PoolAssumption DEF BoundInBox
  <2>4. NoneUntilMail'
    BY <2>1, <2>2 DEF BoundInBox, NoneUntilMail
  <2>. QED  BY <2>2, <2>3, <2>4
<1>4. CASE NoGrant /\ ResultsKept /\ UNCHANGED regranted
  <2>1. BoundInBox'
    BY <1>4 DEF NoGrant, ResultsKept, MailboxBeforeMail, BoundInBox
  <2>2. NoneUntilMail'
    BY <1>4 DEF NoGrant, ResultsKept, NoneUntilMail, TERMINAL_STATES
  <2>. QED  BY <1>4, <2>1, <2>2 DEF ResultsKept, NoneUntilMail
<1>. QED  BY <1>1, <1>2, <1>3, <1>4, BindingSteps

\* However many schedulers and syncs there are, the result a task reports is the first
\* one bound to it, whatever cancels, resurrects, times out or completes it, unless a
\* monitor has given the task a second mailbox.
THEOREM FirstResult == Spec => ResultStable
<1>1. Init => BindingInv
  BY DEF Init, BindingInv, BoundInBox, NoneUntilMail
<1>2. TypeOK /\ MailboxBeforeMail /\ BindingInv /\ [Next]_vars => BindingInv'
  BY BindingStep
<1>3. TypeOK /\ MailboxBeforeMail /\ BindingInv /\ [Next]_vars
        => [\A t \in Tasks :
              result[t] # None /\ t \notin regranted => result'[t] = result[t]]_vars
  BY BindingStep
<1>. QED  BY <1>1, <1>2, <1>3, Typing, MailboxFirst, PTL DEF Spec, ResultStable

-----------------------------------------------------------------------------
(* The lease book *)

\* The tasks whose lease has not ended.
Leased == {t \in Tasks : mbox[t] # None /\ state[t] \in IN_FLIGHT_STATES}

\* What the refinement rests on: a task that waits for a mailbox, or is about to get
\* one, has none.
WaitingUnbound == \A t \in Tasks : state[t] = "WAITING_MAILBOX" => mbox[t] = None

ServedUnbound == \A w \in Schedulers : \A t \in mon[w].todo : mbox[t] = None

BookInv == WaitingUnbound /\ ServedUnbound

\* In the book, the leases of a mailbox are the tasks that are in flight with it.
LEMMA LeasesAreInFlight ==
  ASSUME NEW m \in Mailboxes
  PROVE  Book!Leases(m) = InFlight(m)
  BY PoolAssumption DEF Book!Leases, InFlight

\* The book counts as the pool does.
LEMMA SameSize ==
  ASSUME NEW S
  PROVE  Book!Cardinality(S) = Cardinality(S)
  BY DEF Book!Cardinality, Cardinality

\* A step that gives a mailbox to a task that has none is a Grant.
LEMMA GrantStep ==
  ASSUME TypeOK, NEW u \in Tasks, NEW m \in Mailboxes, mbox[u] = None,
         Cardinality(InFlight(m)) < MaxConcurrent + Cardinality(Schedulers),
         mbox' = [mbox EXCEPT ![u] = m], state' = [state EXCEPT ![u] = "WAITING_EMAIL"]
  PROVE  Book!Grant(u, m)
<1>1. Book!Cardinality(Book!Leases(m)) < MaxConcurrent + Cardinality(Schedulers)
  BY LeasesAreInFlight, SameSize
<1>2. Leased' = Leased \cup {u}
  BY PoolAssumption DEF TypeOK, TaskTypes, Leased, IN_FLIGHT_STATES
<1>. QED  BY <1>1, <1>2 DEF Book!Grant, Leased

LEMMA BookStep ==
  ASSUME RoundsApart, TypeOK, MailboxBeforeMail, LeasesCounted, ResultInv, BookInv, [Next]_vars
  PROVE  BookInv' /\ [Book!BookNext]_(Book!bookVars)
<1>. USE DEF BookInv
<1>. /\ state \in [Tasks -> TaskStates] /\ mbox \in [Tasks -> Mailboxes \cup {None}]
     /\ mon \in [Schedulers -> Rounds] /\ \A w \in Schedulers : mon[w].todo \subseteq Tasks
     /\ \A t \in Tasks : state[t] = "NONE" => mbox[t] = None
  BY DEF TypeOK, TaskTypes, MonTypes, Rounds, MailboxBeforeMail
<1>1. ASSUME NEW u \in Tasks, NEW p \in Projects \cup {None}, NEW url \in BOOLEAN,
             CreateTask(u, p, url)
      PROVE  BookInv' /\ [Book!BookNext]_(Book!bookVars)
  <2>1. state[u] = "NONE" /\ mbox[u] = None /\ UNCHANGED mon
    BY <1>1 DEF CreateTask
  <2>2. \A w \in Schedulers : u \notin mon[w].todo
    BY <2>1 DEF ResultInv, NoneWhileServed, TERMINAL_STATES
  <2>3. CASE \E m \in Allocatable(p) : /\ state' = [state EXCEPT ![u] = "WAITING_EMAIL"]
                                       /\ mbox' = [mbox EXCEPT ![u] = m]
    <3>1. PICK m \in Allocatable(p) : /\ state' = [state EXCEPT ![u] = "WAITING_EMAIL"]
                                      /\ mbox' = [mbox EXCEPT ![u] = m]
      BY <2>3
    <3>2. m \in Mailboxes /\ Cardinality(InFlight(m)) < MaxConcurrent
      BY DEF Allocatable
    <3>3. Cardinality(InFlight(m)) < MaxConcurrent + Cardinality(Schedulers)
      BY <3>2, LeasesFinite, PoolAssumption
    <3>4. Book!Grant(u, m)
      BY <2>1, <3>1, <3>2, <3>3, GrantStep
    <3>5. BookInv'
      BY <2>1, <2>2, <3>1 DEF WaitingUnbound, ServedUnbound
    <3>. QED  BY <3>2, <3>4, <3>5 DEF Book!BookNext
  <2>4. CASE state' = [state EXCEPT ![u] = "WAITING_MAILBOX"] /\ UNCHANGED mbox
    <3>1. Leased' = Leased
      BY <2>1, <2>4 DEF Leased
    <3>2. BookInv'
      BY <2>1, <2>2, <2>4 DEF WaitingUnbound, ServedUnbound
    <3>. QED  BY <2>4, <3>1, <3>2 DEF Leased, Book!bookVars
  <2>. QED  BY <1>1, <2>3, <2>4 DEF CreateTask
<1>2. ASSUME NEW v \in Schedulers, NEW u \in Tasks, NEW m \in Mailboxes, MonitorPlan(v, u, m)
      PROVE  BookInv' /\ [Book!BookNext]_(Book!bookVars)
  <2>. DEFINE round == Planned(mon[v].todo, u, m)
  <2>1. UNCHANGED <<state, mbox>> /\ mon' = [mon EXCEPT ![v] = round]
    BY <1>2 DEF MonitorPlan, taskVars
  <2>2. round.todo = mon[v].todo
    BY DEF Planned
  <2>. HIDE DEF round
  <2>3. \A w \in Schedulers : mon'[w].todo = mon[w].todo
    BY <2>1, <2>2
  <2>4. Leased' = Leased
    BY <2>1 DEF Leased
  <2>. QED  BY <2>1, <2>3, <2>4 DEF Leased, WaitingUnbound, ServedUnbound, Book!bookVars
<1>3. ASSUME NEW v \in Schedulers, MonitorAssign(v)
      PROVE  BookInv' /\ [Book!BookNext]_(Book!bookVars)
  <2>0. mon[v].phase = "plan" /\ mon[v].task \in Tasks /\ mon[v].box \in Mailboxes
    BY <1>3 DEF MonitorAssign, Monitoring, TypeOK, MonTypes
  <2>. SUFFICES ASSUME NEW u \in Tasks, NEW m \in Mailboxes, u = mon[v].task, m = mon[v].box
                PROVE  BookInv' /\ [Book!BookNext]_(Book!bookVars)
    BY <2>0
  <2>. DEFINE round == Serving(mon[v].todo \ {u})
  <2>1. /\ state' = [state EXCEPT ![u] = "WAITING_EMAIL"]
        /\ mbox' = [mbox EXCEPT ![u] = m]
        /\ mon' = [mon EXCEPT ![v] = round]
    BY <1>3 DEF MonitorAssign, Assigned
  <2>2. u \in mon[v].todo /\ v \in Planning(m)
    BY <2>0 DEF ResultInv, NoneWhileServed, Planning
  <2>3. mbox[u] = None
    BY <2>2 DEF ServedUnbound
  <2>4. round.todo = mon[v].todo \ {u}
    BY DEF Serving
  <2>. HIDE DEF round
  <2>5. Cardinality(InFlight(m)) < MaxConcurrent + Cardinality(Schedulers)
    <3>1. Cardinality(Planning(m)) # 0
      BY <2>2, LeasesFinite, FS_EmptySet
    <3>2. Cardinality(InFlight(m)) + Cardinality(Planning(m))
            <= MaxConcurrent + Cardinality(Schedulers)
      BY <2>2 DEF LeasesCounted
    <3>. QED  BY <3>1, <3>2, LeasesFinite, PoolAssumption
  <2>6. Book!Grant(u, m)
    BY <2>1, <2>2, <2>3, <2>5, GrantStep
  <2>7. \A w \in Schedulers : mon'[w].todo = mon[w].todo \ {u}
    BY <2>1, <2>2, <2>4 DEF RoundsApart
  <2>8. BookInv'
    BY <2>1, <2>2, <2>7 DEF WaitingUnbound, ServedUnbound
  <2>. QED  BY <2>2, <2>6, <2>8 DEF Book!BookNext
<1>4. CASE NoGrant /\ ResultsKept /\ NothingNewTodo
  <2>1. UNCHANGED mbox /\ Leased' \subseteq Leased
    BY <1>4 DEF NoGrant, Leased, IN_FLIGHT_STATES, TERMINAL_STATES
  <2>2. WaitingUnbound'
    BY <1>4 DEF NoGrant, WaitingUnbound, TERMINAL_STATES
  <2>3. ServedUnbound'
    <3>1. mon' \in [Schedulers -> Rounds]
      BY TypeStep DEF TypeOK, MonTypes
    <3>2. \A w \in Schedulers : mon'[w].todo \subseteq Tasks
      BY <3>1 DEF Rounds
    <3>. QED  BY <1>4, <2>1, <3>2 DEF NothingNewTodo, WaitingUnbound, ServedUnbound
  <2>4. CASE Leased' = Leased
    BY <2>1, <2>2, <2>3, <2>4 DEF Leased, Book!bookVars
  <2>5. CASE Leased' # Leased
    <3>1. PICK ended \in SUBSET Leased : ended # {} /\ Leased' = Leased \ ended
      <4>1. /\ Leased \ Leased' \in SUBSET Leased /\ Leased \ Leased' # {}
            /\ Leased' = Leased \ (Leased \ Leased')
        BY <2>1, <2>5
      <4>. QED  BY <4>1
    <3>2. Book!End(ended)
      BY <2>1, <3>1 DEF Book!End, Leased
    <3>3. Book!BookNext
      BY <3>1, <3>2 DEF Book!BookNext, Leased
    <3>. QED  BY <2>2, <2>3, <3>3
  <2>. QED  BY <2>4, <2>5
<1>. QED  BY <1>1, <1>2, <1>3, <1>4, ResultSteps

\* Under the same condition the task pool implements the lease book: no task is granted
\* a second mailbox, no lease that has ended comes back, no mailbox has more than its cap.
THEOREM Booking == Spec /\ []RoundsApart => LeasesBooked
<1>1. Init => ResultInv /\ BookInv
  BY DEF Init, MonitorIdle, ResultInv, NoneBeforeMail, NoneWhileServed,
         BookInv, WaitingUnbound, ServedUnbound
<1>2. Init => Book!BookInit
  BY DEF Init, Book!BookInit
<1>3. RoundsApart /\ TypeOK /\ ResultInv /\ [Next]_vars => ResultInv'
  BY ResultStep
<1>4. RoundsApart /\ TypeOK /\ MailboxBeforeMail /\ LeasesCounted /\ ResultInv /\ BookInv /\ [Next]_vars
        => BookInv' /\ [Book!BookNext]_(Book!bookVars)
  BY BookStep
<1>. QED  BY <1>1, <1>2, <1>3, <1>4, Typing, MailboxFirst, LeasesBound, PTL
          DEF Spec, LeasesBooked, Book!BookSpec
=============================================================================

------------------------------ MODULE TaskPool ------------------------------
(***************************************************************************)
(* Registration tasks, the pool of mailboxes they lease, the monitor that  *)
(* times tasks out and serves the waiting ones, the ingestion that binds   *)
(* mail to tasks, and the webhook dispatcher that completes them.          *)
(*                                                                         *)
(* A handler of the code opens an ORM session, reads rows, awaits, decides *)
(* on what it has read and writes the changed columns when it commits.     *)
(* SQLite gives it the write lock from its first flush to its commit; the  *)
(* reads before that flush are not protected.  So here a handler is        *)
(*   - one action, when its first statement is an INSERT (CreateTask), or  *)
(*     when what it writes does not depend on what it read (PatchStatus);  *)
(*   - a Read action that keeps in sess[s] what the session object holds,  *)
(*     and a commit action that writes from that copy, otherwise;          *)
(*   - several steps under `writer', when it goes on reading and writing   *)
(*     after its first flush (the monitor's round, a sync of many mails):  *)
(*     while writer # None nobody else acts, which is what others can see  *)
(*     of a transaction that commits at its end.                           *)
(***************************************************************************)
EXTENDS Naturals, FiniteSets

CONSTANTS
  Tasks,          \* rows of registration_tasks that may be created
  Mailboxes,      \* rows of mailboxes, all in the one pool
  Mails,          \* mails the providers may hand in, each ingested once
  Projects,       \* values of project_key
  Sessions,       \* database sessions of API handlers, workers, dispatchers
  Loops,          \* those of the scheduler's own loops, which await no provider
  Schedulers,     \* processes that run a Scheduler, hence a task monitor
  MaxConcurrent,  \* Pool.max_concurrent
  DailyLimit,     \* Pool.daily_limit
  HasCooldown,    \* Pool.cooldown_seconds > 0
  MaxAttempts,    \* settings.webhook_max_attempts
  MaxRevivals,    \* ended deliveries put back, per delivery, in this instance
  Handlers,       \* the handlers that are called in this instance
  None            \* NULL

ASSUME PoolAssumption ==
  /\ IsFiniteSet(Tasks) /\ IsFiniteSet(Schedulers)
  /\ MaxConcurrent \in Nat
  /\ DailyLimit \in Nat
  /\ HasCooldown \in BOOLEAN
  /\ MaxAttempts \in Nat \ {0} /\ MaxRevivals \in Nat
  /\ None \notin Tasks \cup Mailboxes \cup Mails \cup Projects
  /\ None \notin Sessions \cup Schedulers
  /\ Sessions \cap Schedulers = {} /\ Loops \subseteq Sessions

VARIABLES
  state,      \* RegistrationTask.state, "NONE" before the row exists
  mbox,       \* RegistrationTask.mailbox_id
  project,    \* RegistrationTask.project_key
  callback,   \* RegistrationTask.callback_url and callback_state, see Callbacks
  claim,      \* RegistrationTask.claim_result
  result,     \* RegistrationTask.result_id: the mail whose result was bound
  today,      \* the tasks created since midnight
  expired,    \* the tasks whose expires_at has passed
  status,     \* Mailbox.status
  healthy,    \* Mailbox.health_status = "HEALTHY"
  until,      \* Mailbox.metadata_json["cooldown_until"], see Untils
  ingested,   \* the mails whose Message row exists (dedupe_key)
  delivery,   \* WebhookDelivery.state per task and mail, "NONE" before the row
  attempt,    \* WebhookDelivery.attempt
  sess,       \* what each open session has read
  mon,        \* the monitor's round of each scheduler
  writer,     \* the session or scheduler that holds SQLite's write lock
  regranted,  \* history: tasks the monitor gave a mailbox when they had one
  revived     \* history: how often a delivery that had ended was put back

taskVars == <<state, mbox, project, callback, claim, result, today, expired>>
boxVars  == <<status, healthy, until>>
mailVars == <<ingested, delivery, attempt>>
history  == <<regranted, revived>>
vars     == <<taskVars, boxVars, mailVars, sess, mon, writer, history>>

-----------------------------------------------------------------------------
(* Values.  PARSING, RESULT_READY, PARSING_FAILED and MAILBOX_ERROR are    *)
(* named in the code's tuples, but no statement assigns them.              *)

TaskStates == {"NONE", "WAITING_MAILBOX", "WAITING_EMAIL", "EMAIL_RECEIVED",
               "WAITING_CALLBACK", "COMPLETED", "TIMEOUT", "CANCELLED"}

IN_FLIGHT_STATES == {"WAITING_MAILBOX", "WAITING_EMAIL", "EMAIL_RECEIVED",
                     "WAITING_CALLBACK"}

WAITING_STATES == {"WAITING_MAILBOX", "WAITING_EMAIL", "EMAIL_RECEIVED"}

TERMINAL_STATES == {"COMPLETED", "TIMEOUT", "CANCELLED"}

Statuses == {"IMPORTED", "READY", "AVAILABLE", "IN_USE", "COOLDOWN",
             "QUARANTINED", "DISABLED", "ARCHIVED"}

\* "NO_URL": no callback_url; "NULL": a url, and no callback_state yet
Callbacks == {"NO_URL", "NULL", "PENDING", "DELIVERED", "FAILED"}

\* "none": the key is absent; else whether the instant has passed
Untils == {"none", "running", "elapsed"}

DeliveryStates == {"NONE", "PENDING", "SENDING", "RETRYING", "SUCCESS", "EXHAUSTED"}

Idle == [op |-> "idle"]

\* The rounds of a monitor: between two rounds; with lapsed tasks to time out and
\* the mailboxes they hold; with tasks to serve; with a mailbox chosen for one.
MonitorIdle == [phase |-> "idle", lapsed |-> {}, held |-> {}, todo |-> {},
                task |-> None, box |-> None]
Sweeping(lapsed, held) == [phase |-> "sweep", lapsed |-> lapsed, held |-> held, todo |-> {},
                           task |-> None, box |-> None]
Serving(todo) == [phase |-> "allocate", lapsed |-> {}, held |-> {}, todo |-> todo,
                  task |-> None, box |-> None]
Planned(todo, t, m) == [phase |-> "plan", lapsed |-> {}, held |-> {}, todo |-> todo,
                        task |-> t, box |-> m]

Init ==
  /\ state = [t \in Tasks |-> "NONE"]
  /\ mbox = [t \in Tasks |-> None]
  /\ project = [t \in Tasks |-> None]
  /\ callback = [t \in Tasks |-> "NO_URL"]
  /\ claim = [t \in Tasks |-> "none"]
  /\ result = [t \in Tasks |-> None]
  /\ today = {} /\ expired = {}
  /\ healthy \in [Mailboxes -> BOOLEAN]
  /\ status = [m \in Mailboxes |-> IF healthy[m] THEN "READY" ELSE "IMPORTED"]
  /\ until = [m \in Mailboxes |-> "none"]
  /\ ingested = {}
  /\ delivery = [d \in Tasks \X Mails |-> "NONE"]
  /\ attempt = [d \in Tasks \X Mails |-> 0]
  /\ sess = [s \in Sessions |-> Idle]
  /\ mon = [w \in Schedulers |-> MonitorIdle]
  /\ writer = None
  /\ regranted = {}
  /\ revived = [d \in Tasks \X Mails |-> 0]

-----------------------------------------------------------------------------
(* pool_service *)

InFlight(m) == {t \in Tasks : mbox[t] = m /\ state[t] \in IN_FLIGHT_STATES}

UsedToday(m) == {t \in today : mbox[t] = m /\ state[t] \notin {"CANCELLED", "TIMEOUT"}}

ProjectSuccess(p) ==
  {mbox[t] : t \in {u \in Tasks : p # None /\ project[u] = p /\ claim[u] = "success"}}

\* (mutant: without list_in_flight)
AllocatableUncounted(p) ==
  {m \in Mailboxes :
     /\ status[m] \in {"READY", "AVAILABLE"} /\ healthy[m]
     /\ m \notin ProjectSuccess(p)
     /\ Cardinality(UsedToday(m)) < DailyLimit}

\* The mailboxes allocate() may return; which of them the ORDER BY puts first
\* (last_used_at, health_score) is left open.
Allocatable(p) ==
  {m \in Mailboxes :
     /\ status[m] \in {"READY", "AVAILABLE"} /\ healthy[m]
     /\ m \notin ProjectSuccess(p)
     /\ Cardinality(InFlight(m)) < MaxConcurrent
     /\ Cardinality(UsedToday(m)) < DailyLimit}

\* (mutant: without the test for a task that has no mailbox)
HeldByUnchecked(t) == {mbox[t]}

\* What release() finds when a session has just loaded the task's mailbox:
\* the mailbox, if its status is IN_USE.
HeldBy(t) == {m \in Mailboxes : m = mbox[t] /\ status[m] = "IN_USE"}

\* release() of the mailboxes a session holds in an IN_USE copy.
Release(held) ==
  /\ status' = [m \in Mailboxes |->
                  IF m \notin held THEN status[m]
                  ELSE IF HasCooldown THEN "COOLDOWN" ELSE "AVAILABLE"]
  /\ until' = [m \in Mailboxes |->
                 IF m \in held /\ HasCooldown THEN "running" ELSE until[m]]

-----------------------------------------------------------------------------
(* Sessions *)

Free == writer = None

Open(s, op, copy) ==
  /\ Free /\ op \in Handlers /\ sess[s] = Idle
  /\ sess' = [sess EXCEPT ![s] = copy]

Close(s, op) ==
  /\ Free /\ sess[s].op = op
  /\ sess' = [sess EXCEPT ![s] = Idle]

\* A handler that raises, or whose process dies, before its commit: rolled back.
Abort(s) ==
  /\ "abort" \in Handlers /\ Free /\ sess[s] # Idle
  /\ sess' = [sess EXCEPT ![s] = Idle]
  /\ UNCHANGED <<taskVars, boxVars, mailVars, mon, writer, history>>

-----------------------------------------------------------------------------
(* The client's calls *)

\* POST /registration-tasks.  The row is flushed before allocate() reads, so the
\* choice is made under the write lock.
CreateTask(t, p, url) ==
  /\ "create" \in Handlers /\ Free /\ state[t] = "NONE"
  /\ \/ \E m \in Allocatable(p) :
          /\ state' = [state EXCEPT ![t] = "WAITING_EMAIL"]
          /\ mbox' = [mbox EXCEPT ![t] = m]
          /\ status' = [status EXCEPT ![m] = "IN_USE"]
     \/ /\ Allocatable(p) = {}
        /\ state' = [state EXCEPT ![t] = "WAITING_MAILBOX"]
        /\ UNCHANGED <<mbox, status>>
  /\ project' = [project EXCEPT ![t] = p]
  /\ callback' = [callback EXCEPT ![t] = IF url THEN "NULL" ELSE "NO_URL"]
  /\ today' = today \cup {t}
  /\ UNCHANGED <<claim, result, expired, healthy, until, mailVars, sess, mon, writer, history>>

CancelRead(s, t) ==
  /\ state[t] \notin TERMINAL_STATES \cup {"NONE"}
  /\ Open(s, "cancel", [op |-> "cancel", task |-> t, held |-> HeldBy(t)])
  /\ UNCHANGED <<taskVars, boxVars, mailVars, mon, writer, history>>

CancelCommit(s) ==
  /\ Close(s, "cancel")
  /\ state' = [state EXCEPT ![sess[s].task] = "CANCELLED"]
  /\ Release(sess[s].held)
  /\ UNCHANGED <<mbox, project, callback, claim, result, today, expired, healthy,
                 mailVars, mon, writer, history>>

\* POST .../claim-complete: any state but CANCELLED and TIMEOUT, COMPLETED included.
ClaimRead(s, t) ==
  /\ state[t] \notin {"NONE", "CANCELLED", "TIMEOUT"}
  /\ Open(s, "claim", [op |-> "claim", task |-> t, box |-> mbox[t], held |-> HeldBy(t),
                       done |-> state[t] = "COMPLETED"])
  /\ UNCHANGED <<taskVars, boxVars, mailVars, mon, writer, history>>

ClaimCommit(s, outcome) ==
  LET t == sess[s].task IN
  /\ Close(s, "claim")
  /\ claim' = [claim EXCEPT ![t] = outcome]
  /\ \/ /\ outcome = "success" /\ project[t] # None /\ sess[s].box # None
        /\ status' = [m \in Mailboxes |->
                        IF m \in sess[s].held THEN "AVAILABLE" ELSE status[m]]
        /\ UNCHANGED until
     \/ /\ outcome = "failed" \/ project[t] = None \/ sess[s].box = None
        /\ Release(sess[s].held)
  /\ \/ sess[s].done /\ UNCHANGED state
     \/ ~sess[s].done /\ state' = [state EXCEPT ![t] = "COMPLETED"]
  /\ UNCHANGED <<mbox, project, callback, result, today, expired, healthy,
                 mailVars, mon, writer, history>>

-----------------------------------------------------------------------------
(* The operator's calls *)

\* POST /pools/{id}/allocate: a mailbox is taken, and no task records it.
AllocateRead(s, m) ==
  /\ m \in Allocatable(None)
  /\ Open(s, "allocate", [op |-> "allocate", box |-> m])
  /\ UNCHANGED <<taskVars, boxVars, mailVars, mon, writer, history>>

AllocateCommit(s) ==
  /\ Close(s, "allocate")
  /\ status' = [status EXCEPT ![sess[s].box] = "IN_USE"]
  /\ UNCHANGED <<taskVars, healthy, until, mailVars, mon, writer, history>>

\* POST /pools/{id}/release: whoever uses the mailbox.
ReleaseRead(s, m) ==
  /\ status[m] = "IN_USE"
  /\ Open(s, "release", [op |-> "release", held |-> {m}])
  /\ UNCHANGED <<taskVars, boxVars, mailVars, mon, writer, history>>

ReleaseCommit(s) ==
  /\ Close(s, "release")
  /\ Release(sess[s].held)
  /\ UNCHANGED <<taskVars, healthy, mailVars, mon, writer, history>>

\* PATCH /mailboxes/{id} with a status, or DELETE without `hard' (ARCHIVED).
PatchStatus(m, to) ==
  /\ "patch" \in Handlers /\ Free
  /\ to \in {"DISABLED", "ARCHIVED", "READY", "AVAILABLE", "QUARANTINED"}
  /\ status[m] # to
  /\ status' = [status EXCEPT ![m] = to]
  /\ UNCHANGED <<taskVars, healthy, until, mailVars, sess, mon, writer, history>>

-----------------------------------------------------------------------------
(* Background work on mailboxes *)

\* (mutant: a cooldown without an end is not swept)
CooledDated == {m \in Mailboxes : status[m] = "COOLDOWN" /\ until[m] = "elapsed"}

Cooled == {m \in Mailboxes : status[m] = "COOLDOWN" /\ until[m] \in {"none", "elapsed"}}

CooldownRead(s) ==
  /\ Cooled # {}
  /\ Open(s, "cooldown", [op |-> "cooldown", boxes |-> Cooled,
                          popped |-> {m \in Cooled : until[m] = "elapsed"}])
  /\ UNCHANGED <<taskVars, boxVars, mailVars, mon, writer, history>>

CooldownCommit(s) ==
  /\ Close(s, "cooldown")
  /\ status' = [m \in Mailboxes |-> IF m \in sess[s].boxes THEN "AVAILABLE" ELSE status[m]]
  /\ until' = [m \in Mailboxes |-> IF m \in sess[s].popped THEN "none" ELSE until[m]]
  /\ UNCHANGED <<taskVars, healthy, mailVars, mon, writer, history>>

\* The provider is asked between the two steps; failure_count and its threshold
\* are left open (`threshold').
HealthRead(s, m) ==
  /\ s \notin Loops
  /\ Open(s, "health", [op |-> "health", box |-> m, seen |-> status[m], well |-> healthy[m]])
  /\ UNCHANGED <<taskVars, boxVars, mailVars, mon, writer, history>>

HealthCommit(s, ok, threshold) ==
  LET m == sess[s].box IN
  /\ Close(s, "health")
  \* the ORM writes health_status only when it differs from the loaded value
  /\ \/ ok = sess[s].well /\ UNCHANGED healthy
     \/ ~(ok /\ sess[s].well) /\ healthy' = [healthy EXCEPT ![m] = ok]
  /\ \/ /\ ok /\ sess[s].seen \in {"IMPORTED", "QUARANTINED"}
        /\ status' = [status EXCEPT ![m] = "READY"]
     \/ /\ ~ok /\ threshold /\ sess[s].seen # "QUARANTINED"
        /\ status' = [status EXCEPT ![m] = "QUARANTINED"]
     \/ /\ \/ ok /\ sess[s].seen \notin {"IMPORTED", "QUARANTINED"}
           \/ ~ok /\ (~threshold \/ sess[s].seen = "QUARANTINED")
        /\ UNCHANGED status
  /\ UNCHANGED <<taskVars, until, mailVars, mon, writer, history>>

-----------------------------------------------------------------------------
(* Ingestion: a MAIL_SYNC job, or an inbound push, for one mailbox *)

SyncCopy(m, u, well, held) ==
  [op |-> "sync", box |-> m, until |-> u, well |-> well, held |-> held]

\* The mailbox is loaded once; the provider is awaited after that.
SyncRead(s, m) ==
  /\ s \notin Loops
  /\ Open(s, "sync", SyncCopy(m, until[m], healthy[m], {x \in {m} : status[x] = "IN_USE"}))
  /\ UNCHANGED <<taskVars, boxVars, mailVars, mon, writer, history>>

Ingesting(s, e) ==
  /\ writer \in {None, s} /\ sess[s].op = "sync" /\ e \notin ingested
  /\ ingested' = ingested \cup {e}
  /\ writer' = s

\* (mutants: a task that is in flight, or in any state, takes the mail)
MatchableInFlight(m) ==
  {t \in Tasks : state[t] \in IN_FLIGHT_STATES /\ mbox[t] = m /\ t \notin expired}

MatchableAnyState(m) == {t \in Tasks : mbox[t] = m /\ t \notin expired}

\* The tasks match_mail() considers.  Which of them the sender, the subject and
\* the time of reception select is left open: the `hit' of the two actions below.
Matchable(m) ==
  {t \in Tasks : state[t] = "WAITING_EMAIL" /\ mbox[t] = m /\ t \notin expired}

\* A mail that yields no parse result.
IngestPlain(s, e, hit) ==
  /\ Ingesting(s, e)
  /\ hit \subseteq Matchable(sess[s].box)
  /\ state' = [t \in Tasks |-> IF t \in hit THEN "EMAIL_RECEIVED" ELSE state[t]]
  /\ UNCHANGED <<mbox, project, callback, claim, result, today, expired, boxVars,
                 delivery, attempt, sess, mon, history>>

\* (mutant: no delivery row is written)
EnqueuedNothing(called, e) == delivery

\* enqueue() for each of the tasks.
Enqueued(called, e) ==
  [d \in Tasks \X Mails |-> IF d[1] \in called /\ d[2] = e THEN "PENDING" ELSE delivery[d]]

\* A mail that yields a result: the tasks with a callback get a delivery row, the
\* others are complete and release the mailbox, as the session has it.
\* (ingest_message() swallows what match_mail() raises.  Between the state and the
\* row only the flush of the row can raise, and a transaction in which a flush has
\* failed is rolled back, whoever catches the exception: that is Abort.)
IngestResult(s, e, hit) ==
  LET called == {t \in hit : callback[t] # "NO_URL"}
      copy   == sess[s]
      freed  == {m \in copy.held : hit # called} IN
  /\ Ingesting(s, e)
  /\ hit \subseteq Matchable(sess[s].box)
  /\ state' = [t \in Tasks |-> IF t \in called THEN "WAITING_CALLBACK"
                               ELSE IF t \in hit THEN "COMPLETED" ELSE state[t]]
  /\ result' = [t \in Tasks |-> IF t \in hit THEN e ELSE result[t]]
  /\ callback' = [t \in Tasks |-> IF t \in called THEN "PENDING" ELSE callback[t]]
  /\ delivery' = Enqueued(called, e)
  /\ Release(freed)
  /\ sess' = [sess EXCEPT ![s] =
                 SyncCopy(copy.box, IF freed # {} /\ HasCooldown THEN "running" ELSE copy.until,
                          copy.well, copy.held \ freed)]
  /\ UNCHANGED <<mbox, project, claim, today, expired, healthy, attempt, mon, history>>

\* The end of the job.  run_sync() assigns metadata_json as a whole, from the
\* session's copy and the new cursor; it is written when the cursor has moved.
\* An instant that was ahead when the copy was made may have passed; it has, if
\* the one now stored, which is no earlier, has passed.
SyncCommit(s, moved) ==
  LET m == sess[s].box IN
  /\ writer \in {None, s} /\ sess[s].op = "sync"
  /\ \/ ~moved /\ UNCHANGED until
     \/ moved /\ sess[s].until # "running" /\ until' = [until EXCEPT ![m] = sess[s].until]
     \/ /\ moved /\ sess[s].until = "running"
        /\ \E u \in {"running", "elapsed"} :
             /\ until[m] = "elapsed" => u = "elapsed"
             /\ until' = [until EXCEPT ![m] = u]
  /\ sess' = [sess EXCEPT ![s] = Idle]
  /\ writer' = None
  /\ UNCHANGED <<taskVars, status, healthy, mailVars, mon, history>>

\* The last attempt of a MAIL_SYNC job fails: execute_task() commits what was
\* ingested until then, and the health of a mailbox it has seen well.
SyncGiveUp(s) ==
  /\ writer \in {None, s} /\ sess[s].op = "sync" /\ sess[s].well
  /\ healthy' = [healthy EXCEPT ![sess[s].box] = FALSE]
  /\ sess' = [sess EXCEPT ![s] = Idle]
  /\ writer' = None
  /\ UNCHANGED <<taskVars, status, until, mailVars, mon, history>>

-----------------------------------------------------------------------------
(* The webhook dispatcher.  A round claims up to ten rows and commits their *)
(* outcomes together; here each row commits alone, in any order.            *)

\* (mutant: deliveries to be retried are not claimed)
DispatchableOnce == {"PENDING"}

Dispatchable == {"PENDING", "RETRYING"}

\* The claim (UPDATE ... RETURNING, committed), then the reads that precede the
\* HTTP request.
DispatchClaim(s, t, e) ==
  /\ delivery[<<t, e>>] \in Dispatchable
  /\ delivery' = [delivery EXCEPT ![<<t, e>>] = "SENDING"]
  /\ Open(s, "dispatch", [op |-> "dispatch", task |-> t, mail |-> e,
                          sent |-> attempt[<<t, e>>] + 1, held |-> HeldBy(t),
                          waiting |-> state[t] = "WAITING_CALLBACK"])
  /\ UNCHANGED <<taskVars, boxVars, ingested, attempt, mon, writer, history>>

DispatchOk(s) ==
  LET t == sess[s].task
      d == <<t, sess[s].mail>> IN
  /\ Close(s, "dispatch")
  /\ delivery' = [delivery EXCEPT ![d] = "SUCCESS"]
  /\ attempt' = [attempt EXCEPT ![d] = sess[s].sent]
  /\ \/ /\ sess[s].waiting
        /\ state' = [state EXCEPT ![t] = "COMPLETED"]
        /\ callback' = [callback EXCEPT ![t] = "DELIVERED"]
        /\ Release(sess[s].held)
     \/ ~sess[s].waiting /\ UNCHANGED <<state, callback, status, until>>
  /\ UNCHANGED <<mbox, project, claim, result, today, expired, healthy, ingested, mon,
                 writer, history>>

\* (mutant: one attempt too many)
ExhaustedLate(n) == n > MaxAttempts

Exhausted(n) == n >= MaxAttempts

DispatchFail(s) ==
  LET t == sess[s].task
      d == <<t, sess[s].mail>> IN
  /\ Close(s, "dispatch")
  /\ attempt' = [attempt EXCEPT ![d] = sess[s].sent]
  /\ \/ /\ Exhausted(sess[s].sent)
        /\ delivery' = [delivery EXCEPT ![d] = "EXHAUSTED"]
        /\ callback' = [callback EXCEPT ![t] = "FAILED"]
     \/ /\ ~Exhausted(sess[s].sent)
        /\ delivery' = [delivery EXCEPT ![d] = "RETRYING"]
        /\ UNCHANGED callback
  /\ UNCHANGED <<state, mbox, project, claim, result, today, expired, boxVars,
                 ingested, mon, writer, history>>

\* _sweep_stale_running selects the deliveries that have been SENDING for 300 s:
\* their round died, or is still waiting for slow receivers.
RecoverRead(s, t, e) ==
  /\ delivery[<<t, e>>] = "SENDING" /\ revived[<<t, e>>] < MaxRevivals
  /\ Open(s, "recover", [op |-> "recover", task |-> t, mail |-> e])
  /\ UNCHANGED <<taskVars, boxVars, mailVars, mon, writer, history>>

\* The round has come to its end.
Ended(d) == delivery[d] \in {"SUCCESS", "EXHAUSTED"}

\* It commits them as RETRYING, whatever they are by now; attempt is not counted.
RecoverCommit(s) ==
  LET d == <<sess[s].task, sess[s].mail>> IN
  /\ Close(s, "recover")
  /\ delivery' = [delivery EXCEPT ![d] = "RETRYING"]
  /\ revived' = IF Ended(d) THEN [revived EXCEPT ![d] = @ + 1] ELSE revived
  /\ UNCHANGED <<taskVars, boxVars, ingested, attempt, mon, writer, regranted>>

-----------------------------------------------------------------------------
(* The task monitor: sweep_timeouts(), then try_allocate_waiting() for each *)
(* task that waits for a mailbox, in one transaction.                       *)

Waiting == {t \in Tasks : state[t] = "WAITING_MAILBOX"}
\* (mutant: a task that has received mail without a result does not time out)
LapsedUnserved == {t \in expired : state[t] \in {"WAITING_MAILBOX", "WAITING_EMAIL"}}
Lapsed == {t \in expired : state[t] \in WAITING_STATES}

Monitoring(w, phase) == writer \in {None, w} /\ mon[w].phase = phase

\* The first SELECTs.  Without a lapsed task nothing is flushed, and the SELECT
\* of the waiting tasks is unprotected as well.
MonitorRead(w) ==
  /\ Free /\ mon[w].phase = "idle"
  /\ \/ /\ Lapsed # {}
        /\ mon' = [mon EXCEPT ![w] = Sweeping(Lapsed, UNION {HeldBy(t) : t \in Lapsed})]
     \/ /\ Lapsed = {} /\ Waiting # {}
        /\ mon' = [mon EXCEPT ![w] = Serving(Waiting)]
  /\ UNCHANGED <<taskVars, boxVars, mailVars, sess, writer, history>>

MonitorSweep(w) ==
  LET lapsed == mon[w].lapsed IN
  /\ Monitoring(w, "sweep")
  /\ state' = [t \in Tasks |-> IF t \in lapsed THEN "TIMEOUT" ELSE state[t]]
  /\ Release(mon[w].held)
  /\ mon' = [mon EXCEPT ![w] = Serving(Waiting \ lapsed)]
  /\ writer' = w
  /\ UNCHANGED <<mbox, project, callback, claim, result, today, expired, healthy,
                 mailVars, sess, history>>

\* allocate() is called without the task's project_key.
MonitorPlan(w, t, m) ==
  /\ Monitoring(w, "allocate") /\ t \in mon[w].todo
  /\ m \in Allocatable(None)
  /\ mon' = [mon EXCEPT ![w] = Planned(mon[w].todo, t, m)]
  /\ UNCHANGED <<taskVars, boxVars, mailVars, sess, writer, history>>

MonitorSkip(w, t) ==
  /\ Monitoring(w, "allocate") /\ t \in mon[w].todo
  /\ Allocatable(None) = {}
  /\ mon' = [mon EXCEPT ![w] = Serving(mon[w].todo \ {t})]
  /\ UNCHANGED <<taskVars, boxVars, mailVars, sess, writer, history>>

\* (mutant: the task's mailbox_id is not set)
AssignedNowhere(t, m) == mbox

Assigned(t, m) == [mbox EXCEPT ![t] = m]

\* The flush of the task and the mailbox, at the next query or at the commit.
MonitorAssign(w) ==
  LET t == mon[w].task
      m == mon[w].box IN
  /\ Monitoring(w, "plan")
  /\ state' = [state EXCEPT ![t] = "WAITING_EMAIL"]
  /\ mbox' = Assigned(t, m)
  /\ status' = [status EXCEPT ![m] = "IN_USE"]
  /\ mon' = [mon EXCEPT ![w] = Serving(mon[w].todo \ {t})]
  /\ writer' = w
  /\ regranted' = IF mbox[t] = None THEN regranted ELSE regranted \cup {t}
  /\ UNCHANGED <<project, callback, claim, result, today, expired, healthy, until,
                 mailVars, sess, revived>>

MonitorCommit(w) ==
  /\ Monitoring(w, "allocate") /\ mon[w].todo = {}
  /\ mon' = [mon EXCEPT ![w] = MonitorIdle]
  /\ writer' = None
  /\ UNCHANGED <<taskVars, boxVars, mailVars, sess, history>>

\* The round raises or its process dies before anything is flushed; dying later
\* rolls back, which nobody can tell from dying before.
MonitorAbort(w) ==
  /\ "abort" \in Handlers /\ Free /\ mon[w].phase # "idle"
  /\ mon' = [mon EXCEPT ![w] = MonitorIdle]
  /\ UNCHANGED <<taskVars, boxVars, mailVars, sess, writer, history>>

-----------------------------------------------------------------------------
(* Time *)

Expire(t) ==
  /\ Free /\ state[t] # "NONE" /\ t \notin expired
  /\ expired' = expired \cup {t}
  /\ UNCHANGED <<state, mbox, project, callback, claim, result, today, boxVars, mailVars,
                 sess, mon, writer, history>>

CooldownElapse(m) ==
  /\ Free /\ until[m] = "running"
  /\ until' = [until EXCEPT ![m] = "elapsed"]
  /\ UNCHANGED <<taskVars, status, healthy, mailVars, sess, mon, writer, history>>

Midnight ==
  /\ "midnight" \in Handlers /\ Free /\ today # {}
  /\ today' = {}
  /\ UNCHANGED <<state, mbox, project, callback, claim, result, expired, boxVars, mailVars,
                 sess, mon, writer, history>>

-----------------------------------------------------------------------------
MonitorStep(w) ==
  \/ MonitorRead(w) \/ MonitorSweep(w) \/ MonitorAssign(w) \/ MonitorCommit(w)
  \/ \E t \in Tasks : MonitorSkip(w, t) \/ \E m \in Mailboxes : MonitorPlan(w, t, m)

\* The steps that end the handler a session runs.
Finish(s) ==
  \/ CancelCommit(s) \/ AllocateCommit(s) \/ ReleaseCommit(s) \/ CooldownCommit(s)
  \/ \E o \in {"success", "failed"} : ClaimCommit(s, o)
  \/ \E ok \in BOOLEAN, threshold \in BOOLEAN : HealthCommit(s, ok, threshold)
  \/ (\E moved \in BOOLEAN : SyncCommit(s, moved)) \/ SyncGiveUp(s)
  \/ DispatchOk(s) \/ DispatchFail(s) \/ RecoverCommit(s)

Begin(s) ==
  \/ \E t \in Tasks : CancelRead(s, t) \/ ClaimRead(s, t)
  \/ \E m \in Mailboxes :
       AllocateRead(s, m) \/ ReleaseRead(s, m) \/ HealthRead(s, m) \/ SyncRead(s, m)
  \/ CooldownRead(s)
  \/ \E t \in Tasks, e \in Mails : DispatchClaim(s, t, e) \/ RecoverRead(s, t, e)

Next ==
  \/ \E t \in Tasks, p \in Projects \cup {None}, url \in BOOLEAN : CreateTask(t, p, url)
  \/ \E s \in Sessions : Begin(s) \/ Finish(s) \/ Abort(s)
  \/ \E s \in Sessions, e \in Mails, hit \in SUBSET Tasks :
       IngestPlain(s, e, hit) \/ IngestResult(s, e, hit)
  \/ \E w \in Schedulers : MonitorStep(w) \/ MonitorAbort(w)
  \/ \E m \in Mailboxes, to \in Statuses : PatchStatus(m, to)
  \/ \E t \in Tasks : Expire(t)
  \/ \E m \in Mailboxes : CooldownElapse(m)
  \/ Midnight

Spec == Init /\ [][Next]_vars

\* A handler that may be waiting for a provider: an IMAP server that goes silent
\* is waited for without a timeout, so such a handler may never go on.
AtProvider(s) == sess[s].op \in {"sync", "health"} /\ writer # s

\* The scheduler's loops run every few seconds in a live process, each with a
\* session of its own (SF: the sessions of Loops are shared here) that no provider
\* holds up; a webhook's request ends after ten seconds, every other handler that
\* has begun ends, and wall-clock time passes.  Nothing is assumed of clients,
\* operators, providers or receivers, nor that the recovery ever looks.
FairSpec ==
  /\ Spec
  /\ \A w \in Schedulers : WF_vars(MonitorStep(w))
  /\ \A s \in Sessions : WF_vars(~AtProvider(s) /\ Finish(s))
  /\ SF_vars(\E s \in Loops : CooldownRead(s))
  /\ \A t \in Tasks, e \in Mails : SF_vars(\E s \in Loops : DispatchClaim(s, t, e))
  /\ \A t \in Tasks : WF_vars(Expire(t))
  /\ \A m \in Mailboxes : WF_vars(CooldownElapse(m))

-----------------------------------------------------------------------------
(* Properties *)

Copies ==
  {Idle}
  \cup [op : {"cancel"}, task : Tasks, held : SUBSET Mailboxes]
  \cup [op : {"claim"}, task : Tasks, box : Mailboxes \cup {None},
        held : SUBSET Mailboxes, done : BOOLEAN]
  \cup [op : {"allocate"}, box : Mailboxes]
  \cup [op : {"release"}, held : SUBSET Mailboxes]
  \cup [op : {"cooldown"}, boxes : SUBSET Mailboxes, popped : SUBSET Mailboxes]
  \cup [op : {"health"}, box : Mailboxes, seen : Statuses, well : BOOLEAN]
  \cup [op : {"sync"}, box : Mailboxes, until : Untils, well : BOOLEAN,
        held : SUBSET Mailboxes]
  \cup [op : {"dispatch"}, task : Tasks, mail : Mails, sent : Nat \ {0},
        held : SUBSET Mailboxes, waiting : BOOLEAN]
  \cup [op : {"recover"}, task : Tasks, mail : Mails]

Rounds ==
  [phase : {"idle", "sweep", "allocate", "plan"}, lapsed : SUBSET Tasks,
   held : SUBSET Mailboxes, todo : SUBSET Tasks,
   task : Tasks \cup {None}, box : Mailboxes \cup {None}]

TaskTypes ==
  /\ state \in [Tasks -> TaskStates]
  /\ mbox \in [Tasks -> Mailboxes \cup {None}]
  /\ project \in [Tasks -> Projects \cup {None}]
  /\ callback \in [Tasks -> Callbacks]
  /\ claim \in [Tasks -> {"none", "success", "failed"}]
  /\ result \in [Tasks -> Mails \cup {None}]
  /\ today \subseteq Tasks /\ expired \subseteq Tasks

BoxTypes ==
  /\ status \in [Mailboxes -> Statuses]
  /\ healthy \in [Mailboxes -> BOOLEAN]
  /\ until \in [Mailboxes -> Untils]

MailTypes ==
  /\ ingested \subseteq Mails
  /\ delivery \in [Tasks \X Mails -> DeliveryStates]
  /\ attempt \in [Tasks \X Mails -> Nat]

SessTypes == sess \in [Sessions -> Copies]

MonTypes ==
  /\ mon \in [Schedulers -> Rounds]
  /\ \A w \in Schedulers :
       mon[w].phase = "plan" => mon[w].task \in Tasks /\ mon[w].box \in Mailboxes
  /\ writer \in Sessions \cup Schedulers \cup {None}

HistoryTypes ==
  /\ regranted \subseteq Tasks
  /\ revived \in [Tasks \X Mails -> Nat]

\* Every column, every session's copy and every monitor round has a value of its
\* type, and a monitor that is about to assign has a task and a mailbox.
TypeOK == TaskTypes /\ BoxTypes /\ MailTypes /\ SessTypes /\ MonTypes /\ HistoryTypes

\* However the monitors' unprotected reads interleave with the API's allocations,
\* a mailbox is overbooked by at most one task per running scheduler: what
\* allocate() checks with list_in_flight() still bounds the leases.
OverbookingBound ==
  \A m \in Mailboxes :
    Cardinality(InFlight(m)) <= MaxConcurrent + Cardinality(Schedulers)

\* What makes OverbookingBound inductive: a monitor that has chosen m counts as
\* a lease of m already.
Planning(m) == {w \in Schedulers : mon[w].phase = "plan" /\ mon[w].box = m}

LeasesCounted ==
  \A m \in Mailboxes :
    Cardinality(InFlight(m)) + Cardinality(Planning(m)) <= MaxConcurrent + Cardinality(Schedulers)

\* A task reaches no state in which mail is expected, bound or announced without
\* a mailbox, and none without its row: match_mail() and enqueue() rely on it.
MailboxBeforeMail ==
  \A t \in Tasks :
    /\ state[t] \in {"WAITING_EMAIL", "EMAIL_RECEIVED", "WAITING_CALLBACK"} => mbox[t] # None
    /\ mbox[t] # None => state[t] # "NONE"

\* A task that waits for its callback has a delivery that is queued, under way or
\* given up: it never waits for a row nobody wrote, nor after the receiver's yes.
CallbackAccounted ==
  \A t \in Tasks : state[t] = "WAITING_CALLBACK" =>
    \E e \in Mails : delivery[<<t, e>>] \in {"PENDING", "SENDING", "RETRYING", "EXHAUSTED"}

\* However late rounds and recoveries commit, a delivery counts more than
\* max_attempt attempts only where a recovery has put it back after it had ended,
\* one more each time; it is not given up earlier, and never offered to a round
\* that has no attempt left.
AttemptsBounded ==
  /\ \A d \in Tasks \X Mails :
       /\ attempt[d] <= MaxAttempts + revived[d]
       /\ delivery[d] = "EXHAUSTED" => attempt[d] >= MaxAttempts
       /\ delivery[d] \in {"PENDING", "RETRYING"} => attempt[d] < MaxAttempts + revived[d]
  /\ \A s \in Sessions : sess[s].op = "dispatch" =>
       sess[s].sent <= MaxAttempts + revived[<<sess[s].task, sess[s].mail>>]

\* The result a task reports (result_payload) is the first one bound to it: later
\* mail, overlapping syncs, deliveries, cancellations and timeouts do not replace
\* it.  (A second scheduler may serve a task the first has just served, and send it
\* back to WAITING_EMAIL: mail is then matched anew.)
ResultStable ==
  [][\A t \in Tasks : result[t] # None /\ t \notin regranted => result'[t] = result[t]]_vars

\* No task waits for ever: the monitor times out whatever no client, mail or
\* receiver moves on.  (A task that waits for its callback is not in WAITING_STATES.)
WaitingEnds ==
  \A t \in Tasks : state[t] \in WAITING_STATES ~> state[t] \notin WAITING_STATES

\* A task that waits for its callback leaves that state, or its callback is
\* recorded as FAILED: retries end, and the recovery that overtakes a slow round
\* does not start them over for ever.
CallbackResolves ==
  \A t \in Tasks : state[t] = "WAITING_CALLBACK" ~>
    (state[t] # "WAITING_CALLBACK" \/ callback[t] = "FAILED")

\* A cooldown ends, the ones whose end a sync of the mailbox has overwritten too.
CooldownEnds ==
  \A m \in Mailboxes : status[m] = "COOLDOWN" ~> status[m] # "COOLDOWN"

\* With one scheduler the tasks' mailboxes form a lease book (see LeaseBook): no
\* task changes its mailbox, and none that has ended occupies a mailbox again.
Book == INSTANCE LeaseBook WITH
  Holders <- Tasks, Boxes <- Mailboxes, Cap <- MaxConcurrent + Cardinality(Schedulers),
  box <- mbox, active <- {t \in Tasks : mbox[t] # None /\ state[t] \in IN_FLIGHT_STATES}

LeasesBooked == Book!BookSpec

-----------------------------------------------------------------------------
(* What the documentation and the comments promise, and the code does not do *)

\* A mailbox that has succeeded for a project is not given to that project again.
ProjectIsolation ==
  [][\A t \in Tasks : mbox'[t] # mbox[t] => mbox'[t] \notin ProjectSuccess(project'[t])]_vars

\* When every task of a mailbox has ended and no handler runs, it is released.
ReleasedWhenEnded ==
  (\A s \in Sessions : sess[s] = Idle) =>
    \A m \in Mailboxes : status[m] = "IN_USE" => InFlight(m) # {}

\* A task in one of TERMINAL_STATES does not go on: the client has been told that
\* it has ended.
TerminalIsFinal ==
  [][\A t \in Tasks : state[t] \in TERMINAL_STATES => state'[t] \in TERMINAL_STATES]_vars
=============================================================================

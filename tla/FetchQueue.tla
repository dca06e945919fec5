----------------------------- MODULE FetchQueue -----------------------------
(***************************************************************************)
(* The queue of background jobs (rows of fetch_tasks): the loops that      *)
(* schedule a job per mailbox and period, the workers that claim jobs and  *)
(* execute them, the recovery of jobs that have been RUNNING for too long, *)
(* and the API's calls.  What a job does to its mailbox is in TaskPool     *)
(* (SyncRead ... SyncGiveUp, HealthRead, HealthCommit).                    *)
(*                                                                         *)
(* A worker is one _queue_consumer() of one process.  As in TaskPool, a    *)
(* session that reads before it writes is a Read action, which keeps what  *)
(* was read, and a commit action; a single UPDATE or INSERT is one action. *)
(***************************************************************************)
EXTENDS Naturals, FiniteSets

CONSTANTS
  TaskTypes,   \* values of task_type
  Mailboxes,   \* the mailboxes the loops may sync and check
  LastBucket,  \* the periods in which jobs are scheduled in this instance
  Consumers,   \* queue consumers of all processes
  Schedulers,  \* processes that run the periodic loops
  Clients,     \* the API's sessions
  MaxAttempt,  \* FetchTask.max_attempt
  BatchSize,   \* the limit of claim_due_tasks(), 10 in a worker
  MaxRetries,  \* manual retries of a job in this instance
  None

\* The primary key.  The loops name a job by its mailbox and the period; 0 stands
\* for the fresh key of a job the API creates.
Jobs == TaskTypes \X Mailboxes \X (0..LastBucket)

ASSUME QueueAssumption ==
  /\ LastBucket \in Nat \ {0}
  /\ MaxAttempt \in Nat \ {0}
  /\ BatchSize \in Nat \ {0}
  /\ MaxRetries \in Nat
  /\ None \notin Jobs

VARIABLES
  state,    \* FetchTask.state, "NONE" before the row exists
  attempt,  \* FetchTask.attempt
  due,      \* the jobs whose next_run_at has come
  stale,    \* the jobs claimed more than STALE_RUNNING_SECONDS ago
  fresh,    \* the <<kind, mailbox>> whose last_sync_at, last_check_at is recent
  bucket,   \* the current period
  batch,    \* per worker: the jobs it has claimed and not looked at since
  run,      \* per worker: the job it executes, or None
  seen,     \* per worker: the attempt of that job when the worker read it
  hung,     \* the workers whose job waits for a server that never answers
  plan,     \* per scheduler and kind: the keys a scheduling round will insert
  found,    \* per scheduler: the stale jobs its recovery has read
  foundAt,  \* per scheduler: their attempts then
  retry,    \* per client: the job it has read and will put back, or None
  retried,  \* history: the manual retries of a job
  prompt    \* history: no handler has outlasted a delay it relies upon

rowVars == <<state, attempt, due, stale, fresh, bucket>>
workVars == <<batch, run, seen, hung>>
recVars == <<found, foundAt>>
vars == <<rowVars, workVars, plan, recVars, retry, retried, prompt>>

-----------------------------------------------------------------------------
States == {"NONE", "QUEUED", "RUNNING", "RETRYING", "SUCCESS", "FAILED"}

PENDING_TASK_STATES == {"QUEUED", "RETRYING", "RUNNING"}

Init ==
  /\ state = [j \in Jobs |-> "NONE"]
  /\ attempt = [j \in Jobs |-> 0]
  /\ due = {} /\ stale = {} /\ fresh = {}
  /\ bucket = 1
  /\ batch = [w \in Consumers |-> {}]
  /\ run = [w \in Consumers |-> None]
  /\ seen = [w \in Consumers |-> 0]
  /\ hung = {}
  /\ plan = [l \in Schedulers \X TaskTypes |-> {}]
  /\ found = [s \in Schedulers |-> {}]
  /\ foundAt = [s \in Schedulers |-> [j \in Jobs |-> 0]]
  /\ retry = [c \in Clients |-> None]
  /\ retried = [j \in Jobs |-> 0]
  /\ prompt = TRUE

\* A worker that has the job in hand, a recovery that has read it.
InHand(j) == \E w \in Consumers : j \in batch[w] \/ run[w] = j
Recovering(j) == \E s \in Schedulers : j \in found[s]

-----------------------------------------------------------------------------
(* Creation *)

\* POST /fetch-tasks, /mailboxes/{id}/sync, /mailboxes/batch-health-check
CreateJob(k, m) ==
  LET j == <<k, m, 0>> IN
  /\ state[j] = "NONE"
  /\ state' = [state EXCEPT ![j] = "QUEUED"]
  /\ due' = due \cup {j}
  /\ UNCHANGED <<attempt, stale, fresh, bucket, workVars, plan, recVars, retry, retried, prompt>>

\* (mutant: RETRYING is not pending)
HasPendingNotRetrying(k, m) ==
  \E b \in 0..LastBucket : state[<<k, m, b>>] \in {"QUEUED", "RUNNING"}

\* _has_pending_task()
HasPending(k, m) == \E b \in 0..LastBucket : state[<<k, m, b>>] \in PENDING_TASK_STATES

Overdue(k) == {m \in Mailboxes : <<k, m>> \notin fresh /\ ~HasPending(k, m)}

\* The reads of _schedule_sync() and _schedule_health().  In the code the first
\* insert of a round precedes the check of the next mailbox; to make every check
\* before it adds interleavings and removes none.
ScheduleRead(s, k) ==
  LET keys == {<<k, m, bucket>> : m \in Overdue(k)} IN
  /\ bucket <= LastBucket
  /\ k \in {"MAIL_SYNC", "HEALTH_CHECK"} /\ plan[<<s, k>>] = {}
  /\ keys # {}
  /\ plan' = [plan EXCEPT ![<<s, k>>] = keys]
  /\ UNCHANGED <<rowVars, workVars, recVars, retry, retried, prompt>>

\* The inserts: all of them, or none when one of the keys is taken.
ScheduleCommit(s, k) ==
  LET keys == plan[<<s, k>>] IN
  /\ keys # {}
  /\ \/ /\ \A j \in keys : state[j] = "NONE"
        /\ state' = [j \in Jobs |-> IF j \in keys THEN "QUEUED" ELSE state[j]]
        /\ due' = due \cup keys
     \/ /\ \E j \in keys : state[j] # "NONE"
        /\ UNCHANGED <<state, due>>
  /\ plan' = [plan EXCEPT ![<<s, k>>] = {}]
  /\ UNCHANGED <<attempt, stale, fresh, bucket, workVars, recVars, retry, retried, prompt>>

-----------------------------------------------------------------------------
(* Workers *)

\* (mutant: a SELECT of the due jobs, whatever has happened to them since)
ClaimableAnyState == {j \in due : state[j] \in PENDING_TASK_STATES}

Claimable == {j \in due : state[j] \in {"QUEUED", "RETRYING"}}

\* (mutant: started_at is not set again)
StaleStill(claimed) == stale

\* started_at is now for a job that has just been claimed.
StaleAfter(claimed) == stale \ claimed

\* claim_due_tasks(): one UPDATE ... RETURNING.  Which jobs come first when there
\* are more than the limit is left open.
Claim(w, claimed) ==
  /\ batch[w] = {} /\ run[w] = None
  /\ claimed # {} /\ claimed \subseteq Claimable
  /\ Cardinality(claimed) <= BatchSize
  /\ Cardinality(claimed) < BatchSize => claimed = Claimable
  /\ state' = [j \in Jobs |-> IF j \in claimed THEN "RUNNING" ELSE state[j]]
  /\ stale' = StaleAfter(claimed)
  /\ batch' = [batch EXCEPT ![w] = claimed]
  /\ UNCHANGED <<attempt, due, fresh, bucket, run, seen, hung, plan, recVars, retry, retried, prompt>>

\* The worker reads the next job of its batch again, and executes it if it is
\* still RUNNING.
Start(w, j) ==
  /\ run[w] = None /\ j \in batch[w]
  /\ batch' = [batch EXCEPT ![w] = batch[w] \ {j}]
  /\ \/ /\ state[j] = "RUNNING"
        /\ run' = [run EXCEPT ![w] = j]
        /\ seen' = [seen EXCEPT ![w] = attempt[j]]
     \/ state[j] # "RUNNING" /\ UNCHANGED <<run, seen>>
  /\ UNCHANGED <<rowVars, hung, plan, recVars, retry, retried, prompt>>

\* The commit of execute_task() after the job's own work, in both cases.
Succeed(w) ==
  LET j == run[w] IN
  /\ j # None /\ w \notin hung
  /\ state' = [state EXCEPT ![j] = "SUCCESS"]
  /\ fresh' = fresh \cup {<<j[1], j[2]>>}
  /\ run' = [run EXCEPT ![w] = None]
  /\ seen' = [seen EXCEPT ![w] = 0]
  /\ UNCHANGED <<attempt, due, stale, bucket, batch, hung, plan, recVars, retry, retried, prompt>>

\* (mutants: the name a webhook delivery has for it; one attempt too many)
OutcomeOfDelivery(n) == IF n >= MaxAttempt THEN "EXHAUSTED" ELSE "RETRYING"
OutcomeLate(n) == IF n > MaxAttempt THEN "FAILED" ELSE "RETRYING"

\* The state of a job whose n-th attempt has failed.
Outcome(n) == IF n >= MaxAttempt THEN "FAILED" ELSE "RETRYING"

Fail(w) ==
  LET j == run[w]
      n == seen[w] + 1 IN
  /\ j # None /\ w \notin hung
  /\ attempt' = [attempt EXCEPT ![j] = n]
  /\ state' = [state EXCEPT ![j] = Outcome(n)]
  /\ due' = IF Outcome(n) = "RETRYING" THEN due \ {j} ELSE due
  /\ run' = [run EXCEPT ![w] = None]
  /\ seen' = [seen EXCEPT ![w] = 0]
  /\ UNCHANGED <<stale, fresh, bucket, batch, hung, plan, recVars, retry, retried, prompt>>

\* The IMAP server that a sync or a check asks falls silent: the connection is opened
\* without a timeout, and the worker waits until its process is ended.
WorkerHangs(w) ==
  /\ run[w] # None /\ w \notin hung /\ run[w][1] \in {"MAIL_SYNC", "HEALTH_CHECK"}
  /\ hung' = hung \cup {w}
  /\ UNCHANGED <<rowVars, batch, run, seen, plan, recVars, retry, retried, prompt>>

\* The worker's process dies, or the commit raises (a flush has failed before, the
\* database is locked): the rest of the batch is forgotten with the job.
Break(w) ==
  /\ batch[w] # {} \/ run[w] # None
  /\ batch' = [batch EXCEPT ![w] = {}]
  /\ run' = [run EXCEPT ![w] = None]
  /\ seen' = [seen EXCEPT ![w] = 0]
  /\ hung' = hung \ {w}
  /\ UNCHANGED <<rowVars, plan, recVars, retry, retried, prompt>>

-----------------------------------------------------------------------------
(* Recovery: _sweep_stale_running() *)

\* (mutant: the jobs of another state are looked for)
LostQueued == {j \in stale : state[j] = "QUEUED"}

Lost == {j \in stale : state[j] = "RUNNING"}

RecoverRead(s) ==
  /\ found[s] = {} /\ Lost # {}
  /\ found' = [found EXCEPT ![s] = Lost]
  /\ foundAt' = [foundAt EXCEPT ![s] = [j \in Jobs |-> IF j \in Lost THEN attempt[j] ELSE 0]]
  /\ UNCHANGED <<rowVars, workVars, plan, retry, retried, prompt>>

RecoverCommit(s) ==
  LET next == [j \in found[s] |-> Outcome(foundAt[s][j] + 1)] IN
  /\ found[s] # {}
  /\ attempt' = [j \in Jobs |-> IF j \in found[s] THEN foundAt[s][j] + 1 ELSE attempt[j]]
  /\ state' = [j \in Jobs |-> IF j \in found[s] THEN next[j] ELSE state[j]]
  /\ due' = {j \in due : j \in found[s] => next[j] # "RETRYING"}
  /\ found' = [found EXCEPT ![s] = {}]
  /\ foundAt' = [foundAt EXCEPT ![s] = [j \in Jobs |-> 0]]
  /\ UNCHANGED <<stale, fresh, bucket, workVars, plan, retry, retried, prompt>>

-----------------------------------------------------------------------------
(* POST /fetch-tasks/{id}/retry.  attempt stays as it is. *)

RetryRead(c, j) ==
  /\ retry[c] = None /\ state[j] = "FAILED"
  /\ retried[j] < MaxRetries
  /\ retry' = [retry EXCEPT ![c] = j]
  /\ UNCHANGED <<rowVars, workVars, plan, recVars, retried, prompt>>

RetryCommit(c) ==
  LET j == retry[c] IN
  /\ j # None
  /\ state' = [state EXCEPT ![j] = "QUEUED"]
  /\ due' = due \cup {j}
  /\ retry' = [retry EXCEPT ![c] = None]
  /\ retried' = [retried EXCEPT ![j] = retried[j] + 1]
  /\ prompt' = (prompt /\ ~Recovering(j))
  /\ UNCHANGED <<attempt, stale, fresh, bucket, workVars, plan, recVars>>

-----------------------------------------------------------------------------
(* Time *)

\* A retry's back-off ends.  A recovery that has read the job by then has taken
\* longer than the 30 s it gave the job.
BecomeDue(j) ==
  /\ state[j] = "RETRYING" /\ j \notin due
  /\ due' = due \cup {j}
  /\ prompt' = (prompt /\ ~Recovering(j))
  /\ UNCHANGED <<state, attempt, stale, fresh, bucket, workVars, plan, recVars, retry, retried>>

\* STALE_RUNNING_SECONDS after the claim, which only matters to a RUNNING job.  It
\* may still be in hand: it is slow, or the ones before it in the batch are.
BecomeStale(j) ==
  /\ state[j] = "RUNNING" /\ j \notin stale
  /\ stale' = stale \cup {j}
  /\ prompt' = (prompt /\ ~InHand(j))
  /\ UNCHANGED <<state, attempt, due, fresh, bucket, workVars, plan, recVars, retry, retried>>

NextBucket ==
  /\ bucket <= LastBucket
  /\ bucket' = bucket + 1
  /\ UNCHANGED <<state, attempt, due, stale, fresh, workVars, plan, recVars, retry, retried, prompt>>

\* The last sync, or check, is an interval old.
Age(k, m) ==
  /\ <<k, m>> \in fresh
  /\ fresh' = fresh \ {<<k, m>>}
  /\ UNCHANGED <<state, attempt, due, stale, bucket, workVars, plan, recVars, retry, retried, prompt>>

-----------------------------------------------------------------------------
WorkerStep(w) ==
  \/ \E claimed \in SUBSET Claimable : Claim(w, claimed)
  \/ \E j \in Jobs : Start(w, j)
  \/ Succeed(w) \/ Fail(w)

RecoverStep(s) == RecoverRead(s) \/ RecoverCommit(s)

Next ==
  \/ \E k \in TaskTypes, m \in Mailboxes : (Clients # {} /\ CreateJob(k, m)) \/ Age(k, m)
  \/ \E s \in Schedulers, k \in TaskTypes : ScheduleRead(s, k) \/ ScheduleCommit(s, k)
  \/ \E w \in Consumers : WorkerStep(w) \/ WorkerHangs(w) \/ Break(w)
  \/ \E s \in Schedulers : RecoverStep(s)
  \/ \E c \in Clients : (\E j \in Jobs : RetryRead(c, j)) \/ RetryCommit(c)
  \/ \E j \in Jobs : BecomeDue(j) \/ BecomeStale(j)
  \/ NextBucket

Spec == Init /\ [][Next]_vars

\* Workers poll every two seconds and the recovery runs every minute, both catch
\* what a round raises, and time passes.  A job that has started ends, unless its
\* worker is hung: only the HTTP adapters have a timeout, and nothing obliges anybody
\* to restart the worker.
FairSpec ==
  /\ Spec
  /\ \A w \in Consumers : WF_vars(WorkerStep(w))
  /\ \A s \in Schedulers : WF_vars(RecoverStep(s))
  /\ \A j \in Jobs : WF_vars(BecomeDue(j)) /\ WF_vars(BecomeStale(j))

-----------------------------------------------------------------------------
(* Properties *)

\* Every column has a value of its type, and so has what the sessions hold.
TypeOK ==
  /\ state \in [Jobs -> States]
  /\ attempt \in [Jobs -> Nat]
  /\ due \subseteq Jobs /\ stale \subseteq Jobs
  /\ fresh \subseteq TaskTypes \X Mailboxes
  /\ bucket \in 0..(LastBucket + 1)
  /\ batch \in [Consumers -> SUBSET Jobs]
  /\ run \in [Consumers -> Jobs \cup {None}]
  /\ seen \in [Consumers -> Nat]
  /\ hung \subseteq Consumers
  /\ plan \in [Schedulers \X TaskTypes -> SUBSET Jobs]
  /\ found \in [Schedulers -> SUBSET Jobs]
  /\ foundAt \in [Schedulers -> [Jobs -> Nat]]
  /\ retry \in [Clients -> Jobs \cup {None}]
  /\ retried \in [Jobs -> Nat]
  /\ prompt \in BOOLEAN

\* As long as every handler is prompt, a job is executed, or about to be, by at
\* most one worker, whatever crashes, is recovered and retried.
ExclusiveExecution ==
  \A j \in Jobs, v, w \in Consumers :
    prompt /\ run[v] = j /\ (run[w] = j \/ j \in batch[w]) => v = w /\ j \notin batch[w]

\* As long as every handler is prompt, a job that has succeeded stays so: it is
\* not done again.
SuccessKept ==
  [][\A j \in Jobs : prompt /\ state[j] = "SUCCESS" => state'[j] = "SUCCESS"]_vars

\* However late the handlers are, no more than max_attempt attempts are counted
\* for a job, plus one for each manual retry, and none that can be claimed has
\* used them up.
JobAttemptsBounded ==
  \A j \in Jobs :
    /\ attempt[j] <= MaxAttempt + retried[j]
    /\ state[j] \in PENDING_TASK_STATES => attempt[j] < MaxAttempt + retried[j]

\* One scheduler keeps at most one of its jobs pending for a mailbox, over all
\* periods, while handlers are prompt; a job an operator has put back is not its.
OnePending ==
  \A i, j \in Jobs :
    /\ prompt /\ i # j /\ i[1] = j[1] /\ i[2] = j[2] /\ i[3] # 0 /\ j[3] # 0
    /\ retried[i] = 0 /\ retried[j] = 0
    => state[i] \notin PENDING_TASK_STATES \/ state[j] \notin PENDING_TASK_STATES

\* Every job ends, unless all the workers are hung for good: crashes, silent servers,
\* slow workers that overwrite each other's count and recoveries do not keep it going
\* for ever, and the job that hangs one worker after the other is given up.
JobEnds ==
  \A j \in Jobs : state[j] \in PENDING_TASK_STATES ~>
    (state[j] \in {"SUCCESS", "FAILED"} \/ [](hung = Consumers))

=============================================================================

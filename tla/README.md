# mail-hub: a verification project

TLA+ modules for the backend of mail-hub (`src/backend/app`): a service that leases mailboxes of a
pool to registration tasks, synchronises the mail of those mailboxes, parses it, binds it to the
tasks and reports the results by webhook. TLC checks the modules on small instances, TLAPS proves
the theorems listed below for every instance.

## 1. The system

FastAPI handlers and background loops share one SQLite database; beside it only the event bus, the
circuit breaker of the language model and the rate limit keep state, in memory. Every handler or
loop opens its own ORM session.

| Component | State | Operations | What is hard |
|---|---|---|---|
| Registration tasks (`task_service`, `routers_registration`) | `registration_tasks`: state, mailbox, callback, claim, result, expiry | create, try_allocate_waiting, match_mail, cancel, sweep_timeouts, claim-complete | many writers of `state`, each from a copy read earlier |
| Pools (`pool_service`, `routers_pools`) | `mailboxes.status`, `metadata_json["cooldown_until"]`, limits of the pool | allocate, release, claim_complete, sweep_cooldowns | the check of the limits and the write are apart; `release` trusts a loaded status |
| Health (`health_service`, `routers_mailboxes`) | `status`, `health_status`, `health_score`, `failure_count` | health check, quarantine, recovery, PATCH, archive | provider awaited between read and write; each check counts from its own copy |
| Webhooks (`webhook_service`) | `webhook_deliveries`: state, attempt | enqueue, dispatch_due, stale recovery | HTTP between read and write, retries, rounds overtaken by the recovery |
| Mail (`imap_provider`, `outlook_provider`, `message_service`, `run_sync`) | `metadata_json["sync_cursor"]`, `messages` (dedupe key) | sync, push | overlapping syncs with old cursors, crashes, caps, repeated pushes, keys two mailboxes share |
| Parser, LLM fallback (`parser_service`, `llm_fallback`, `routers_rules`) | `parser_rules`, `parse_results`, `parse_status`, category; breaker | parse, re-parse, extract, match | re-parses that overlap; the model is asked with the write lock held; breaker never closes |
| Mailboxes (`mailbox_service`, `inbound_service`, `import_service`, aliases, domains) | `mailboxes`, `aliases`, `cf_domains`, `import_batches`, `import_rows` | create, import, catch-all creation, alias, hard delete | everyone looks first and writes later |
| Fetch queue (`workers/scheduler`) | `fetch_tasks` | claim, execute, retry, recover, schedule | crash and slow workers, several schedulers |
| Event bus, SSE (`core/events`, `routers_events`) | queues, `event_log` | publish, log with retries, subscribe, replay | full queues, a replay that must meet the queue without a gap |
| Rate limit (`core/ratelimit`) | a deque for each address | dispatch | the deque is bounded |
| Provider settings (`routers_tempmail_providers`, `SystemSettings.tsx`) | `tempmail_provider_settings` | list (masked), update (merged), dispatch order | stale pages send masked secrets back |
| Others | notifications, login, audit, serialisation, extension | | see PROJECT.json for why they are left out |

How they interact: `create` allocates from the pool; a sync or an inbound push ingests mail, which is
parsed and handed to `match_mail`, which completes the task and releases the mailbox, or enqueues a
delivery; the dispatcher delivers it and completes the task. The scheduler's loops (task monitor,
dispatcher, cooldown sweeper, stale recovery, queue workers) run beside the API, and in several
processes: `DELIVERY.md:13` reports two, and `workers/runner.py` starts another. The queue executes
syncs, parses and health checks. Everything publishes events.

What makes each component correct: a mailbox is leased within its limit, and released when its
tasks end; a task that has ended does not go on, and none waits for ever; a result once bound is not
replaced, and exists; deliveries are retried a bounded number of
times; a job is executed by one worker; a mail that has been fetched is stored once, and a cursor
passes no other; an address has one mailbox and nothing refers to a mailbox that is gone; a batch has
imported what it says; a mailbox is quarantined when, and only when, its checks say so; a stream has
no gap; no more requests are served than the limit; a mask never becomes a secret.

## 2. Modules

| Module | What it is |
|---|---|
| `TaskPool` | tasks, mailboxes, ingestion, dispatcher, monitor; the core |
| `LeaseBook` | the abstract specification `TaskPool` implements: granted once, ended once, never above a cap |
| `FetchQueue` | the queue of background jobs: scheduling by period, atomic claim of batches, execution, crash, stale recovery, manual retry |
| `MailSync` | what a `MAIL_SYNC` job does: cursors, what IMAP and Graph give, dedupe key, inserts, pushes that come twice |
| `MailboxHealth` | what a `HEALTH_CHECK` job does: outcomes of the providers, score, failure count, quarantine, the writers it overlaps with |
| `Upkeep` | `FetchQueue` and the `MailSync` its jobs are, side by side, with the fairness of both |
| `MailParser` | what ingestion and a `MAIL_PARSE` job do: rules, language model and breaker, results, matching by time, re-parse |
| `MailboxDirectory` | creation of mailboxes by the API, imports and inbound mail; aliases, domains, hard delete |
| `EventBus`, `RateLimit`, `ProviderSettings` | the small machines |
| `Services` | the last five side by side |
| `MCTaskPool`, `MCFetchQueue`, `MCMailSync`, `MCMailboxHealth`, `MCUpkeep`, `MCServices` | symmetry sets and constant functions for TLC; the `.cfg` files give the instances |
| `TaskPoolProofs`, `FetchQueueProofs`, `MailSyncProofs`, `MailboxHealthProofs`, `MailParserProofs`, `MailboxDirectoryProofs` | the theorems about the module of that name (section 4) |
| `UpkeepProofs`, `ServicesProofs` | the theorems about the two compositions, and about the small machines |

The components of `Services`, and of `Upkeep`, share no variables, and the variable `part` says which
one a behaviour is of: the states add up, they do not multiply, and one run checks them all. Modules
meet in the code through rows, and each model keeps the other writers of its rows as actions:
`TaskPool` has a sync that yields a result or not (`IngestResult`, `IngestPlain`), of which `MailSync`
and `MailParser` are the detail; `MailboxHealth` has leases (`Lend`, `GiveBack`) whose races are in
`TaskPool`; `FetchQueue` runs the jobs the others describe.

### How code becomes actions

A SQLite writer holds the lock from its first flush to its commit, and the engine begins a
transaction with the first flush: the SELECTs before it are unprotected. The ORM keeps the object it
loaded (the identity map is not refreshed, `expire_on_commit=False`) and writes the columns it
changed. Hence

- a handler whose first statement is an INSERT is one action (`CreateTask`, `Preview`), as is one
  whose write does not depend on what it read (`PatchStatus`, `ChangeRule`, `HardDelete`);
- any other handler is a *Read* action, which stores in its session (`sess[s]`, `job[s]`, `check[s]`,
  `parse[s]`, `request[s]`, `put[o]`) what it has loaded, and a *commit* action that writes from that
  copy (`CancelRead`/`CancelCommit`, `SyncRead`/`SyncFetch`/`Commit`, `Load`/`Judge`, `PutRead`/
  `PutWrite`, ...). An await of a provider or of an HTTP receiver lies between them;
- a column that still has its loaded value is not in the UPDATE, so a concurrent change of it
  survives: `Written` of `MailboxHealth`, the four IFs of `PutWrite`, `ImportCommit`;
- a handler that goes on after its first flush is several steps under `writer` (`lock`, `owner`): the
  monitor's round, the sync of several mails, a parse that asks the model, the rows of an import.
  While the lock is held nobody else writes, which is what others see of a transaction; the rows of
  a transaction that has to be undone are never shown, because a session aborts before its first write;
- a job whose handler raises in Python, where no statement has failed, is committed all the same:
  `execute_task()` catches the exception and commits what the session has flushed (`AbortKeeping` of
  `MailSync`, `JobFails` of `MailParser`). After a flush that has failed the commit fails, too;
- a unique index or foreign key that refuses a row undoes the session (`Refused`, `Refuse`,
  `Duplicated`); an API handler that raises, and any whose statement fails or whose process dies, is
  rolled back (`Abort`, `MonitorAbort`, `Die`, `CheckDies`, `ParseAborts`).

Abstractions of `TaskPool`: one pool; the ORDER BY of `allocate` is left open; expiry, cooldown and
midnight are events (`Expire`, `CooldownElapse`, `Midnight`); the matching of sender and subject is
left open (`hit`); a delivery row commits alone, where the code commits the rows of a round together;
LIMIT clauses are not reached. `RecoverRead` and `RecoverCommit` are the webhook half of
`_sweep_stale_running`: the SELECT of the SENDING rows is unprotected, and RETRYING is written over
whatever a slow round has committed since; `revived` counts, for each delivery, how often that brought
back one that had ended. `IngestResult` writes the state of a task and its delivery row together.
`ingest_message()` swallows what `match_mail()` raises (`message_service.py:156`), but between the two
writes there is work in memory only (`bus.publish` catches what it meets, the result was decrypted a
moment before) and the flush of the row itself; when that fails the session cannot commit what it has,
whoever catches the exception, and all is undone (`Abort`). No statement of the code assigns VALIDATING, PARSING, RESULT_READY,
PARSING_FAILED or MAILBOX_ERROR, so they are not states of the model's tasks.

`FetchQueue`: a worker is one `_queue_consumer`: `Claim` is the `UPDATE ... RETURNING`, `Start` the
second look at the next job of the batch, `Succeed` and `Fail` the commit of `execute_task` after the
provider's work, from the copy `seen` of `attempt`; `Break` is a crash, or a commit that raises, which
abandons the batch. `WorkerHangs` is a worker that waits for an IMAP server for ever, as
`imap_provider.py:102` opens the connection without a timeout; `Break` is its only way out.
`RecoverRead`/`RecoverCommit` are `_sweep_stale_running`, `RetryRead`/
`RetryCommit` the API's retry, `ScheduleRead`/`ScheduleCommit` a round of `_schedule_sync` or
`_schedule_health`, whose keys are mailbox and period. Two history variables are not in the code:
`retried` counts manual retries, and `prompt` turns FALSE when a job becomes stale in a worker's hand,
or becomes due again while a recovery still holds it, that is when a handler outlasts the delay it
relies upon (300 s, 30 s). The status and demo filters of the loops are left out.

`MailSync`: a mail is the n-th of its mailbox. An IMAP uid is n and strictly above `last_uid`; a Graph
time is shared by two mails in a row, and the filter is `ge`, so the last second is fetched again.
`Newest` is both the last hundred uids and the twenty pages of fifty; a mail it leaves out, or one a
single failed IMAP fetch skips, enters `lost` when the cursor passes it, so that the properties say
precisely which mails are not stored. `unreadable` are mails with a charset Python does not know:
`parse_raw_message()` raises, and with it the sync (`SyncRaises`), unless the fetch of that mail fails
first. `Hang` (`WorkerHangs` in the queue) is a silent IMAP server. `InternetId` is the id the sender gave.

`MailboxHealth`: `Outcomes` are the answers `test_connection` of each adapter can give. The score is
computed with the count before this failure (`health_service.py:73`), which is why a check takes its
`points` from `c.count`. `CheckHangs` is a silent IMAP server, `CheckDies` a session that ends without
a commit. Mailboxes two sessions have held at once are in `raced`: of them only
liveness is stated.

`MailParser`: a rule finds one value or nothing in a message, the model a code, a link, both or none,
or it raises, or fails quietly. A re-parse deletes the results it loaded and holds the lock while the
model answers. A parse may raise before it has results or after the rules' were added (`HasFailed`):
at ingestion the message is then PARSE_FAILED, with the rules' results if there are any (`ParseFails`);
in a job the deletion of the old results is committed, and without new ones the old status and category
stay (`JobFails`); in the API all is undone (`ParseAborts`). Such messages are in `halved` until a parse
comes to its end. `received` is what `match_mail()` compares, the Date header moved to the server's
time zone and cut off at the present: `IngestNew` takes any time up to now.

`MailboxDirectory`: addresses, plus addresses (`BaseOf`) and the lines of batches are constants.
`resolve_mailbox()` reads the domain of a plus address twice: the master is made if the first look finds
it active (`RouteNowhere`), the plus address itself becomes a mailbox if only the second does
(`RouteAgain`). A
session's imported rows appear in the table at its commit.

`ProviderSettings`: one provider with one plain and one secret field. `EventBus`: events are numbers.
`RateLimit`: one address; the clock is discrete.

History variables (marked "history" in the modules) record what no row does, never guard an action
beyond a bound, and exist for the properties.

## 3. Runs

All bounds are the sizes of the sets in the `.cfg` and the constants named `Max...`. `Handlers` of
`TaskPool` names the handlers that are called, so that an instance can leave out the ones a question
does not need. `CHECK_DEADLOCK FALSE` is set where nothing can happen once the bounded tasks, calls
or mails are used up.

| Run | Bounds | Shows |
|---|---|---|
| `pool_leases` | 2 tasks, 1 mailbox, 1 mail, 2 sessions, 1 scheduler | `MailboxBeforeMail`; `LeasesBooked`: with one scheduler every behaviour is one of `LeaseBook`, in spite of stale cancellations, syncs and deliveries. Two tasks and two sessions are what a stale handler needs to disturb another lease |
| `pool_schedulers` | 3 tasks, 2 schedulers, limit 1, operator changes | `LeasesCounted`: overbooking is at most one task per scheduler. TLC reaches three tasks on the mailbox, so the bound is tight |
| `pool_one_task` | 1 task, 2 mails, 2 sessions, 2 schedulers, 2 attempts, 1 revival, daily limit 1 | `TypeOK`, `CallbackAccounted` (no task waits for a delivery nobody wrote), `AttemptsBounded` (late recoveries add an attempt only where they bring back a delivery that had ended), `ResultStable` (neither a second mail nor an overlapping sync replaces the result). The cooldown, claims and operators are in the other three |
| `pool_liveness` | 1 task, 2 sessions, 2 attempts, cooldown | `WaitingEnds`, `CallbackResolves`, `CooldownEnds` |
| `queue_jobs` | 1 mailbox, its manual and its scheduled `MAIL_SYNC` job in batches of up to 2, 2 workers that may hang, 1 scheduler, 1 operator, 2 attempts, 1 retry; 3.6 million states | `JobAttemptsBounded`, in spite of overtaken workers; while handlers are prompt, `ExclusiveExecution` (a job is in one worker's hand) and `SuccessKept` (it is not done again) |
| `upkeep`, mail | 1 inbox of each kind, 2 mails, cap 1, 2 sessions, 1 crash, any of the IMAP mails unreadable | `NothingBehindCursor`, `MailFetched` for overlapping syncs and pushes. Cap 1 of 2 mails makes every sync drop one; two sessions are what an old cursor needs. 123 thousand states for both halves, two and a half minutes |
| `upkeep`, queue | 1 mailbox, 2 periods, 2 workers that may hang, 1 scheduler, 2 attempts | `OnePending` (a mailbox has one pending job of the scheduler) and, with slow workers, silent servers and any number of crashes, `JobEnds` |
| `health` | 1 mailbox in a pool with threshold 2, 2 sessions, the outcomes of IMAP (the other adapters differ in nothing else), an edit, a death or a change of the provider | `ShowsItsChecks`, `QuarantinedByFailures`, `DownIsQuarantined`; counts are exact up to 4, above the threshold and above what the score sees. 572 thousand states, two minutes |
| `services`, parser | 2 rules whose priorities change, 1 message, 1 task, 2 sessions, 3 parses, breaker after 1 failure, 1 parse or session that fails | `BestRulesWin`, `ResultsOfOneParse`, `ResultOfTask`, `RaisesBounded`. The five components of this run have 1.6 million states up to the symmetry of the two sessions, three minutes |
| `services`, directory | a user and its plus address, 2 mailboxes, a batch with a duplicate, an empty and two valid lines, 2 sessions, 1 death | `OneMailboxPerAddress`, `NoOrphans`, `CountersMatchRows`, `ImportedAsCounted` |
| `services`, events | 1 client that connects twice, 3 events, queue of 1, replay of 2, 1 restart | `NoGap` |
| `services`, rate | limit 2 in a window of 2, 7 requests in 6 ticks | `AtMostLimitPerWindow`: the deque of twice the limit does overflow |
| `services`, settings | 2 operators, 3 calls | `SettingsHold` |
| `pool_project_isolation` | violation | a project gets a mailbox again it has succeeded with |
| `pool_released_when_ended` | violation | a mailbox IN_USE for ever after its task has completed |
| `pool_terminal_is_final` | violation | a cancelled task is assigned a mailbox and waits for mail |
| `mail_kept` | violation: 2 IMAP inboxes, 1 session | the second mailbox's mail is never stored |

`MailTypeOK`, `HealthTypeOK`, `ParserTypeOK` and `DirectoryTypeOK` are the type invariants of their
modules; the score within 0..100 and the counters of a batch within Nat are the parts that could fail.

Fairness. IMAP connections are opened without a timeout (`imap_provider.py:102`), so no liveness
property assumes that a handler which asks a provider goes on; HTTP requests do have timeouts.

- `TaskPool` (`FairSpec`): weak for the monitor's steps, for time, and for the end of a handler that has
  begun, unless it is at a provider (`AtProvider`: a sync or a check that has not begun to write);
  strong for the start of a cooldown sweep and of a delivery, by a session of `Loops`, because the few
  sessions of an instance are shared, while each loop of the scheduler has its own, which awaits no
  provider. `Scheduler.start` runs its loops every 5 to 60 seconds, and they survive exceptions. Nothing
  is assumed of clients, mails, providers or receivers: a receiver may refuse for ever, and
  `CallbackResolves` then ends in `callback_state = FAILED`, with the task left in WAITING_CALLBACK
  and its mailbox in use (webhook_service.py:127), which no loop ever changes. Rollbacks are left out
  of `pool_liveness`: a handler that always dies makes no progress.
- `FetchQueue`, in `Upkeep`: weak for the steps of workers that do not hang, of the recovery, and of
  time. Workers may hang at any job that asks a provider, and nobody need restart them: `JobEnds` says
  that a job ends unless *all* the workers hang for good, which the code does not prevent. A crash is an
  action without a bound: each one costs the job an attempt, so `JobEnds` needs no limit on crashes. It
  is not obvious, as overlapping executions overwrite each other's count; but each writes more than it
  has read, so the least of the counts that are still held grows. Two attempts and two workers are
  enough for a worker to be overtaken, to bring a FAILED job back, and to lose a count. `queue_jobs`
  checks safety only: there a worker that hangs is one that is slow until it breaks.
- `MailSync`, in `Upkeep`: weak for a session that has an answer or can get one, strong for the start of
  a sync of each mailbox, and for the full answer of a provider that is asked again and again.
  `MailFetched` names the two ways the code has of stopping for good: all the sessions hang, or a mail
  that cannot be parsed is among those a sync fetches (`Blocked`). Nothing is assumed of pushes, and
  crashes are bounded (`MaxCrash`).
- `MailboxHealth`: weak for a session that holds something and does not hang, strong for the start of a
  check of each mailbox that is not archived. `DownIsQuarantined` again allows for all the sessions
  hanging, and for nothing less; a provider that answers with a failure, or refuses, is quarantined.

Findings, each with the run that shows it (details in PROJECT.json):

1. waiting tasks are served without their `project_key` (`ProjectIsolation`);
2. a sync that loaded the mailbox before its allocation leaves it IN_USE (`ReleasedWhenEnded`);
3. the monitor overwrites a cancellation (`TerminalIsFinal`);
4. the dedupe key of IMAP mail does not tell mailboxes apart (`MailKept`).

Further behaviours a reader should know, which the properties admit explicitly: `max_concurrent`
("单邮箱最大并发", `Pools.tsx:116`) may be exceeded by one task per scheduler, as the monitor chooses
before it holds the lock (`LeasesCounted`, tight); a task two
schedulers have read as waiting is served twice, and mail is then matched with it anew (`regranted`);
a job that outlasts 300 s is executed twice, although
`README.md:70` says the claim excludes it (`prompt` in `ExclusiveExecution`), and so is a job two
operators retry at once: the second retry writes QUEUED after the job has been claimed
(`routers_fetch.py:89`; `queue_jobs` with a second client shows it, `RetriesApart` excludes it); mails above the cap of a
sync, or skipped by one failed fetch, are never fetched again (`lost`); DISABLED and ARCHIVED mailboxes
that are checked may end up QUARANTINED and then READY (`edited`); an Outlook mailbox whose two probes
fail has NETWORK_ERROR and a score of 90; overlapping checks leave counts no sequence of checks gives
(`raced`); overlapping re-parses leave results of both (`crossed`), overlapping commits of a batch
count twice (`overlap`), overlapping updates of a provider may bring back an old secret (`mixed`); the
breaker never closes.

Five more, in which the code is at odds with a comment or with what one would expect of it, and for
which the properties make no claim:

- a task may be given mail from before its creation, although the comment at `task_service.py:153` says
  that only mail received after it is matched: what is compared is the sender's Date header in the
  server's time zone, or the time of the sync (`imap_provider.py:69`, `message_service.py:89`);
- calls of the model that fail without an exception, with an HTTP status other than 200 or a reply that
  is no JSON, do not count for the breaker (`llm_fallback.py:137`), although `llm_fallback.py:5` says
  that N consecutive failures close the fallback to save their cost. `RaisesBounded` is about the calls
  that raise;
- a plus address becomes a mailbox of its own if its domain is activated between the two reads of
  `resolve_mailbox()` (`RouteAgain`);
- an IMAP mail with an unknown charset makes every sync of its mailbox fail (`SyncRaises`, `Blocked`);
- a webhook that has been delivered, or given up, is sent again if the recovery read it before and
  commits after (`RecoverCommit`, `revived`), once more than `webhook_max_attempts` allows. A parse that
  fails half-way leaves PARSE_FAILED with results, or PARSED with none (`halved`).

## 4. Proofs

`TaskPoolProofs` assumes only `PoolAssumption` (finite sets of tasks and schedulers, numbers that
are numbers, NULL that is no row) and proves, for every instance,

- `Typing`: `Spec => []TypeOK`;
- `MailboxFirst`: `Spec => []MailboxBeforeMail`, inductive together with `TypeOK`;
- `LeasesBound`: `Spec => []LeasesCounted`, and from it `Overbooking`: `Spec => []OverbookingBound`;
- `DeliveryAttempts`: `Spec => []AttemptsBounded`, and `CallbackHasDelivery`: `Spec => []CallbackAccounted`;
- `FirstResult`: `Spec => ResultStable`, for any number of schedulers;
- as long as no two rounds serve the same task (`RoundsApart`), `Booking`:
  `Spec /\ []RoundsApart => LeasesBooked`, the refinement of `LeaseBook`. A scheduler that is alone
  cannot break `RoundsApart`.

`OverbookingBound` is not inductive: between the monitor's choice of a mailbox and its assignment
others may fill it. `LeasesCounted` counts the choice as a lease already; then only `CreateTask` and
`MonitorPlan` add to the sum, both after finding fewer than `MaxConcurrent` leases, and a scheduler
has one plan at a time. Lemma `Steps` reduces the thirty actions to four cases: a creation, a plan,
an assignment, and steps that grant nothing (`NoGrant`); lemma `DeliverySteps` does the same for the
rows of the webhook queue.

A round of the dispatcher that is overtaken writes an old count over a newer one, and a recovery that
commits late brings back a delivery that has ended. `DeliveryInv` bounds what is left of the attempts by
`MaxAttempts + revived`: row and count are written together, so a row that can be sent again has
attempts left by that measure (`RowsCount`), and so has every dispatch under way (`DispatchesCount`); a
mail that is dispatched or recovered has been ingested (`RowsHaveMail`), so no recovery makes a row where
there was none. `CallbackInv` names the
delivery a waiting task waits for, that of its result: it is not answered, and every dispatch of it
has read that the task waits, so that its success ends the wait (`DispatchKnows`). A dispatch that has
not read so belongs to an earlier result, as a mail is ingested once.

`FirstResult` needs that only a task without a result is matched with mail. `BindingInv` says that a
task which waits for mail has none, unless a round has served it when it had its mailbox already, which
sends it back to WAITING_EMAIL (`regranted`), and that a task with a result has a mailbox, so that every
such round is noticed.

`Booking` rests on what a round has to serve: tasks without mailbox and result that
wait for one, or have ended in the meantime (`NoneWhileServed`, `BookInv`). When two rounds have read
the same task it is false: the slower one assigns a mailbox to a task the faster one has served,
and which may have its mail already; `RoundsApart` excludes that, and nothing else. A step of the pool is
then a `Grant`, an `End` or a stutter of the book; the cap of a `Grant` comes from `LeasesBound`.

`FetchQueueProofs` assumes `QueueAssumption` (numbers that are numbers, NULL that is no job) and
proves, for any numbers of workers, schedulers, operators, mailboxes and attempts,

- `QueueTyping`: `Spec => []TypeOK`;
- `AttemptsLimit`: `Spec => []JobAttemptsBounded`. `AttemptsInv` bounds what the sessions have *read*
  as well as what is stored, because they write the former plus one;
- `Exclusion` and `SuccessStays`: `Spec /\ []RetriesApart => []ExclusiveExecution` and
  `Spec /\ []RetriesApart => SuccessKept`, where `RetriesApart` says that no two operators hold the
  same FAILED job to put it back; an operator that is alone cannot break it. `ExclusionInv` says that, as long as `prompt` holds, a job in hand is RUNNING and not
  stale (`HandInv`), a job a recovery has read is as it was or another recovery has done the same to
  it (`FoundInv`), and a job to be retried is FAILED (`RetryInv`): each protects the other two;
- `PendingOnce`: `Spec /\ []RetriesApart /\ []RoundsApart => []OnePending`, where no two schedulers
  are about to insert jobs of one kind (they would not see each other's, of another period). A job that is about to be
  inserted has no pending rival, as when the round has looked (`PlanInv`), because while handlers are
  prompt no job that has ended comes back but by a retry (`NoComeback`, from `ExclusionInv`).

The other proof modules assume what their modules say of their constants, and no more:

| Module | Theorems | The inductive invariant, and why it is needed |
|---|---|---|
| `MailSyncProofs` | `MailTyping`, `CursorSafe`: `MailSpec => []NothingBehindCursor` | `CursorInv`: what a session has read of the cursor, and the position it will leave, are as safe as the cursor itself, but for the mails it is about to store. A session that writes an old cursor moves it back, which is safe; so is one that keeps mails and not the cursor; one that has failed has left the rest in `lost` |
| `MailboxHealthProofs` | `HealthTyping`, `ChecksAreShown`, and, for a threshold above 0, `FailuresQuarantine` | `HealthInv`: a session that has had a mailbox alone holds what its columns still are (`OneHolder`, `CopyFresh`). The threshold is a hypothesis of the theorem, as `PATCH /pools` accepts 0 (schemas.py:73), with which the property would ask for a mailbox that has never failed to be in quarantine, and the code quarantines it at its first failure |
| `MailParserProofs` | `ParserTyping`, `LoopFinds`: `ParserSpec => []BestRulesWin`, `ResultsAreOfOneParse`, `ResultExists`; `RaisingCalls`: `ParserSpec => []RaisesBounded` | `ParserInv`, see below. `BreakerInv`: once the circuit is open, failures and sessions that still ask are together no more than the breaker bears and one per session. No session begins to ask while it is open |
| `MailboxDirectoryProofs` | `OneMailbox`, `ReferencesHold`; `DirectoryTyping`, `CountersHold`, `ImportsCounted` | `DirectoryInv`: the rows an import has made and not committed are valid, their addresses are free, and the session that made them writes alone (`Holdable`); so nobody can take an address in between. Lemma `Made` says what `create_mailbox()` for a set of addresses does. `CountInv`, for the counters: an import has made or marked every valid row it has passed and no other, one row for each address, and its copies are the batch as long as nobody else commits it. `EnoughInv`, for the types: whoever else commits the batch, a session has counted at least the rows it may mark, so that `valid_rows` never falls below 0 |
| `ServicesProofs` | `ReplayMeetsQueue`: `EventSpec => []NoGap` | `StreamInv`: what has been published since a client has subscribed is on its way to it before the replay has begun, too |
| | `ServedWithinLimit`: `Limit > 0 /\ RateSpec => []AtMostLimitPerWindow` | `RateInv`, see below |
| | `SecretsKept`: `SettingsSpec => []SettingsHold` | `SettingsInv`: while no two calls overlap, the one under way has read the row as it still is (`ReadsAreFresh`) |
| | `EachIsItself`, `ServicesAreSafe` | a step of `ServicesSpec` is one of one component and leaves the others unchanged, so that `ServicesSpec` implies the specification of each, and the theorems above hold of what the run `services` checks |
| `UpkeepProofs` | `SyncAndQueue`, `UpkeepIsSafe` | the same for `UpkeepSpec`, of which `MailSync` and `FetchQueue` are the components, and the run `upkeep`; `OnePending` under the conditions of `PendingOnce` |

The loop of the parser. `RuleResults` is a fold over the active rules, from the first to the last. The
library's induction theorems take an operator as a parameter and cannot be used here, so the induction
is one over a smallest counterexample: of a family of subsets of a finite set, if there is any, one is
smallest (`SmallestSet`, from the library's well-foundedness of strict inclusion). With it, finitely
many rules have a last one (`LastRuleExists`); the function by which the fold is defined exists and is
determined on the subsets of the active rules (`LoopExists`, `LoopsAgree`), so that the fold unfolds;
and for every subset the loop finds its best rules, in order (`LoopFindsBest`), as it does for the
subset without its last rule (`LoopStepBest`). No bound on the number of rules is assumed: that only
finitely many are active is part of the invariant.

`ParserInv` says what `ResultsOfOneParse` is about before the results are stored. A parse that is under
way holds sound results, of its own number (`ParseSound`), and of a message two sessions have not
parsed at once it is the only one, and what it will delete is all that is stored (`ParseHolds`). A
session with a new message holds the lock, so nobody else has read that message (`NewHasLock`). Rows
are of a parse that has begun (`RowsHold`), so that a task whose result was deleted can tell by the
number of parses that its message was parsed again (`TaskHolds`). Parses that fail half-way are commits
like the others, of fewer results (`ParseFailsKeeps`, `JobFailsKeeps`): what is stored is still of one
parse (`OneParse`), only what status and category tell of it is given up (`Tells`, for messages that are
not `halved`).

`RateInv` is about the requests that have been served, not about the hits, which the deque forgets when
it overflows and which count refused requests too. Of the served ones, the last of any `Limit + 1` in
a row came after the first had left the window (`Spread`), which is what the property says. It is
preserved because a served request that is recent is in the deque with as many hits after it as were
served since (`Held`): twice the limit is room for the hits that come before, and a request is
served only if the deque has at most `Limit` recent ones. With `Limit = 0`, which the settings
allow, the deque holds nothing and every request is served; the theorem therefore assumes
`Limit > 0`.

All safety invariants and action properties of the passing runs are proved. Only model-checked are the
liveness properties (`WaitingEnds`, `CallbackResolves`, `CooldownEnds`, `JobEnds`, `MailFetched`,
`DownIsQuarantined`), which are out of the prover's reach, as ENABLED and fairness are.

## 5. Not modelled

Tasks of several pools, pool fields that are read when used, idempotency keys (a hit changes nothing),
raw files and their clean-up, notifications, authentication and login lock, audit, dashboards,
serialisation, migrations, the construction of providers, temporary addresses and the protocols
themselves. They keep no state that another part relies on, or are I/O. Secrets are values, not
ciphertexts. The events of a rolled-back transaction are published all the same; no model ties an
event to the row it is about.

--------------------------- MODULE MailboxHealth ---------------------------
(***************************************************************************)
(* Health checks: what the providers answer, the score, the count of       *)
(* failures, the quarantine and the way out of it, with the writers the    *)
(* checks overlap with: other checks, a sync that fails for the last time, *)
(* the operator, and leases.                                               *)
(*                                                                         *)
(* A check loads the mailbox, awaits the provider, and writes the columns  *)
(* whose value differs from what it loaded (Written).                      *)
(***************************************************************************)
EXTENDS Integers, FiniteSets

CONSTANTS
  Accounts,         \* mailboxes
  Adapters,         \* their provider types
  FailureThreshold, \* Pool.failure_threshold, of the one pool
  FailureCap,       \* failure counts from here on are taken for equal
  Checkers,         \* sessions of queue workers and API handlers
  OperatorSets,     \* the statuses operators set in this instance
  MaxEdits,         \* what they do in this instance
  MaxTurns,         \* changes of what a provider answers, and sessions that die,
                    \* in this instance
  Unset             \* NULL

ASSUME HealthAssumption ==
  /\ Adapters \subseteq {"imap", "outlook", "cloudflare", "simulator"}
  /\ FailureThreshold \in Nat /\ FailureCap \in Nat
  /\ FailureThreshold <= FailureCap /\ 3 <= FailureCap  \* the score sees no more than three
  /\ OperatorSets \subseteq {"DISABLED", "ARCHIVED", "READY", "AVAILABLE", "QUARANTINED"}
  /\ MaxEdits \in Nat /\ MaxTurns \in Nat
  /\ Unset \notin Accounts

VARIABLES
  adapter,   \* Mailbox.provider_type
  lifecycle, \* Mailbox.status
  health,    \* Mailbox.health_status
  score,     \* Mailbox.health_score
  failureCount, \* Mailbox.failure_count
  guarded,   \* whether the mailbox is in a pool, and its auto_quarantine is set
  answer,    \* at the provider: what test_connection() would find
  check,     \* what each session holds
  last,      \* the mailbox's newest HealthCheckRecord
  streak,    \* history: checks that have failed since one passed
  raced,     \* history: mailboxes that two sessions have held at once; the
             \* other history of these is not kept
  edited,    \* history: mailboxes whose status or pool an operator has changed
  edits, turns

mailboxVars == <<adapter, lifecycle, health, score, failureCount>>
historyVars == <<streak, raced, edited, edits, turns>>
healthVars == <<mailboxVars, guarded, answer, check, last, historyVars>>

-----------------------------------------------------------------------------
(* What a check finds *)

\* HealthCheckResult: connectivity, authorization, sync, fetch, auth_error_code.
Result(link, auth, sync, fetch, code) ==
  [link |-> link, auth |-> auth, sync |-> sync, fetch |-> fetch, code |-> code]

AllWell == Result(TRUE, TRUE, TRUE, TRUE, Unset)

\* The provider cannot be built, or raises.
Broken == Result(FALSE, FALSE, FALSE, FALSE, Unset)

\* test_connection() of each adapter: for Outlook the refresh of the token fails,
\* then both probes, then the inbox; a Cloudflare mailbox is judged by its domain
\* and by the age of the last mail.
Outcomes(kind) ==
  {AllWell, Broken} \cup
  CASE kind = "imap" ->
         {Result(TRUE, TRUE, TRUE, FALSE, Unset), Result(TRUE, FALSE, FALSE, FALSE, "AUTH_FAILED")}
    [] kind = "outlook" ->
         {Result(TRUE, FALSE, TRUE, TRUE, "TOKEN_EXPIRED"), Result(TRUE, FALSE, TRUE, TRUE, "AUTH_FAILED"),
          Result(FALSE, FALSE, TRUE, TRUE, "AUTH_FAILED"), Result(FALSE, TRUE, TRUE, TRUE, Unset),
          Result(TRUE, TRUE, FALSE, FALSE, Unset)}
    [] kind = "cloudflare" ->
         {Result(dns, active, recent, TRUE, IF active THEN Unset ELSE "AUTH_FAILED") :
            dns \in BOOLEAN, active \in BOOLEAN, recent \in BOOLEAN}
    [] kind = "simulator" -> {AllWell}

Ok(r) == r.link /\ r.auth /\ r.sync /\ r.fetch

\* health_status_from()
HealthOf(r) ==
  IF ~r.link THEN "NETWORK_ERROR"
  ELSE IF ~r.auth THEN (IF r.code = Unset THEN "AUTH_FAILED" ELSE r.code)
  ELSE IF ~r.sync THEN "SYNC_ERROR"
  ELSE IF ~r.fetch THEN "WARNING" ELSE "HEALTHY"

Weight(passed, points) == IF passed THEN points ELSE 0

\* (mutant: no max(0, ...))
ScoreUnclamped(r, count) ==
  Weight(r.auth, 30) + Weight(r.sync, 25) + Weight(r.fetch, 20) + Weight(r.link, 10) + 15 - 5 * count

\* compute_score(), SCORE_WEIGHTS
Score(r, count) ==
  Weight(r.auth, 30) + Weight(r.sync, 25) + Weight(r.fetch, 20) + Weight(r.link, 10)
    + (IF count > 3 THEN 0 ELSE 15 - 5 * count)

OneMoreFailure(count) == IF count < FailureCap THEN count + 1 ELSE FailureCap

\* (mutant: a check that passes keeps the count)
NeverForgiven(r, count) == IF Ok(r) THEN count ELSE OneMoreFailure(count)

Counted(r, count) == IF Ok(r) THEN 0 ELSE OneMoreFailure(count)

\* (mutant: > for >=)
BeyondThreshold(m, count) == guarded[m] /\ count > FailureThreshold

\* (mutant: == for >=)
AtThreshold(m, count) == guarded[m] /\ count = FailureThreshold

ToQuarantine(m, count) == guarded[m] /\ count >= FailureThreshold

\* The status a check leaves, from the one it loaded and its own count.
Advanced(m, r, status, count) ==
  IF Ok(r)
  THEN IF status \in {"IMPORTED", "VALIDATING", "QUARANTINED"} THEN "READY" ELSE status
  ELSE IF ToQuarantine(m, count) THEN "QUARANTINED" ELSE status

\* A column is in the UPDATE only if its value has changed since it was loaded.
Written(now, loaded, value) == IF value # loaded THEN value ELSE now

-----------------------------------------------------------------------------
Copy(op, box, status, found, count, points) ==
  [op |-> op, box |-> box, status |-> status, found |-> found, count |-> count, points |-> points]

\* A session without a mailbox, and one that has loaded it for a check or a sync.
Idle == Copy("none", Unset, "IMPORTED", Unset, 0, 0)
ForCheck(m) == Copy("check", m, lifecycle[m], health[m], failureCount[m], score[m])
ForSync(m) == Copy("sync", m, "IMPORTED", health[m], 0, 0)

\* One that waits for ever: it will write nothing of what it has loaded.
HungCheck == Copy("hung", Unset, "IMPORTED", Unset, 0, 0)

NoRecord == [health |-> Unset, score |-> 0]

HealthInit ==
  /\ adapter \in [Accounts -> Adapters]
  /\ lifecycle \in [Accounts -> {"IMPORTED", "READY"}]
  /\ health = [m \in Accounts |-> Unset] /\ score = [m \in Accounts |-> 0]
  /\ failureCount = [m \in Accounts |-> 0]
  /\ guarded \in [Accounts -> BOOLEAN]
  /\ answer \in [Accounts -> UNION {Outcomes(k) : k \in Adapters}]
  /\ \A m \in Accounts : answer[m] \in Outcomes(adapter[m])
  /\ check = [s \in Checkers |-> Idle]
  /\ last = [m \in Accounts |-> NoRecord]
  /\ streak = [m \in Accounts |-> 0] /\ raced = {} /\ edited = {}
  /\ edits = 0 /\ turns = 0

\* The mailboxes that another session has loaded.
HeldByOthers(s) == {check[o].box : o \in Checkers \ {s}}

Load(s, m, copy) ==
  LET races == m \in HeldByOthers(s) IN
  /\ check[s] = Idle
  /\ check' = [check EXCEPT ![s] = copy]
  /\ raced' = IF races THEN raced \cup {m} ELSE raced
  /\ last' = IF races THEN [last EXCEPT ![m] = NoRecord] ELSE last
  /\ streak' = IF races THEN [streak EXCEPT ![m] = 0] ELSE streak
  /\ UNCHANGED <<mailboxVars, guarded, answer, edited, edits, turns>>

\* A check that is asked for through the API, or queued before the mailbox was
\* archived.
ManualCheck(s, m) == Load(s, m, ForCheck(m))

\* A HEALTH_CHECK job of _schedule_health(): of DISABLED mailboxes too.
ScheduledCheck(s, m) == lifecycle[m] # "ARCHIVED" /\ Load(s, m, ForCheck(m))

\* The provider answers; the rest of run_health_check(), and the commit.
Judge(s) ==
  LET c == check[s]
      m == c.box
      r == answer[m]
      count == Counted(r, c.count)
      points == Score(r, c.count)
      found == HealthOf(r)
      status == Advanced(m, r, c.status, count) IN
  /\ c.op = "check"
  /\ health' = [health EXCEPT ![m] = Written(@, c.found, found)]
  /\ score' = [score EXCEPT ![m] = Written(@, c.points, points)]
  /\ failureCount' = [failureCount EXCEPT ![m] = IF Ok(r) THEN Written(@, c.count, count) ELSE count]
  /\ lifecycle' = [lifecycle EXCEPT ![m] = Written(@, c.status, status)]
  /\ IF m \in raced THEN UNCHANGED <<last, streak>>
     ELSE /\ last' = [last EXCEPT ![m] = [health |-> found, score |-> points]]
          /\ streak' = [streak EXCEPT ![m] = IF Ok(r) THEN 0 ELSE OneMoreFailure(@)]
  /\ check' = [check EXCEPT ![s] = Idle]
  /\ UNCHANGED <<adapter, guarded, answer, raced, edited, edits, turns>>

\* run_sync() loads the mailbox ...
SyncLoads(s, m) == Load(s, m, ForSync(m))

\* ... and fails: for the last time, or to be tried again, or it does not fail.
LastSyncFails(s) ==
  LET c == check[s] IN
  /\ c.op = "sync"
  /\ health' = IF c.found \in {"HEALTHY", Unset}
               THEN [health EXCEPT ![c.box] = "WARNING"] ELSE health
  /\ check' = [check EXCEPT ![s] = Idle]
  /\ UNCHANGED <<adapter, lifecycle, score, failureCount, guarded, answer, last, historyVars>>

SyncEnds(s) ==
  /\ check[s].op = "sync"
  /\ check' = [check EXCEPT ![s] = Idle]
  /\ UNCHANGED <<mailboxVars, guarded, answer, last, historyVars>>

\* The IMAP server that a check or a sync asks falls silent: the connection is opened
\* without a timeout.
CheckHangs(s) ==
  /\ check[s].op \in {"check", "sync"} /\ adapter[check[s].box] = "imap"
  /\ check' = [check EXCEPT ![s] = HungCheck]
  /\ UNCHANGED <<mailboxVars, guarded, answer, last, historyVars>>

\* The process dies, or the commit raises: nothing is written.
CheckDies(s) ==
  /\ check[s] # Idle
  /\ turns < MaxTurns /\ turns' = turns + 1
  /\ check' = [check EXCEPT ![s] = Idle]
  /\ UNCHANGED <<mailboxVars, guarded, answer, last, streak, raced, edited, edits>>

-----------------------------------------------------------------------------
(* The others *)

Edit(m) ==
  /\ edits < MaxEdits /\ edits' = edits + 1
  /\ edited' = edited \cup {m}
  /\ UNCHANGED <<adapter, health, score, failureCount, answer, check, last, streak, raced, turns>>

\* PATCH /mailboxes/{id} with a status, DELETE without hard.
SetStatus(m, status) ==
  /\ Edit(m)
  /\ lifecycle' = [lifecycle EXCEPT ![m] = status]
  /\ UNCHANGED guarded

\* The same with a pool, or PATCH /pools/{id} with auto_quarantine.
SetPool(m) ==
  /\ Edit(m)
  /\ guarded' = [guarded EXCEPT ![m] = ~@]
  /\ UNCHANGED lifecycle

\* allocate(), release() and sweep_cooldowns(); their races are in TaskPool.
SetLease(m, from, to) ==
  /\ lifecycle[m] \in from
  /\ lifecycle' = [lifecycle EXCEPT ![m] = to]
  /\ UNCHANGED <<adapter, health, score, failureCount, guarded, answer, check, last, historyVars>>

Lend(m) == health[m] = "HEALTHY" /\ SetLease(m, {"READY", "AVAILABLE"}, "IN_USE")
GiveBack(m) == \E to \in {"COOLDOWN", "AVAILABLE"} : SetLease(m, {"IN_USE"}, to)
CooldownOver(m) == SetLease(m, {"COOLDOWN"}, "AVAILABLE")

\* The provider, the account, the domain or the mail traffic is another.
Turn(m, r) ==
  /\ turns < MaxTurns /\ turns' = turns + 1
  /\ r \in Outcomes(adapter[m])
  /\ answer' = [answer EXCEPT ![m] = r]
  /\ UNCHANGED <<mailboxVars, guarded, check, last, streak, raced, edited, edits>>

-----------------------------------------------------------------------------
HealthNext ==
  \/ \E s \in Checkers :
       \/ \E m \in Accounts : ManualCheck(s, m) \/ ScheduledCheck(s, m) \/ SyncLoads(s, m)
       \/ Judge(s) \/ LastSyncFails(s) \/ SyncEnds(s)
       \/ CheckHangs(s) \/ CheckDies(s)
  \/ \E m \in Accounts :
       \/ \E status \in OperatorSets : SetStatus(m, status)
       \/ SetPool(m)
       \/ Lend(m) \/ GiveBack(m) \/ CooldownOver(m)
       \/ \E r \in Outcomes(adapter[m]) : Turn(m, r)

HealthSpec == HealthInit /\ [][HealthNext]_healthVars

\* A session that holds something goes on unless it dies or hangs, which one that asks
\* an IMAP server may for good; the scheduler has every mailbox checked again and again
\* as long as there is a session for it (the recovery puts back a check that is RUNNING
\* for too long).
HealthFairSpec ==
  /\ HealthSpec
  /\ \A s \in Checkers :
       WF_healthVars(Judge(s) \/ LastSyncFails(s) \/ SyncEnds(s))
  /\ \A m \in Accounts : SF_healthVars(\E s \in Checkers : ScheduledCheck(s, m))

-----------------------------------------------------------------------------
(* Properties *)

\* Every column has a value of its type; a score is a percentage.
HealthTypeOK ==
  /\ adapter \in [Accounts -> Adapters]
  /\ lifecycle \in [Accounts -> OperatorSets \cup {"IMPORTED", "READY", "IN_USE", "COOLDOWN", "AVAILABLE", "QUARANTINED"}]
  /\ health \in [Accounts -> {HealthOf(r) : r \in UNION {Outcomes(k) : k \in Adapters}} \cup {"WARNING", Unset}]
  /\ score \in [Accounts -> 0..100]
  /\ failureCount \in [Accounts -> 0..FailureCap]
  /\ guarded \in [Accounts -> BOOLEAN]

\* A mailbox that no two sessions have held at once shows what its newest check has
\* found, and as many failures as there have been since one passed; a sync that
\* gave up may have turned HEALTHY into WARNING.  (With two sessions neither holds:
\* each counts from its own copy and writes only what differs from that.)
ShowsItsChecks ==
  \A m \in Accounts \ raced :
    /\ failureCount[m] = streak[m] /\ score[m] = last[m].score
    /\ health[m] = last[m].health \/ (health[m] = "WARNING" /\ last[m].health \in {"HEALTHY", Unset})

\* Unless an operator steps in, a mailbox is in quarantine if and only if its pool
\* wants it and its last checks have failed as often as the pool allows: it goes in
\* from any other status, leased or not, and one check that passes lets it out.
QuarantinedByFailures ==
  \A m \in Accounts \ (raced \cup edited) :
    lifecycle[m] = "QUARANTINED" <=> guarded[m] /\ streak[m] >= FailureThreshold

\* A provider that is down for good brings its mailbox into quarantine, although
\* overlapping checks lose counts, sessions die, operators and leases change the status,
\* and a session may bring back an old count; but for servers that are silent instead,
\* and take all the sessions.
DownIsQuarantined ==
  \A m \in Accounts :
    (~Ok(answer[m]) /\ guarded[m] /\ lifecycle[m] # "ARCHIVED")
      ~> (lifecycle[m] = "QUARANTINED" \/ Ok(answer[m]) \/ ~guarded[m]
          \/ lifecycle[m] = "ARCHIVED"
          \/ \A s \in Checkers : check[s].op = "hung")
=============================================================================

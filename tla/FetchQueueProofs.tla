-------------------------- MODULE FetchQueueProofs --------------------------
(***************************************************************************)
(* Theorems about FetchQueue, for any numbers of jobs, workers, schedulers *)
(* and attempts.                                                           *)
(***************************************************************************)
EXTENDS FetchQueue, TLAPS

LEMMA JobTypes ==
  /\ None \notin Jobs
  /\ \A k \in TaskTypes, m \in Mailboxes : <<k, m, 0>> \in Jobs
  /\ \A k \in TaskTypes, m \in Mailboxes, b \in 0..LastBucket : <<k, m, b>> \in Jobs
  /\ \A j \in Jobs : <<j[1], j[2]>> \in TaskTypes \X Mailboxes
  /\ MaxAttempt \in Nat \ {0}
BY QueueAssumption DEF Jobs

\* Every row has a value of its type, and so have the copies the sessions hold.
LEMMA TypeStep ==
  ASSUME TypeOK, [Next]_vars
  PROVE  TypeOK'
<1> USE DEF TypeOK, States
<1>1. ASSUME NEW k \in TaskTypes, NEW m \in Mailboxes, CreateJob(k, m) PROVE TypeOK'
  BY <1>1, JobTypes DEF CreateJob, workVars, recVars
<1>2. ASSUME NEW k \in TaskTypes, NEW m \in Mailboxes, Age(k, m) PROVE TypeOK'
  BY <1>2 DEF Age, workVars, recVars
<1>3. ASSUME NEW s \in Schedulers, NEW k \in TaskTypes, ScheduleRead(s, k) PROVE TypeOK'
  <2> DEFINE keys == {<<k, m, bucket>> : m \in Overdue(k)}
  <2>1. \A x \in keys : x \in Jobs
    <3> TAKE x \in keys
    <3>1. PICK m \in Overdue(k) : x = <<k, m, bucket>>
      OBVIOUS
    <3>2. bucket \in 0..LastBucket
      BY <1>3, QueueAssumption DEF ScheduleRead
    <3> QED BY <3>1, <3>2, JobTypes DEF Overdue
  <2>2. plan' = [plan EXCEPT ![<<s, k>>] = keys]
    BY <1>3 DEF ScheduleRead
  <2>3. plan' \in [Schedulers \X TaskTypes -> SUBSET Jobs]
    BY <2>1, <2>2
  <2> QED BY <1>3, <2>3 DEF ScheduleRead, rowVars, workVars, recVars
<1>4. ASSUME NEW s \in Schedulers, NEW k \in TaskTypes, ScheduleCommit(s, k) PROVE TypeOK'
  <2>1. plan[<<s, k>>] \subseteq Jobs
    OBVIOUS
  <2>2. state' \in [Jobs -> States] /\ due' \subseteq Jobs
    BY <1>4, <2>1 DEF ScheduleCommit
  <2> QED BY <1>4, <2>2 DEF ScheduleCommit, workVars, recVars
<1>5. ASSUME NEW w \in Consumers, NEW claimed \in SUBSET Claimable, Claim(w, claimed)
      PROVE TypeOK'
  <2>1. claimed \subseteq Jobs
    BY DEF Claimable
  <2> QED BY <1>5, <2>1 DEF StaleAfter, Claim, recVars
<1>6. ASSUME NEW w \in Consumers, NEW j \in Jobs, Start(w, j) PROVE TypeOK'
  <2>1. batch' \in [Consumers -> SUBSET Jobs]
    BY <1>6 DEF Start
  <2>2. attempt[j] \in Nat
    OBVIOUS
  <2>3. run' \in [Consumers -> Jobs \cup {None}] /\ seen' \in [Consumers -> Nat]
    <3>1. CASE state[j] = "RUNNING"
      <4>1. run' = [run EXCEPT ![w] = j] /\ seen' = [seen EXCEPT ![w] = attempt[j]]
        BY <1>6, <3>1 DEF Start
      <4>2. run \in [Consumers -> Jobs \cup {None}] /\ seen \in [Consumers -> Nat]
        OBVIOUS
      <4> HIDE DEF TypeOK, States
      <4> QED BY <2>2, <4>1, <4>2
    <3>2. CASE state[j] # "RUNNING"
      BY <1>6, <3>2 DEF Start
    <3> QED BY <3>1, <3>2
  <2>4. UNCHANGED <<rowVars, hung, plan, recVars, retry, retried, prompt>>
    BY <1>6 DEF Start
  <2> QED BY <2>1, <2>3, <2>4 DEF rowVars, recVars
<1>7. ASSUME NEW w \in Consumers, Succeed(w) PROVE TypeOK'
  <2>1. run[w] \in Jobs
    BY <1>7 DEF Succeed
  <2> QED BY <1>7, <2>1, JobTypes DEF Succeed, recVars
<1>8. ASSUME NEW w \in Consumers, Fail(w) PROVE TypeOK'
  <2>1. run[w] \in Jobs /\ seen[w] + 1 \in Nat
    BY <1>8 DEF Outcome, Fail
  <2> QED BY <1>8, <2>1 DEF Outcome, Fail, recVars
<1>9. ASSUME NEW w \in Consumers, Break(w) PROVE TypeOK'
  BY <1>9 DEF Break, rowVars, recVars
<1>10. ASSUME NEW s \in Schedulers, RecoverRead(s) PROVE TypeOK'
  <2>1. [j \in Jobs |-> IF j \in Lost THEN attempt[j] ELSE 0]
          \in [Jobs -> Nat]
    BY DEF Lost
  <2> QED BY <1>10, <2>1 DEF Lost, RecoverRead, rowVars, workVars
<1>11. ASSUME NEW s \in Schedulers, RecoverCommit(s) PROVE TypeOK'
  <2>1. found[s] \subseteq Jobs /\ \A j \in found[s] : foundAt[s][j] + 1 \in Nat
    OBVIOUS
  <2>2. attempt' \in [Jobs -> Nat] /\ state' \in [Jobs -> States]
    BY <1>11, <2>1 DEF Outcome, RecoverCommit
  <2> QED BY <1>11, <2>2 DEF Outcome, RecoverCommit, workVars
<1>12. ASSUME NEW c \in Clients, NEW j \in Jobs, RetryRead(c, j) PROVE TypeOK'
  BY <1>12 DEF RetryRead, rowVars, workVars, recVars
<1>13. ASSUME NEW c \in Clients, RetryCommit(c) PROVE TypeOK'
  <2>1. retry[c] \in Jobs
    BY <1>13 DEF RetryCommit
  <2> QED BY <1>13, <2>1 DEF RetryCommit, workVars, recVars, Recovering
<1>14. ASSUME NEW j \in Jobs, BecomeDue(j) PROVE TypeOK'
  BY <1>14 DEF BecomeDue, workVars, recVars, Recovering
<1>15. ASSUME NEW j \in Jobs, BecomeStale(j) PROVE TypeOK'
  BY <1>15 DEF BecomeStale, workVars, recVars, InHand
<1>16. CASE NextBucket
  BY <1>16, QueueAssumption DEF NextBucket, workVars, recVars
<1>17. CASE UNCHANGED vars
  BY <1>17 DEF vars, rowVars, workVars, recVars
<1>18. ASSUME NEW w \in Consumers, WorkerHangs(w) PROVE TypeOK'
  BY <1>18 DEF WorkerHangs, rowVars, recVars
<1> QED
  BY <1>1, <1>2, <1>3, <1>4, <1>5, <1>6, <1>7, <1>8, <1>9, <1>10, <1>11, <1>12, <1>13, <1>14,
     <1>15, <1>16, <1>17, <1>18 DEF Next, WorkerStep, RecoverStep

LEMMA TypeInit == Init => TypeOK
BY QueueAssumption DEF Init, TypeOK, States

\* Every variable of the queue keeps its type.
THEOREM QueueTyping == Spec => []TypeOK
<1>1. TypeOK /\ [Next]_vars => TypeOK'
  BY TypeStep
<1> QED BY <1>1, TypeInit, PTL DEF Spec

-----------------------------------------------------------------------------
(* Attempts.  A worker or a recovery writes the attempt it has read plus   *)
(* one, so what it has read must be bounded like what is stored.           *)

Limit(j) == MaxAttempt + retried[j]

AttemptsInv ==
  /\ \A j \in Jobs : attempt[j] <= Limit(j)
  /\ \A j \in Jobs : state[j] \in PENDING_TASK_STATES \cup {"NONE"} => attempt[j] < Limit(j)
  /\ \A w \in Consumers, j \in Jobs : run[w] = j => seen[w] < Limit(j)
  /\ \A s \in Schedulers : \A j \in found[s] : foundAt[s][j] < Limit(j)

LEMMA LimitType == TypeOK => \A j \in Jobs : Limit(j) \in Nat /\ Limit(j) >= MaxAttempt
BY QueueAssumption DEF TypeOK, Limit

LEMMA AttemptsInit == Init => AttemptsInv
BY QueueAssumption DEF Init, AttemptsInv, Limit

LEMMA AttemptsStep ==
  ASSUME TypeOK, AttemptsInv, [Next]_vars
  PROVE  AttemptsInv'
<1> USE LimitType DEF AttemptsInv, PENDING_TASK_STATES
<1>1. ASSUME NEW k \in TaskTypes, NEW m \in Mailboxes, CreateJob(k, m) PROVE AttemptsInv'
  BY <1>1, JobTypes DEF CreateJob, workVars, recVars, TypeOK, Limit
<1>2. ASSUME NEW k \in TaskTypes, NEW m \in Mailboxes, Age(k, m) PROVE AttemptsInv'
  BY <1>2 DEF Age, workVars, recVars, Limit
<1>3. ASSUME NEW s \in Schedulers, NEW k \in TaskTypes, ScheduleRead(s, k) PROVE AttemptsInv'
  BY <1>3 DEF ScheduleRead, rowVars, workVars, recVars, Limit
<1>4. ASSUME NEW s \in Schedulers, NEW k \in TaskTypes, ScheduleCommit(s, k) PROVE AttemptsInv'
  <2>1. \A j \in Jobs : state'[j] # state[j] => state[j] = "NONE"
    BY <1>4 DEF ScheduleCommit, TypeOK
  <2> QED BY <1>4, <2>1 DEF ScheduleCommit, workVars, recVars, Limit
<1>5. ASSUME NEW w \in Consumers, NEW claimed \in SUBSET Claimable, Claim(w, claimed)
      PROVE AttemptsInv'
  <2>1. \A j \in Jobs : state'[j] # state[j] => state[j] \in {"QUEUED", "RETRYING"}
    BY <1>5 DEF StaleAfter, Claim, Claimable, TypeOK
  <2> QED BY <1>5, <2>1 DEF StaleAfter, Claim, recVars, Limit
<1>6. ASSUME NEW w \in Consumers, NEW j \in Jobs, Start(w, j) PROVE AttemptsInv'
  <2>1. \A v \in Consumers, i \in Jobs : run'[v] = i => seen'[v] < Limit(i)
    BY <1>6 DEF Start, TypeOK
  <2> QED BY <1>6, <2>1 DEF Start, rowVars, recVars, Limit
<1>7. ASSUME NEW w \in Consumers, Succeed(w) PROVE AttemptsInv'
  <2>1. run[w] \in Jobs
    BY <1>7 DEF Succeed, TypeOK
  <2>2. \A v \in Consumers, i \in Jobs : run'[v] = i => seen'[v] < Limit(i)
    BY <1>7, JobTypes DEF Succeed, TypeOK
  <2> QED BY <1>7, <2>1, <2>2 DEF Succeed, recVars, Limit, TypeOK
<1>8. ASSUME NEW w \in Consumers, Fail(w) PROVE AttemptsInv'
  <2>1. PICK i \in Jobs : run[w] = i
    BY <1>8 DEF Outcome, Fail, TypeOK
  <2>2. seen[w] \in Nat /\ seen[w] + 1 <= Limit(i) /\ Limit(i) \in Nat
    BY <2>1 DEF TypeOK
  <2>3. \A v \in Consumers, j \in Jobs : run'[v] = j => seen'[v] < Limit(j)
    BY <1>8, JobTypes DEF Outcome, Fail, TypeOK
  <2>4. \A j \in Jobs : j # i => attempt'[j] = attempt[j] /\ state'[j] = state[j]
    BY <1>8, <2>1 DEF Outcome, Fail, TypeOK
  <2>5. /\ attempt'[i] = seen[w] + 1
        /\ state'[i] = "FAILED" \/ (state'[i] = "RETRYING" /\ seen[w] + 1 < MaxAttempt)
    BY <1>8, <2>1, <2>2, JobTypes DEF Outcome, Fail, TypeOK
  <2>6. attempt'[i] <= Limit(i) /\ (state'[i] = "RETRYING" => attempt'[i] < Limit(i))
    BY <2>2, <2>5, JobTypes
  <2>7. \A j \in Jobs : /\ attempt'[j] <= Limit(j)
                        /\ state'[j] \in PENDING_TASK_STATES \cup {"NONE"} => attempt'[j] < Limit(j)
    BY <2>4, <2>5, <2>6
  <2> QED BY <1>8, <2>3, <2>7 DEF Outcome, Fail, recVars, Limit
<1>9. ASSUME NEW w \in Consumers, Break(w) PROVE AttemptsInv'
  <2>1. \A v \in Consumers, i \in Jobs : run'[v] = i => seen'[v] < Limit(i)
    BY <1>9, JobTypes DEF Break, TypeOK
  <2> QED BY <1>9, <2>1 DEF Break, rowVars, recVars, Limit
<1>10. ASSUME NEW s \in Schedulers, RecoverRead(s) PROVE AttemptsInv'
  <2>1. \A r \in Schedulers : \A j \in found'[r] : foundAt'[r][j] < Limit(j)
    BY <1>10 DEF Lost, RecoverRead, TypeOK
  <2> QED BY <1>10, <2>1 DEF Lost, RecoverRead, rowVars, workVars, Limit
<1>11. ASSUME NEW s \in Schedulers, RecoverCommit(s) PROVE AttemptsInv'
  <2>1. \A j \in found[s] : foundAt[s][j] \in Nat /\ foundAt[s][j] < Limit(j)
    BY DEF TypeOK
  <2>2. \A r \in Schedulers : \A j \in found'[r] : foundAt'[r][j] < Limit(j)
    BY <1>11 DEF Outcome, RecoverCommit, TypeOK
  <2>3. \A j \in Jobs : /\ attempt'[j] <= Limit(j)
                        /\ state'[j] \in PENDING_TASK_STATES \cup {"NONE"} => attempt'[j] < Limit(j)
    BY <1>11, <2>1 DEF Outcome, RecoverCommit, TypeOK
  <2> QED BY <1>11, <2>2, <2>3 DEF Outcome, RecoverCommit, workVars, Limit
<1>12. ASSUME NEW c \in Clients, NEW j \in Jobs, RetryRead(c, j) PROVE AttemptsInv'
  BY <1>12 DEF RetryRead, rowVars, workVars, recVars, Limit
<1>13. ASSUME NEW c \in Clients, RetryCommit(c) PROVE AttemptsInv'
  <2>1. PICK i \in Jobs : retry[c] = i
    BY <1>13 DEF RetryCommit, TypeOK
  <2>2. \A j \in Jobs : Limit(j)' >= Limit(j) /\ Limit(j)' \in Nat
    BY <1>13, <2>1, QueueAssumption DEF RetryCommit, TypeOK, Limit
  <2>3. Limit(i)' > Limit(i)
    BY <1>13, <2>1, QueueAssumption DEF RetryCommit, TypeOK, Limit
  <2>4. \A j \in Jobs : j # i => state'[j] = state[j]
    BY <1>13, <2>1 DEF RetryCommit, TypeOK
  <2>5. /\ attempt' = attempt /\ run' = run /\ seen' = seen
        /\ found' = found /\ foundAt' = foundAt
    BY <1>13 DEF RetryCommit, workVars, recVars
  <2>6. \A j \in Jobs : attempt'[j] \in Nat /\ attempt'[j] <= Limit(j)'
    BY <2>2, <2>5 DEF TypeOK
  <2>7. \A j \in Jobs : state'[j] \in PENDING_TASK_STATES \cup {"NONE"} => attempt'[j] < Limit(j)'
    <3> TAKE j \in Jobs
    <3>1. CASE j = i
      BY <3>1, <2>3, <2>2, <2>5 DEF TypeOK
    <3>2. CASE j # i
      BY <3>2, <2>2, <2>4, <2>5 DEF TypeOK
    <3> QED BY <3>1, <3>2
  <2>8. \A w \in Consumers, j \in Jobs : run'[w] = j => seen'[w] < Limit(j)'
    BY <2>2, <2>5 DEF TypeOK
  <2>9. \A s \in Schedulers : \A j \in found'[s] : foundAt'[s][j] < Limit(j)'
    BY <2>2, <2>5 DEF TypeOK
  <2> QED BY <2>6, <2>7, <2>8, <2>9
<1>14. ASSUME NEW j \in Jobs, BecomeDue(j) PROVE AttemptsInv'
  BY <1>14 DEF BecomeDue, workVars, recVars, Limit
<1>15. ASSUME NEW j \in Jobs, BecomeStale(j) PROVE AttemptsInv'
  BY <1>15 DEF BecomeStale, workVars, recVars, Limit
<1>16. CASE NextBucket
  BY <1>16 DEF NextBucket, workVars, recVars, Limit
<1>17. CASE UNCHANGED vars
  BY <1>17 DEF vars, rowVars, workVars, recVars, Limit
<1>18. ASSUME NEW w \in Consumers, WorkerHangs(w) PROVE AttemptsInv'
  BY <1>18 DEF WorkerHangs, rowVars, recVars, Limit
<1> QED
  BY <1>1, <1>2, <1>3, <1>4, <1>5, <1>6, <1>7, <1>8, <1>9, <1>10, <1>11, <1>12, <1>13, <1>14,
     <1>15, <1>16, <1>17, <1>18 DEF Next, WorkerStep, RecoverStep

\* However late workers and recoveries commit, and however often a job is retried
\* by hand, attempts are bounded (execute_task, _sweep_stale_running).
THEOREM AttemptsLimit == Spec => []JobAttemptsBounded
<1>1. TypeOK /\ AttemptsInv /\ [Next]_vars => AttemptsInv'
  BY AttemptsStep
<1>2. AttemptsInv => JobAttemptsBounded
  BY DEF AttemptsInv, JobAttemptsBounded, Limit
<1> QED BY <1>1, <1>2, AttemptsInit, QueueTyping, PTL DEF Spec

-----------------------------------------------------------------------------
(* Exclusion.  While handlers are prompt, a job in a worker's hand is      *)
(* RUNNING and not stale; so no recovery holds it, nobody can claim it,    *)
(* and nobody else changes it.                                             *)

Has(w, j) == run[w] = j \/ j \in batch[w]

HandInv ==
  \A v, w \in Consumers, j \in Jobs :
    /\ Has(v, j) /\ Has(w, j) => v = w
    /\ ~(run[w] = j /\ j \in batch[w])
    /\ Has(w, j) => state[j] = "RUNNING" /\ j \notin stale

\* What a recovery has read is still so, or another recovery has done the same.
FoundInv ==
  \A s \in Schedulers : \A j \in found[s] :
    \/ state[j] = "RUNNING" /\ j \in stale /\ attempt[j] = foundAt[s][j]
    \/ /\ state[j] = "RETRYING" /\ j \notin due
       /\ attempt[j] = foundAt[s][j] + 1 /\ attempt[j] < MaxAttempt
    \/ state[j] = "FAILED" /\ attempt[j] = foundAt[s][j] + 1 /\ attempt[j] >= MaxAttempt

RetryInv == \A c \in Clients, j \in Jobs : retry[c] = j => state[j] = "FAILED"

ExclusionInv == prompt => HandInv /\ FoundInv /\ RetryInv

\* No two operators put a job back at once: the second retry of a job that both have
\* read FAILED could put it back after it has been claimed.
RetriesApart == \A c, d \in Clients : retry[c] # None /\ retry[c] = retry[d] => c = d

LEMMA ExclusionInit == Init => ExclusionInv
BY JobTypes DEF Init, ExclusionInv, HandInv, FoundInv, RetryInv, Has

\* A step of which every job it moves was in nobody's hand, and which leaves the
\* hands alone, keeps the invariant.
LEMMA RowsOnly ==
  ASSUME TypeOK, ExclusionInv, UNCHANGED <<batch, run, found, foundAt, retry, attempt, stale>>,
         prompt' => prompt,
         \A j \in Jobs : state'[j] # state[j] => state[j] \in {"NONE", "SUCCESS"},
         \A j \in Jobs : j \in due' /\ j \notin due =>
           state[j] = "NONE" \/ (prompt' => ~Recovering(j))
  PROVE  ExclusionInv'
<1> SUFFICES ASSUME prompt' PROVE (HandInv /\ FoundInv /\ RetryInv)'
  BY DEF ExclusionInv
<1>1. HandInv /\ FoundInv /\ RetryInv
  BY DEF ExclusionInv
<1>2. HandInv'
  BY <1>1 DEF HandInv, Has
<1>3. FoundInv'
  BY <1>1 DEF FoundInv, Recovering, TypeOK
<1>4. RetryInv'
  BY <1>1 DEF RetryInv
<1> QED BY <1>2, <1>3, <1>4

LEMMA ExclusionStep ==
  ASSUME RetriesApart, TypeOK, ExclusionInv, [Next]_vars
  PROVE  ExclusionInv'
<1>1. ASSUME NEW k \in TaskTypes, NEW m \in Mailboxes, CreateJob(k, m) PROVE ExclusionInv'
  BY <1>1, RowsOnly, JobTypes DEF CreateJob, workVars, recVars, TypeOK
<1>2. ASSUME NEW k \in TaskTypes, NEW m \in Mailboxes, Age(k, m) PROVE ExclusionInv'
  BY <1>2, RowsOnly DEF Age, workVars, recVars
<1>3. ASSUME NEW s \in Schedulers, NEW k \in TaskTypes, ScheduleRead(s, k) PROVE ExclusionInv'
  BY <1>3, RowsOnly DEF ScheduleRead, rowVars, workVars, recVars
<1>4. ASSUME NEW s \in Schedulers, NEW k \in TaskTypes, ScheduleCommit(s, k) PROVE ExclusionInv'
  <2>1. \A j \in Jobs : state'[j] # state[j] => state[j] = "NONE"
    BY <1>4 DEF ScheduleCommit, TypeOK
  <2>2. \A j \in Jobs : j \in due' /\ j \notin due => state[j] = "NONE"
    BY <1>4 DEF ScheduleCommit
  <2> QED BY <1>4, <2>1, <2>2, RowsOnly DEF ScheduleCommit, workVars, recVars
<1>5. ASSUME NEW w \in Consumers, NEW claimed \in SUBSET Claimable, Claim(w, claimed)
      PROVE ExclusionInv'
  <2> SUFFICES ASSUME prompt' PROVE (HandInv /\ FoundInv /\ RetryInv)'
    BY DEF ExclusionInv
  <2>1. HandInv /\ FoundInv /\ RetryInv
    BY <1>5 DEF StaleAfter, Claim, ExclusionInv
  <2>2. \A j \in claimed : j \in Jobs /\ j \in due /\ state[j] \in {"QUEUED", "RETRYING"}
    BY DEF Claimable, TypeOK
  <2>3. \A j \in claimed : (\A v \in Consumers : ~Has(v, j)) /\ (\A s \in Schedulers : j \notin found[s])
    BY <2>1, <2>2 DEF HandInv, FoundInv
  <2>4. /\ state' = [j \in Jobs |-> IF j \in claimed THEN "RUNNING" ELSE state[j]]
        /\ stale' = stale \ claimed
        /\ batch' = [batch EXCEPT ![w] = claimed]
        /\ batch[w] = {} /\ run[w] = None
        /\ UNCHANGED <<run, attempt, due, found, foundAt, retry>>
    BY <1>5 DEF StaleAfter, Claim, recVars
  <2>5. HandInv'
    <3> SUFFICES ASSUME NEW u \in Consumers, NEW v \in Consumers, NEW j \in Jobs
                 PROVE  /\ Has(u, j)' /\ Has(v, j)' => u = v
                        /\ ~(run'[v] = j /\ j \in batch'[v])
                        /\ Has(v, j)' => state'[j] = "RUNNING" /\ j \notin stale'
      BY DEF HandInv
    <3>1. CASE j \in claimed
      BY <3>1, <2>3, <2>4 DEF Has, TypeOK
    <3>2. CASE j \notin claimed
      BY <3>2, <2>1, <2>4 DEF Has, HandInv, TypeOK
    <3> QED BY <3>1, <3>2
  <2>6. FoundInv'
    BY <2>1, <2>3, <2>4 DEF FoundInv, TypeOK
  <2>7. RetryInv'
    BY <2>1, <2>2, <2>4 DEF RetryInv, TypeOK
  <2> QED BY <2>5, <2>6, <2>7
<1>6. ASSUME NEW w \in Consumers, NEW j \in Jobs, Start(w, j) PROVE ExclusionInv'
  <2> SUFFICES ASSUME prompt' PROVE (HandInv /\ FoundInv /\ RetryInv)'
    BY DEF ExclusionInv
  <2>1. HandInv /\ FoundInv /\ RetryInv /\ prompt
    BY <1>6 DEF Start, ExclusionInv
  <2>2. UNCHANGED <<state, attempt, due, stale, found, foundAt, retry>>
    BY <1>6 DEF Start, rowVars, recVars
  <2>3. \A v \in Consumers, i \in Jobs : Has(v, i)' => Has(v, i)
    BY <1>6 DEF Start, Has, TypeOK
  <2>4. \A v \in Consumers, i \in Jobs : ~(run'[v] = i /\ i \in batch'[v])
    BY <1>6, <2>1 DEF Start, HandInv, TypeOK
  <2>5. HandInv'
    BY <2>1, <2>2, <2>3, <2>4 DEF HandInv
  <2> QED BY <2>1, <2>2, <2>5 DEF FoundInv, RetryInv
<1>7. ASSUME NEW w \in Consumers, Succeed(w) PROVE ExclusionInv'
  <2> SUFFICES ASSUME prompt' PROVE (HandInv /\ FoundInv /\ RetryInv)'
    BY DEF ExclusionInv
  <2>1. HandInv /\ FoundInv /\ RetryInv
    BY <1>7 DEF Succeed, ExclusionInv
  <2>2. PICK i \in Jobs : run[w] = i
    BY <1>7 DEF Succeed, TypeOK
  <2>3. /\ \A j \in Jobs : j # i => state'[j] = state[j]
        /\ run' = [run EXCEPT ![w] = None]
        /\ UNCHANGED <<attempt, due, stale, batch, found, foundAt, retry>>
    BY <1>7, <2>2 DEF Succeed, recVars, TypeOK
  <2>4. /\ state[i] = "RUNNING" /\ i \notin stale /\ i \notin batch[w]
        /\ \A v \in Consumers : Has(v, i) => v = w
    BY <2>1, <2>2 DEF HandInv, Has
  <2>5. HandInv'
    BY <2>1, <2>2, <2>3, <2>4, JobTypes DEF HandInv, Has, TypeOK
  <2>6. FoundInv'
    BY <2>1, <2>3, <2>4 DEF FoundInv, TypeOK
  <2>7. RetryInv'
    BY <2>1, <2>3, <2>4 DEF RetryInv, TypeOK
  <2> QED BY <2>5, <2>6, <2>7
<1>8. ASSUME NEW w \in Consumers, Fail(w) PROVE ExclusionInv'
  <2> SUFFICES ASSUME prompt' PROVE (HandInv /\ FoundInv /\ RetryInv)'
    BY DEF ExclusionInv
  <2>1. HandInv /\ FoundInv /\ RetryInv
    BY <1>8 DEF Outcome, Fail, ExclusionInv
  <2>2. PICK i \in Jobs : run[w] = i
    BY <1>8 DEF Outcome, Fail, TypeOK
  <2>3. /\ \A j \in Jobs : j # i => state'[j] = state[j] /\ attempt'[j] = attempt[j]
        /\ \A j \in Jobs : j # i => (j \in due' <=> j \in due)
        /\ run' = [run EXCEPT ![w] = None]
        /\ UNCHANGED <<stale, batch, found, foundAt, retry>>
    BY <1>8, <2>2 DEF Outcome, Fail, recVars, TypeOK
  <2>4. /\ state[i] = "RUNNING" /\ i \notin stale /\ i \notin batch[w]
        /\ \A v \in Consumers : Has(v, i) => v = w
    BY <2>1, <2>2 DEF HandInv, Has
  <2>5. HandInv'
    BY <2>1, <2>2, <2>3, <2>4, JobTypes DEF HandInv, Has, TypeOK
  <2>6. FoundInv'
    BY <2>1, <2>3, <2>4 DEF FoundInv, TypeOK
  <2>7. RetryInv'
    BY <2>1, <2>3, <2>4 DEF RetryInv, TypeOK
  <2> QED BY <2>5, <2>6, <2>7
<1>9. ASSUME NEW w \in Consumers, Break(w) PROVE ExclusionInv'
  <2> SUFFICES ASSUME prompt' PROVE (HandInv /\ FoundInv /\ RetryInv)'
    BY DEF ExclusionInv
  <2>1. HandInv /\ FoundInv /\ RetryInv
    BY <1>9 DEF Break, ExclusionInv
  <2>2. UNCHANGED <<state, attempt, due, stale, found, foundAt, retry>>
    BY <1>9 DEF Break, rowVars, recVars
  <2>3. \A v \in Consumers, i \in Jobs : (Has(v, i)' => Has(v, i))
                                   /\ (run'[v] = i => run[v] = i)
                                   /\ (i \in batch'[v] => i \in batch[v])
    BY <1>9, JobTypes DEF Break, Has, TypeOK
  <2>4. HandInv'
    BY <2>1, <2>2, <2>3 DEF HandInv
  <2> QED BY <2>1, <2>2, <2>4 DEF FoundInv, RetryInv
<1>10. ASSUME NEW s \in Schedulers, RecoverRead(s) PROVE ExclusionInv'
  <2> SUFFICES ASSUME prompt' PROVE (HandInv /\ FoundInv /\ RetryInv)'
    BY DEF ExclusionInv
  <2>1. HandInv /\ FoundInv /\ RetryInv
    BY <1>10 DEF Lost, RecoverRead, ExclusionInv
  <2>2. UNCHANGED <<state, attempt, due, stale, batch, run, retry>>
    BY <1>10 DEF Lost, RecoverRead, rowVars, workVars
  <2>3. FoundInv'
    BY <1>10, <2>1, <2>2 DEF Lost, RecoverRead, FoundInv, TypeOK
  <2> QED BY <2>1, <2>2, <2>3 DEF HandInv, Has, RetryInv
<1>11. ASSUME NEW s \in Schedulers, RecoverCommit(s) PROVE ExclusionInv'
  <2> SUFFICES ASSUME prompt' PROVE (HandInv /\ FoundInv /\ RetryInv)'
    BY DEF ExclusionInv
  <2>1. HandInv /\ FoundInv /\ RetryInv
    BY <1>11 DEF Outcome, RecoverCommit, ExclusionInv
  <2>2. UNCHANGED <<stale, batch, run, retry>> /\ found[s] \subseteq Jobs
    BY <1>11 DEF Outcome, RecoverCommit, workVars, TypeOK
  <2>3. \A j \in Jobs : j \notin found[s] =>
          state'[j] = state[j] /\ attempt'[j] = attempt[j] /\ (j \in due' <=> j \in due)
    BY <1>11 DEF Outcome, RecoverCommit, TypeOK
  <2>4. \A j \in found[s] :
          /\ attempt'[j] = foundAt[s][j] + 1 /\ foundAt[s][j] \in Nat
          /\ \/ foundAt[s][j] + 1 >= MaxAttempt /\ state'[j] = "FAILED"
             \/ foundAt[s][j] + 1 < MaxAttempt /\ state'[j] = "RETRYING" /\ j \notin due'
    BY <1>11, <2>2, JobTypes DEF Outcome, RecoverCommit, TypeOK
  <2>5. \A j \in found[s], w \in Consumers : ~Has(w, j)
    BY <2>1, <2>2 DEF HandInv, FoundInv
  <2>6. HandInv'
    BY <2>1, <2>2, <2>3, <2>5 DEF HandInv, Has
  <2>7. FoundInv'
    <3> SUFFICES ASSUME NEW r \in Schedulers, NEW j \in found'[r]
                 PROVE  \/ state'[j] = "RUNNING" /\ j \in stale' /\ attempt'[j] = foundAt'[r][j]
                        \/ /\ state'[j] = "RETRYING" /\ j \notin due'
                           /\ attempt'[j] = foundAt'[r][j] + 1 /\ attempt'[j] < MaxAttempt
                        \/ /\ state'[j] = "FAILED" /\ attempt'[j] = foundAt'[r][j] + 1
                           /\ attempt'[j] >= MaxAttempt
      BY DEF FoundInv
    <3>1. /\ r # s /\ j \in found[r] /\ j \in Jobs
          /\ foundAt'[r][j] = foundAt[r][j] /\ foundAt[r][j] \in Nat
      BY <1>11 DEF Outcome, RecoverCommit, TypeOK
    <3>2. CASE j \notin found[s]
      BY <3>1, <3>2, <2>1, <2>2, <2>3 DEF FoundInv
    <3>3. CASE j \in found[s]
      <4>0. \A q \in {r, s} :
              \/ state[j] = "RUNNING" /\ attempt[j] = foundAt[q][j]
              \/ state[j] \in {"RETRYING", "FAILED"} /\ attempt[j] = foundAt[q][j] + 1
        BY <3>1, <3>3, <2>1 DEF FoundInv
      <4>1. foundAt[r][j] = foundAt[s][j]
        BY <4>0, <3>1, <3>3, <2>4
      <4> QED BY <4>1, <3>1, <3>3, <2>4, JobTypes
    <3> QED BY <3>2, <3>3
  <2>8. RetryInv'
    <3> SUFFICES ASSUME NEW c \in Clients, NEW j \in Jobs, retry'[c] = j
                 PROVE  state'[j] = "FAILED"
      BY DEF RetryInv
    <3>1. state[j] = "FAILED"
      BY <2>1, <2>2 DEF RetryInv
    <3>2. CASE j \notin found[s]
      BY <3>1, <3>2, <2>3
    <3>3. CASE j \in found[s]
      BY <3>1, <3>3, <2>1, <2>4, JobTypes DEF FoundInv
    <3> QED BY <3>2, <3>3
  <2> QED BY <2>6, <2>7, <2>8
<1>12. ASSUME NEW c \in Clients, NEW j \in Jobs, RetryRead(c, j) PROVE ExclusionInv'
  <2> SUFFICES ASSUME prompt' PROVE (HandInv /\ FoundInv /\ RetryInv)'
    BY DEF ExclusionInv
  <2>1. HandInv /\ FoundInv /\ RetryInv
    BY <1>12 DEF RetryRead, ExclusionInv
  <2>2. UNCHANGED <<state, attempt, due, stale, batch, run, found, foundAt>>
    BY <1>12 DEF RetryRead, rowVars, workVars, recVars
  <2>3. RetryInv'
    BY <1>12, <2>1, <2>2 DEF RetryRead, RetryInv, TypeOK
  <2> QED BY <2>1, <2>2, <2>3 DEF HandInv, Has, FoundInv
<1>13. ASSUME NEW c \in Clients, RetryCommit(c) PROVE ExclusionInv'
  <2> SUFFICES ASSUME prompt' PROVE (HandInv /\ FoundInv /\ RetryInv)'
    BY DEF ExclusionInv
  <2>1. HandInv /\ FoundInv /\ RetryInv
    BY <1>13 DEF RetryCommit, ExclusionInv
  <2>2. PICK i \in Jobs : retry[c] = i
    BY <1>13 DEF RetryCommit, TypeOK
  <2>3. /\ \A j \in Jobs : j # i => state'[j] = state[j] /\ (j \in due' <=> j \in due)
        /\ ~Recovering(i)
        /\ UNCHANGED <<stale, attempt, batch, run, found, foundAt>>
    BY <1>13, <2>2 DEF RetryCommit, workVars, recVars, TypeOK
  <2>4. state[i] = "FAILED"
    BY <2>1, <2>2 DEF RetryInv
  <2>5. HandInv'
    BY <2>1, <2>3, <2>4 DEF HandInv, Has
  <2>6. FoundInv'
    BY <2>1, <2>3 DEF FoundInv, Recovering, TypeOK
  <2>7. RetryInv'
    <3>1. ASSUME NEW d \in Clients, NEW j \in Jobs, retry'[d] = j PROVE state'[j] = "FAILED"
      <4>1. j # None /\ i # None
        BY JobTypes
      <4>2. d # c /\ retry[d] = j
        BY <1>13, <3>1, <4>1 DEF RetryCommit, TypeOK
      <4>3. j # i
        BY <2>2, <4>1, <4>2 DEF RetriesApart
      <4>. QED  BY <2>1, <2>3, <4>2, <4>3 DEF RetryInv
    <3>. QED  BY <3>1 DEF RetryInv
  <2> QED BY <2>5, <2>6, <2>7
<1>14. ASSUME NEW j \in Jobs, BecomeDue(j) PROVE ExclusionInv'
  BY <1>14, RowsOnly DEF BecomeDue, workVars, recVars, TypeOK
<1>15. ASSUME NEW j \in Jobs, BecomeStale(j) PROVE ExclusionInv'
  <2> SUFFICES ASSUME prompt' PROVE (HandInv /\ FoundInv /\ RetryInv)'
    BY DEF ExclusionInv
  <2>1. HandInv /\ FoundInv /\ RetryInv /\ ~InHand(j)
    BY <1>15 DEF BecomeStale, ExclusionInv, TypeOK
  <2>2. stale' = stale \cup {j} /\ UNCHANGED <<state, attempt, due, batch, run, found, foundAt, retry>>
    BY <1>15 DEF BecomeStale, workVars, recVars
  <2>3. HandInv'
    BY <2>1, <2>2 DEF HandInv, Has, InHand
  <2>4. FoundInv'
    BY <2>1, <2>2 DEF FoundInv
  <2> QED BY <2>1, <2>2, <2>3, <2>4 DEF RetryInv
<1>16. CASE NextBucket
  BY <1>16, RowsOnly DEF NextBucket, workVars, recVars
<1>17. CASE UNCHANGED vars
  BY <1>17, RowsOnly DEF vars, rowVars, workVars, recVars
<1>18. ASSUME NEW w \in Consumers, WorkerHangs(w) PROVE ExclusionInv'
  BY <1>18, RowsOnly DEF WorkerHangs, rowVars, recVars
<1> QED
  BY <1>1, <1>2, <1>3, <1>4, <1>5, <1>6, <1>7, <1>8, <1>9, <1>10, <1>11, <1>12, <1>13, <1>14,
     <1>15, <1>16, <1>17, <1>18 DEF Next, WorkerStep, RecoverStep

\* So it holds as long as retries are apart.
LEMMA ExclusionAlways == Spec /\ []RetriesApart => []ExclusionInv
<1>1. RetriesApart /\ TypeOK /\ ExclusionInv /\ [Next]_vars => ExclusionInv'
  BY ExclusionStep
<1> QED BY <1>1, ExclusionInit, QueueTyping, PTL DEF Spec

\* However many operators there are, unless two of them put a job back at once, and
\* handlers that do not outlast the delays they rely upon: then a job is in the hand of
\* one worker (claim_due_tasks, _queue_consumer).
THEOREM Exclusion == Spec /\ []RetriesApart => []ExclusiveExecution
<1>1. ExclusionInv => ExclusiveExecution
  BY DEF ExclusionInv, HandInv, Has, ExclusiveExecution
<1> QED BY <1>1, ExclusionAlways, PTL

\* Under the same conditions no step takes a job out of SUCCESS.
THEOREM SuccessStays == Spec /\ []RetriesApart => SuccessKept
<1>1. TypeOK /\ ExclusionInv /\ [Next]_vars =>
        [\A j \in Jobs : prompt /\ state[j] = "SUCCESS" => state'[j] = "SUCCESS"]_vars
  <2> SUFFICES ASSUME TypeOK, ExclusionInv, [Next]_vars, prompt,
                      NEW j \in Jobs, state[j] = "SUCCESS"
               PROVE  state'[j] = "SUCCESS"
    BY Zenon
  <2>1. HandInv /\ FoundInv /\ RetryInv
    BY DEF ExclusionInv
  <2>2. /\ \A w \in Consumers : run[w] # j
        /\ \A s \in Schedulers : j \notin found[s]
        /\ \A c \in Clients : retry[c] # j
    BY <2>1 DEF HandInv, Has, FoundInv, RetryInv
  <2>3. ASSUME NEW k \in TaskTypes, NEW m \in Mailboxes, CreateJob(k, m) \/ Age(k, m)
        PROVE  state'[j] = "SUCCESS"
    BY <2>3 DEF CreateJob, Age, TypeOK
  <2>4. ASSUME NEW s \in Schedulers, NEW k \in TaskTypes, ScheduleRead(s, k) \/ ScheduleCommit(s, k)
        PROVE  state'[j] = "SUCCESS"
    BY <2>4 DEF ScheduleRead, ScheduleCommit, rowVars
  <2>5. ASSUME NEW w \in Consumers, WorkerStep(w) \/ WorkerHangs(w) \/ Break(w)
        PROVE  state'[j] = "SUCCESS"
    BY <2>5, <2>2 DEF WorkerStep, Claim, Claimable, Start, Succeed, Fail, WorkerHangs, Break, rowVars,
                        TypeOK
  <2>6. ASSUME NEW s \in Schedulers, RecoverStep(s)
        PROVE  state'[j] = "SUCCESS"
    BY <2>6, <2>2 DEF RecoverStep, RecoverRead, RecoverCommit, rowVars
  <2>7. ASSUME NEW c \in Clients, (\E i \in Jobs : RetryRead(c, i)) \/ RetryCommit(c)
        PROVE  state'[j] = "SUCCESS"
    BY <2>7, <2>2 DEF RetryRead, RetryCommit, rowVars, TypeOK
  <2>8. ASSUME NEW i \in Jobs, BecomeDue(i) \/ BecomeStale(i)
        PROVE  state'[j] = "SUCCESS"
    BY <2>8 DEF BecomeDue, BecomeStale
  <2>9. CASE NextBucket \/ UNCHANGED vars
    BY <2>9 DEF NextBucket, vars, rowVars
  <2> QED BY <2>3, <2>4, <2>5, <2>6, <2>7, <2>8, <2>9 DEF Next
<1> QED BY <1>1, ExclusionAlways, QueueTyping, PTL DEF Spec, SuccessKept

-----------------------------------------------------------------------------
(* One pending job per mailbox *)

\* No two schedulers insert jobs of a kind at once: the second would not see those the
\* first is about to insert, of another period.
RoundsApart ==
  \A s, t \in Schedulers, k \in TaskTypes : plan[<<s, k>>] # {} /\ plan[<<t, k>>] # {} => s = t

\* Two jobs of the loops for one mailbox, in different periods.
Rivals(i, j) ==
  i # j /\ i[1] = j[1] /\ i[2] = j[2] /\ i[3] # 0 /\ j[3] # 0 /\ retried[i] = 0 /\ retried[j] = 0

\* What makes OnePending inductive: a job that is about to be inserted has no pending
\* rival, as when the round has looked.
PlanInv ==
  prompt =>
    \A s \in Schedulers, k \in TaskTypes : \A j \in plan[<<s, k>>] :
      /\ j[1] = k
      /\ \A i \in plan[<<s, k>>] : i[2] = j[2] => i = j
      /\ \A i \in Jobs : Rivals(i, j) => state[i] \notin PENDING_TASK_STATES

\* While handlers are prompt, a job that has ended comes back by an operator's retry only.
LEMMA NoComeback ==
  ASSUME TypeOK, ExclusionInv, [Next]_vars, prompt',
         \A s \in Schedulers, k \in TaskTypes : ~ScheduleCommit(s, k)
  PROVE  /\ prompt
         /\ \A j \in Jobs : retried'[j] = 0 => retried[j] = 0
         /\ \A j \in Jobs : /\ j[3] # 0 /\ retried'[j] = 0
                            /\ state'[j] \in PENDING_TASK_STATES
                            => state[j] \in PENDING_TASK_STATES
<1>. USE DEF TypeOK, PENDING_TASK_STATES
<1>. DEFINE Goal ==
              /\ prompt
              /\ \A j \in Jobs : retried'[j] = 0 => retried[j] = 0
              /\ \A j \in Jobs : /\ j[3] # 0 /\ retried'[j] = 0
                                 /\ state'[j] \in PENDING_TASK_STATES
                                 => state[j] \in PENDING_TASK_STATES
<1>. SUFFICES Goal
  OBVIOUS
<1>a. prompt
  BY DEF Next, CreateJob, Age, ScheduleRead, WorkerStep, Claim, Start, Succeed, Fail, WorkerHangs, Break,
         RecoverStep, RecoverRead, RecoverCommit, RetryRead, RetryCommit, BecomeDue, BecomeStale,
         NextBucket, vars
<1>b. HandInv /\ FoundInv /\ RetryInv
  BY <1>a DEF ExclusionInv
<1>1. ASSUME NEW k \in TaskTypes, NEW m \in Mailboxes, CreateJob(k, m) PROVE Goal
  <2>1. /\ UNCHANGED retried
        /\ \A j \in Jobs : j[3] # 0 => state'[j] = state[j]
    BY <1>1, JobTypes DEF CreateJob
  <2>. QED  BY <1>a, <2>1
<1>2. CASE \/ \E k \in TaskTypes, m \in Mailboxes : Age(k, m)
           \/ \E s \in Schedulers, k \in TaskTypes : ScheduleRead(s, k)
           \/ \E w \in Consumers : WorkerHangs(w) \/ Break(w) \/ \E j \in Jobs : Start(w, j)
           \/ \E s \in Schedulers : RecoverRead(s)
           \/ \E c \in Clients, j \in Jobs : RetryRead(c, j)
           \/ \E j \in Jobs : BecomeDue(j) \/ BecomeStale(j)
           \/ NextBucket \/ UNCHANGED vars
  <2>1. UNCHANGED <<state, retried>>
    BY <1>2 DEF Age, ScheduleRead, WorkerHangs, Break, Start, RecoverRead, RetryRead, BecomeDue, BecomeStale,
                NextBucket, vars, rowVars
  <2>. QED  BY <1>a, <2>1
<1>3. ASSUME NEW w \in Consumers, NEW claimed \in SUBSET Claimable, Claim(w, claimed) PROVE Goal
  <2>1. \A j \in claimed : state[j] \in {"QUEUED", "RETRYING"}
    BY DEF Claimable
  <2>2. UNCHANGED retried /\ \A j \in Jobs : state'[j] = state[j] \/ j \in claimed
    BY <1>3 DEF Claim
  <2>. QED  BY <1>a, <2>1, <2>2
<1>4. ASSUME NEW w \in Consumers, Succeed(w) \/ Fail(w) PROVE Goal
  <2>1. run[w] \in Jobs
    BY <1>4 DEF Succeed, Fail
  <2>2. state[run[w]] = "RUNNING"
    BY <1>b, <2>1 DEF HandInv, Has
  <2>3. UNCHANGED retried /\ \A j \in Jobs : state'[j] = state[j] \/ j = run[w]
    BY <1>4, <2>1 DEF Succeed, Fail
  <2>. QED  BY <1>a, <2>2, <2>3
<1>5. ASSUME NEW s \in Schedulers, RecoverCommit(s) PROVE Goal
  <2>1. UNCHANGED retried /\ \A j \in Jobs : state'[j] = state[j] \/ j \in found[s]
    BY <1>5 DEF RecoverCommit
  <2>2. ASSUME NEW j \in Jobs, j \in found[s], state[j] \notin PENDING_TASK_STATES
        PROVE  state'[j] = "FAILED"
    <3>1. attempt[j] = foundAt[s][j] + 1 /\ attempt[j] >= MaxAttempt
      BY <1>b, <2>2 DEF FoundInv
    <3>. QED  BY <1>5, <2>2, <3>1 DEF RecoverCommit, Outcome
  <2>. QED  BY <1>a, <2>1, <2>2
<1>6. ASSUME NEW c \in Clients, RetryCommit(c) PROVE Goal
  <2>1. retry[c] \in Jobs
    BY <1>6 DEF RetryCommit
  <2>2. /\ state' = [state EXCEPT ![retry[c]] = "QUEUED"]
        /\ retried' = [retried EXCEPT ![retry[c]] = retried[retry[c]] + 1]
    BY <1>6 DEF RetryCommit
  <2>3. retried'[retry[c]] # 0
    BY <2>1, <2>2
  <2>4. \A j \in Jobs : j # retry[c] => state'[j] = state[j] /\ retried'[j] = retried[j]
    BY <2>2
  <2>. QED  BY <1>a, <2>3, <2>4
<1>. QED  BY <1>1, <1>2, <1>3, <1>4, <1>5, <1>6 DEF Next, WorkerStep, RecoverStep

LEMMA PendingStep ==
  ASSUME RoundsApart, TypeOK, ExclusionInv, PlanInv, OnePending, [Next]_vars
  PROVE  PlanInv' /\ OnePending'
<1>. SUFFICES ASSUME prompt' PROVE PlanInv' /\ OnePending'
  BY DEF PlanInv, OnePending
<1>. USE DEF TypeOK
<1>1. ASSUME NEW s \in Schedulers, NEW k \in TaskTypes, ScheduleCommit(s, k)
      PROVE  PlanInv' /\ OnePending'
  <2>. DEFINE keys == plan[<<s, k>>]
  <2>1. /\ UNCHANGED <<retried, prompt>> /\ plan' = [plan EXCEPT ![<<s, k>>] = {}]
        /\ \A j \in Jobs : state'[j] = state[j] \/ j \in keys
    BY <1>1 DEF ScheduleCommit
  <2>2. \A j \in keys : /\ j[1] = k
                        /\ \A i \in keys : i[2] = j[2] => i = j
                        /\ \A i \in Jobs : Rivals(i, j) => state[i] \notin PENDING_TASK_STATES
    BY <2>1 DEF PlanInv
  <2>. HIDE DEF keys
  <2>3. \A i, j \in Jobs : Rivals(i, j)' => Rivals(i, j) /\ Rivals(j, i)
    BY <2>1 DEF Rivals
  <2>4. PlanInv'
    <3>. SUFFICES ASSUME NEW t \in Schedulers, NEW l \in TaskTypes, NEW j \in plan'[<<t, l>>]
                  PROVE  /\ j[1] = l
                         /\ \A i \in plan'[<<t, l>>] : i[2] = j[2] => i = j
                         /\ \A i \in Jobs : Rivals(i, j)' => state'[i] \notin PENDING_TASK_STATES
      BY DEF PlanInv
    <3>1. l # k /\ plan'[<<t, l>>] = plan[<<t, l>>]
      <4>1. plan[<<s, k>>] # {}
        BY <1>1 DEF ScheduleCommit
      <4>2. ~(t = s /\ l = k) /\ plan'[<<t, l>>] = plan[<<t, l>>]
        BY <2>1
      <4>. QED  BY <4>1, <4>2 DEF RoundsApart
    <3>2. j \in Jobs
      BY <3>1
    <3>3. /\ j[1] = l
          /\ \A i \in plan[<<t, l>>] : i[2] = j[2] => i = j
          /\ \A i \in Jobs : Rivals(i, j) => state[i] \notin PENDING_TASK_STATES
      BY <2>1, <3>1 DEF PlanInv
    <3>4. ASSUME NEW i \in Jobs, Rivals(i, j)' PROVE state'[i] \notin PENDING_TASK_STATES
      <4>1. Rivals(i, j) /\ i \notin keys
        BY <2>2, <2>3, <3>1, <3>2, <3>3, <3>4 DEF Rivals
      <4>. QED  BY <2>1, <3>3, <4>1
    <3>. QED  BY <3>1, <3>3, <3>4
  <2>5. OnePending'
    <3>. SUFFICES ASSUME NEW i \in Jobs, NEW j \in Jobs, Rivals(i, j)'
                  PROVE  state'[i] \notin PENDING_TASK_STATES \/ state'[j] \notin PENDING_TASK_STATES
      BY DEF OnePending, Rivals
    <3>1. Rivals(i, j) /\ Rivals(j, i)
      BY <2>3
    <3>2. state[i] \notin PENDING_TASK_STATES \/ state[j] \notin PENDING_TASK_STATES
      BY <2>1, <3>1 DEF OnePending, Rivals
    <3>3. CASE i \in keys
      <4>1. j \notin keys
        BY <2>2, <3>1, <3>3 DEF Rivals
      <4>. QED  BY <2>1, <2>2, <3>1, <3>3, <4>1
    <3>4. CASE j \in keys
      <4>1. i \notin keys
        BY <2>2, <3>1, <3>4 DEF Rivals
      <4>. QED  BY <2>1, <2>2, <3>1, <3>4, <4>1
    <3>. QED  BY <2>1, <3>2, <3>3, <3>4
  <2>. QED  BY <2>4, <2>5
<1>2. ASSUME NEW s \in Schedulers, NEW k \in TaskTypes, ScheduleRead(s, k)
      PROVE  PlanInv' /\ OnePending'
  <2>. DEFINE keys == {<<k, m, bucket>> : m \in Overdue(k)}
  <2>1. UNCHANGED <<state, retried, prompt>> /\ plan' = [plan EXCEPT ![<<s, k>>] = keys]
    BY <1>2 DEF ScheduleRead, rowVars
  <2>2. \A j \in keys : \E m \in Overdue(k) : j = <<k, m, bucket>>
    OBVIOUS
  <2>3. \A j \in keys : j[1] = k /\ (\A i \in keys : i[2] = j[2] => i = j)
    BY <2>2
  <2>4. ASSUME NEW j \in keys, NEW i \in Jobs, Rivals(i, j)
        PROVE  state[i] \notin PENDING_TASK_STATES
    <3>1. PICK m \in Overdue(k) : j = <<k, m, bucket>>
      BY <2>2
    <3>2. i = <<k, m, i[3]>> /\ i[3] \in 0..LastBucket
      BY <2>4, <3>1 DEF Rivals, Jobs
    <3>. QED  BY <3>1, <3>2 DEF Overdue, HasPending
  <2>. HIDE DEF keys
  <2>5. PlanInv'
    <3>. SUFFICES ASSUME NEW t \in Schedulers, NEW l \in TaskTypes, NEW j \in plan'[<<t, l>>]
                  PROVE  /\ j[1] = l
                         /\ \A i \in plan'[<<t, l>>] : i[2] = j[2] => i = j
                         /\ \A i \in Jobs : Rivals(i, j)' => state'[i] \notin PENDING_TASK_STATES
      BY DEF PlanInv
    <3>1. \A i \in Jobs : Rivals(i, j)' => Rivals(i, j)
      BY <2>1 DEF Rivals
    <3>2. CASE t = s /\ l = k
      <4>1. plan'[<<t, l>>] = keys
        BY <2>1, <3>2
      <4>. QED  BY <2>1, <2>3, <2>4, <3>1, <3>2, <4>1
    <3>3. CASE ~(t = s /\ l = k)
      <4>1. plan'[<<t, l>>] = plan[<<t, l>>]
        BY <2>1, <3>3
      <4>. QED  BY <2>1, <3>1, <4>1 DEF PlanInv
    <3>. QED  BY <3>2, <3>3
  <2>6. OnePending'
    BY <2>1 DEF OnePending
  <2>. QED  BY <2>5, <2>6
<1>3. CASE /\ \A s \in Schedulers, k \in TaskTypes : ~ScheduleCommit(s, k)
           /\ \A s \in Schedulers, k \in TaskTypes : ~ScheduleRead(s, k)
  <2>1. UNCHANGED plan
    BY <1>3 DEF Next, CreateJob, Age, WorkerStep, Claim, Start, Succeed, Fail, WorkerHangs, Break, RecoverStep,
                RecoverRead, RecoverCommit, RetryRead, RetryCommit, BecomeDue, BecomeStale,
                NextBucket, vars
  <2>2. /\ prompt
        /\ \A j \in Jobs : retried'[j] = 0 => retried[j] = 0
        /\ \A j \in Jobs : /\ j[3] # 0 /\ retried'[j] = 0
                           /\ state'[j] \in PENDING_TASK_STATES
                           => state[j] \in PENDING_TASK_STATES
    BY <1>3, NoComeback
  <2>3. ASSUME NEW i \in Jobs, NEW j \in Jobs, Rivals(i, j)'
        PROVE  /\ Rivals(i, j)
               /\ state'[i] \in PENDING_TASK_STATES => state[i] \in PENDING_TASK_STATES
               /\ state'[j] \in PENDING_TASK_STATES => state[j] \in PENDING_TASK_STATES
    BY <2>2, <2>3 DEF Rivals
  <2>4. \A s \in Schedulers, k \in TaskTypes : plan[<<s, k>>] \subseteq Jobs
    OBVIOUS
  <2>5. PlanInv'
    <3>. SUFFICES ASSUME NEW s \in Schedulers, NEW k \in TaskTypes, NEW j \in plan[<<s, k>>]
                  PROVE  /\ j[1] = k
                         /\ \A i \in plan[<<s, k>>] : i[2] = j[2] => i = j
                         /\ \A i \in Jobs : Rivals(i, j)' => state'[i] \notin PENDING_TASK_STATES
      BY <2>1 DEF PlanInv
    <3>1. j \in Jobs
      BY <2>4
    <3>2. /\ j[1] = k
          /\ \A i \in plan[<<s, k>>] : i[2] = j[2] => i = j
          /\ \A i \in Jobs : Rivals(i, j) => state[i] \notin PENDING_TASK_STATES
      BY <2>2 DEF PlanInv
    <3>. QED  BY <2>3, <3>1, <3>2
  <2>6. OnePending'
    <3>. SUFFICES ASSUME NEW i \in Jobs, NEW j \in Jobs, Rivals(i, j)'
                  PROVE  state'[i] \notin PENDING_TASK_STATES \/ state'[j] \notin PENDING_TASK_STATES
      BY DEF OnePending, Rivals
    <3>. QED  BY <2>2, <2>3 DEF OnePending, Rivals
  <2>. QED  BY <2>5, <2>6
<1>. QED  BY <1>1, <1>2, <1>3

\* Prompt handlers, and neither retries nor rounds that overlap: then a mailbox has one
\* pending job of the loops at most, over all periods (_has_pending_task).
THEOREM PendingOnce == Spec /\ []RetriesApart /\ []RoundsApart => []OnePending
<1>1. Init => PlanInv /\ OnePending
  BY DEF Init, PlanInv, OnePending, PENDING_TASK_STATES
<1>2. RoundsApart /\ TypeOK /\ ExclusionInv /\ PlanInv /\ OnePending /\ [Next]_vars => PlanInv' /\ OnePending'
  BY PendingStep
<1>. QED  BY <1>1, <1>2, QueueTyping, ExclusionAlways, PTL DEF Spec
=============================================================================

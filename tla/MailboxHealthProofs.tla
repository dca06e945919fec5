------------------------- MODULE MailboxHealthProofs -------------------------
(***************************************************************************)
(* Theorems about MailboxHealth, for every set of mailboxes, sessions and  *)
(* adapters, and every threshold.                                          *)
(***************************************************************************)
EXTENDS MailboxHealth, TLAPS

Lifes == OperatorSets \cup {"IMPORTED", "READY", "IN_USE", "COOLDOWN", "AVAILABLE", "QUARANTINED"}
Answers == UNION {Outcomes(k) : k \in Adapters}
Healths == {HealthOf(r) : r \in Answers} \cup {"WARNING", Unset}
Copies ==
  [op : {"none", "check", "sync", "hung"}, box : Accounts \cup {Unset}, status : Lifes, found : Healths,
   count : 0..FailureCap, points : 0..100]

\* Every variable has a value of its type, and a session that does something does
\* it with a mailbox.
HealthTyped ==
  /\ HealthTypeOK
  /\ answer \in [Accounts -> Answers]
  /\ check \in [Checkers -> Copies]
  /\ \A s \in Checkers : check[s].op \in {"check", "sync"} => check[s].box \in Accounts
  /\ last \in [Accounts -> [health : Healths, score : 0..100]]
  /\ streak \in [Accounts -> 0..FailureCap]

\* A session that has a mailbox, which no other has had with it, holds what its
\* columns still are; the status may be that of another lease, and another for
\* good if an operator has changed it.
CopyFresh(s) ==
  \A m \in Accounts \ raced : check[s].box = m =>
    /\ check[s].found = health[m]
    /\ check[s].op = "check" => check[s].count = failureCount[m] /\ check[s].points = score[m]
    /\ check[s].op = "check" /\ m \notin edited =>
         (check[s].status = "QUARANTINED" <=> lifecycle[m] = "QUARANTINED")

\* No other has it.
OneHolder == \A s, o \in Checkers : check[s].box \in Accounts \ raced /\ check[s].box = check[o].box => s = o

HealthInv == HealthTyped /\ OneHolder /\ (\A s \in Checkers : CopyFresh(s)) /\ ShowsItsChecks

-----------------------------------------------------------------------------
(* What a check finds *)

\* A score is a percentage, and a count stays below the cap.
LEMMA ScoreTyped ==
  ASSUME NEW r, NEW count \in 0..FailureCap
  PROVE  Score(r, count) \in 0..100 /\ Counted(r, count) \in 0..FailureCap
<1>1. Weight(r.auth, 30) \in {0, 30} /\ Weight(r.sync, 25) \in {0, 25} /\ Weight(r.fetch, 20) \in {0, 20}
      /\ Weight(r.link, 10) \in {0, 10}
  BY DEF Weight
<1>2. count \in Nat /\ (IF count > 3 THEN 0 ELSE 15 - 5 * count) \in 0..15 /\ FailureCap \in Nat
  BY HealthAssumption
<1>3. Score(r, count) \in 0..100
  BY <1>1, <1>2 DEF Score
<1>4. Counted(r, count) \in 0..FailureCap
  BY <1>2 DEF Counted, OneMoreFailure
<1>. QED  BY <1>3, <1>4

\* A session's copy.
LEMMA CopyTyped ==
  ASSUME HealthTyped, NEW m \in Accounts
  PROVE  /\ ForCheck(m) \in Copies /\ ForSync(m) \in Copies /\ Idle \in Copies
         /\ ForCheck(m).op = "check" /\ ForCheck(m).box = m /\ ForCheck(m).found = health[m]
         /\ ForCheck(m).count = failureCount[m] /\ ForCheck(m).points = score[m]
         /\ ForCheck(m).status = lifecycle[m]
         /\ ForSync(m).op = "sync" /\ ForSync(m).box = m /\ ForSync(m).found = health[m]
         /\ Idle.op = "none" /\ Idle.box = Unset
<1>1. FailureCap \in Nat
  BY HealthAssumption
<1>2. /\ lifecycle[m] \in Lifes /\ health[m] \in Healths /\ failureCount[m] \in 0..FailureCap /\ score[m] \in 0..100
      /\ "IMPORTED" \in Lifes /\ Unset \in Healths
  BY DEF HealthTyped, HealthTypeOK, Lifes, Healths, Answers
<1>3. ForCheck(m) \in Copies
  BY <1>1, <1>2 DEF ForCheck, Copy, Copies
<1>4. ForSync(m) \in Copies
  BY <1>1, <1>2 DEF ForSync, Copy, Copies
<1>5. Idle \in Copies
  BY <1>1, <1>2 DEF Idle, Copy, Copies
<1>. QED  BY <1>3, <1>4, <1>5 DEF ForCheck, ForSync, Idle, Copy

\* What a check judges, in types.
LEMMA JudgeTyped ==
  ASSUME HealthTyped, NEW s \in Checkers, check[s].op = "check"
  PROVE  LET c == check[s]
             r == answer[c.box] IN
         /\ c.box \in Accounts /\ c \in Copies /\ r \in Answers
         /\ HealthOf(r) \in Healths
         /\ Counted(r, c.count) \in 0..FailureCap /\ Score(r, c.count) \in 0..100
         /\ Advanced(c.box, r, c.status, Counted(r, c.count)) \in Lifes
<1>. DEFINE c == check[s]
            r == answer[c.box]
<1>1. c \in Copies /\ c.box \in Accounts /\ r \in Answers
  BY DEF HealthTyped
<1>2. c.count \in 0..FailureCap /\ c.status \in Lifes
  BY <1>1 DEF Copies
<1>. HIDE DEF c, r
<1>3. HealthOf(r) \in Healths
  BY <1>1 DEF Healths
<1>4. Advanced(c.box, r, c.status, Counted(r, c.count)) \in Lifes
  BY <1>2 DEF Advanced, Lifes
<1>5. Counted(r, c.count) \in 0..FailureCap /\ Score(r, c.count) \in 0..100
  BY <1>2, ScoreTyped
<1>. QED  BY <1>1, <1>3, <1>4, <1>5 DEF c, r

-----------------------------------------------------------------------------
LEMMA HealthStart == HealthInit => HealthInv
<1>. SUFFICES ASSUME HealthInit PROVE HealthInv
  OBVIOUS
<1>1. FailureCap \in Nat /\ Unset \notin Accounts
  BY HealthAssumption
<1>2. HealthTypeOK
  BY <1>1 DEF HealthInit, HealthTypeOK
<1>3. Idle \in Copies /\ Idle.op = "none" /\ Idle.box = Unset
  BY <1>1 DEF Idle, Copy, Copies, Lifes, Healths
<1>4. NoRecord \in [health : Healths, score : 0..100] /\ NoRecord.score = 0 /\ NoRecord.health = Unset
  BY DEF NoRecord, Healths
<1>5. HealthTyped
  BY <1>1, <1>2, <1>3, <1>4 DEF HealthInit, HealthTyped, Answers
<1>6. OneHolder /\ \A s \in Checkers : CopyFresh(s)
  BY <1>1, <1>3 DEF HealthInit, OneHolder, CopyFresh
<1>7. ShowsItsChecks
  BY <1>4 DEF HealthInit, ShowsItsChecks
<1>. QED  BY <1>5, <1>6, <1>7 DEF HealthInv

\* A session loads a mailbox.
LEMMA LoadKeeps ==
  ASSUME HealthInv, NEW s \in Checkers, NEW m \in Accounts, NEW copy \in {ForCheck(m), ForSync(m)},
         Load(s, m, copy)
  PROVE  HealthInv'
<1>. USE DEF HealthInv
<1>1. /\ check' = [check EXCEPT ![s] = copy]
      /\ raced' = IF m \in HeldByOthers(s) THEN raced \cup {m} ELSE raced
      /\ UNCHANGED <<adapter, lifecycle, health, score, failureCount, guarded, answer, edited>>
      /\ last' = IF m \in HeldByOthers(s) THEN [last EXCEPT ![m] = NoRecord] ELSE last
      /\ streak' = IF m \in HeldByOthers(s) THEN [streak EXCEPT ![m] = 0] ELSE streak
  BY DEF Load, mailboxVars
<1>2. copy \in Copies /\ copy.box = m /\ copy.found = health[m] /\ copy.op # "none"
      /\ (copy.op = "check" => /\ copy.count = failureCount[m] /\ copy.points = score[m]
                               /\ copy.status = lifecycle[m])
  BY CopyTyped
<1>3. NoRecord \in [health : Healths, score : 0..100]
  BY DEF NoRecord, Healths
<1>4. HealthTyped'
  <2>1. HealthTypeOK' /\ answer' \in [Accounts -> Answers]
    BY <1>1 DEF HealthTyped, HealthTypeOK
  <2>2. check' \in [Checkers -> Copies] /\ \A o \in Checkers : check'[o].op \in {"check", "sync"} => check'[o].box \in Accounts
    BY <1>1, <1>2 DEF HealthTyped
  <2>3. last' \in [Accounts -> [health : Healths, score : 0..100]]
    BY <1>1, <1>3 DEF HealthTyped
  <2>4. streak' \in [Accounts -> 0..FailureCap]
    BY <1>1, HealthAssumption DEF HealthTyped
  <2>. QED  BY <2>1, <2>2, <2>3, <2>4 DEF HealthTyped
<1>5. \A o \in Checkers : check'[o] = IF o = s THEN copy ELSE check[o]
  BY <1>1 DEF HealthTyped
<1>6. OneHolder'
  BY <1>1, <1>2, <1>5 DEF OneHolder, HeldByOthers
<1>7. ASSUME NEW o \in Checkers
      PROVE  CopyFresh(o)'
  BY <1>1, <1>2, <1>5 DEF CopyFresh
<1>8. ShowsItsChecks'
  BY <1>1 DEF ShowsItsChecks, HealthTyped
<1>. QED  BY <1>4, <1>6, <1>7, <1>8

\* The columns a check writes of a mailbox nobody else has had with it.
LEMMA JudgeWrites ==
  ASSUME HealthInv, NEW s \in Checkers, Judge(s)
  PROVE  LET c == check[s]
             m == c.box
             r == answer[m] IN
         /\ c.op = "check" /\ m \in Accounts
         /\ check' = [check EXCEPT ![s] = Idle]
         /\ UNCHANGED <<adapter, guarded, answer, raced, edited>>
         /\ \A k \in Accounts \ {m} :
              /\ health'[k] = health[k] /\ score'[k] = score[k] /\ failureCount'[k] = failureCount[k]
              /\ lifecycle'[k] = lifecycle[k] /\ last'[k] = last[k] /\ streak'[k] = streak[k]
         /\ lifecycle'[m] = Written(lifecycle[m], c.status, Advanced(m, r, c.status, Counted(r, c.count)))
         /\ m \notin raced =>
              /\ health'[m] = HealthOf(r) /\ last'[m].health = HealthOf(r)
              /\ score'[m] = last'[m].score
              /\ failureCount'[m] = Counted(r, failureCount[m]) /\ streak'[m] = Counted(r, streak[m])
<1>. DEFINE c == check[s]
            m == c.box
            r == answer[m]
<1>1. c.op = "check" /\ m \in Accounts
  BY JudgeTyped DEF Judge, HealthInv
<1>2. /\ health' = [health EXCEPT ![m] = Written(health[m], c.found, HealthOf(r))]
      /\ score' = [score EXCEPT ![m] = Written(score[m], c.points, Score(r, c.count))]
      /\ failureCount' = [failureCount EXCEPT ![m] = IF Ok(r) THEN Written(failureCount[m], c.count, Counted(r, c.count))
                                                      ELSE Counted(r, c.count)]
      /\ lifecycle' = [lifecycle EXCEPT ![m] =
                         Written(lifecycle[m], c.status, Advanced(m, r, c.status, Counted(r, c.count)))]
      /\ check' = [check EXCEPT ![s] = Idle]
      /\ UNCHANGED <<adapter, guarded, answer, raced, edited>>
  BY DEF Judge
<1>3. IF m \in raced THEN UNCHANGED <<last, streak>>
      ELSE /\ last' = [last EXCEPT ![m] = [health |-> HealthOf(r), score |-> Score(r, c.count)]]
           /\ streak' = [streak EXCEPT ![m] = IF Ok(r) THEN 0 ELSE OneMoreFailure(streak[m])]
  BY DEF Judge
<1>4. m \notin raced => c.found = health[m] /\ c.count = failureCount[m] /\ c.points = score[m]
  BY <1>1 DEF HealthInv, CopyFresh
<1>. HIDE DEF c, m, r
<1>5. \A k \in Accounts \ {m} :
        /\ health'[k] = health[k] /\ score'[k] = score[k] /\ failureCount'[k] = failureCount[k]
        /\ lifecycle'[k] = lifecycle[k] /\ last'[k] = last[k] /\ streak'[k] = streak[k]
  BY <1>2, <1>3 DEF HealthInv, HealthTyped, HealthTypeOK
<1>6. lifecycle'[m] = Written(lifecycle[m], c.status, Advanced(m, r, c.status, Counted(r, c.count)))
  BY <1>1, <1>2 DEF HealthInv, HealthTyped, HealthTypeOK
<1>7. ASSUME m \notin raced
      PROVE  /\ health'[m] = HealthOf(r) /\ last'[m].health = HealthOf(r)
             /\ score'[m] = last'[m].score
             /\ failureCount'[m] = Counted(r, failureCount[m]) /\ streak'[m] = Counted(r, streak[m])
  <2>1. last'[m] = [health |-> HealthOf(r), score |-> Score(r, c.count)]
    BY <1>1, <1>3, <1>7 DEF HealthInv, HealthTyped
  <2>2. health'[m] = HealthOf(r)
    BY <1>1, <1>2, <1>4, <1>7 DEF HealthInv, HealthTyped, HealthTypeOK, Written
  <2>3. score'[m] = Score(r, c.count)
    BY <1>1, <1>2, <1>4, <1>7 DEF HealthInv, HealthTyped, HealthTypeOK, Written
  <2>4. failureCount'[m] = Counted(r, failureCount[m])
    BY <1>1, <1>2, <1>4, <1>7 DEF HealthInv, HealthTyped, HealthTypeOK, Written
  <2>5. streak'[m] = Counted(r, streak[m])
    BY <1>1, <1>3, <1>7 DEF HealthInv, HealthTyped, Counted
  <2>. QED  BY <2>1, <2>2, <2>3, <2>4, <2>5
<1>. QED  BY <1>1, <1>2, <1>5, <1>6, <1>7 DEF c, m, r

\* A session is done with its mailbox: the other sessions' copies stay fresh, as
\* none is of that mailbox or two have raced for it.
LEMMA OthersHoldOthers ==
  ASSUME HealthInv, NEW s \in Checkers, NEW o \in Checkers \ {s}, check[s].box \in Accounts \ raced
  PROVE  check[o].box # check[s].box
BY DEF HealthInv, OneHolder

LEMMA JudgeKeeps ==
  ASSUME HealthInv, NEW s \in Checkers, Judge(s)
  PROVE  HealthInv'
<1>. DEFINE c == check[s]
            m == c.box
            r == answer[m]
<1>1. c.op = "check" /\ m \in Accounts
  BY JudgeWrites
<1>2. /\ HealthOf(r) \in Healths
      /\ Counted(r, c.count) \in 0..FailureCap /\ Score(r, c.count) \in 0..100
      /\ Advanced(m, r, c.status, Counted(r, c.count)) \in Lifes
  BY <1>1, JudgeTyped DEF HealthInv
<1>3. /\ check' = [check EXCEPT ![s] = Idle]
      /\ UNCHANGED <<adapter, guarded, answer, raced, edited>>
      /\ \A k \in Accounts \ {m} :
           /\ health'[k] = health[k] /\ score'[k] = score[k] /\ failureCount'[k] = failureCount[k]
           /\ lifecycle'[k] = lifecycle[k] /\ last'[k] = last[k] /\ streak'[k] = streak[k]
  BY JudgeWrites
<1>4. m \notin raced =>
        /\ health'[m] = HealthOf(r) /\ last'[m].health = HealthOf(r)
        /\ score'[m] = last'[m].score
        /\ failureCount'[m] = Counted(r, failureCount[m]) /\ streak'[m] = Counted(r, streak[m])
  BY JudgeWrites
<1>5. HealthTyped'
  <2>1. /\ health' = [health EXCEPT ![m] = Written(health[m], c.found, HealthOf(r))]
        /\ score' = [score EXCEPT ![m] = Written(score[m], c.points, Score(r, c.count))]
        /\ failureCount' = [failureCount EXCEPT ![m] = IF Ok(r) THEN Written(failureCount[m], c.count, Counted(r, c.count))
                                                        ELSE Counted(r, c.count)]
        /\ lifecycle' = [lifecycle EXCEPT ![m] =
                           Written(lifecycle[m], c.status, Advanced(m, r, c.status, Counted(r, c.count)))]
        /\ IF m \in raced THEN UNCHANGED <<last, streak>>
           ELSE /\ last' = [last EXCEPT ![m] = [health |-> HealthOf(r), score |-> Score(r, c.count)]]
                /\ streak' = [streak EXCEPT ![m] = IF Ok(r) THEN 0 ELSE OneMoreFailure(streak[m])]
    BY DEF Judge
  <2>2. Idle \in Copies /\ Idle.op = "none"
    BY <1>1, CopyTyped DEF HealthInv
  <2>3. [health |-> HealthOf(r), score |-> Score(r, c.count)] \in [health : Healths, score : 0..100]
    BY <1>2
  <2>. HIDE DEF c, m, r
  <2>4. streak' \in [Accounts -> 0..FailureCap]
    <3>1. FailureCap \in Nat
      BY HealthAssumption
    <3>. QED  BY <1>1, <2>1, <3>1 DEF HealthInv, HealthTyped, OneMoreFailure
  <2>5. last' \in [Accounts -> [health : Healths, score : 0..100]]
    BY <1>1, <2>1, <2>3 DEF HealthInv, HealthTyped
  <2>6. check' \in [Checkers -> Copies] /\ \A o \in Checkers : check'[o].op \in {"check", "sync"} => check'[o].box \in Accounts
    BY <1>3, <2>2 DEF HealthInv, HealthTyped
  <2>7. health' \in [Accounts -> Healths] /\ score' \in [Accounts -> 0..100]
    BY <1>1, <1>2, <2>1 DEF HealthInv, HealthTyped, HealthTypeOK, Written, Healths, Answers
  <2>8. failureCount' \in [Accounts -> 0..FailureCap] /\ lifecycle' \in [Accounts -> Lifes]
    BY <1>1, <1>2, <2>1 DEF HealthInv, HealthTyped, HealthTypeOK, Written, Lifes
  <2>. QED  BY <1>3, <2>4, <2>5, <2>6, <2>7, <2>8 DEF HealthInv, HealthTyped, HealthTypeOK, Healths, Lifes, Answers
<1>. HIDE DEF r
<1>6. Idle.op = "none" /\ Idle.box = Unset /\ Unset \notin Accounts
  BY <1>1, CopyTyped, HealthAssumption DEF HealthInv
<1>7. \A o \in Checkers : check'[o] = IF o = s THEN Idle ELSE check[o]
  BY <1>3 DEF HealthInv, HealthTyped
<1>8. OneHolder'
  BY <1>3, <1>6, <1>7 DEF HealthInv, OneHolder
<1>9. ASSUME NEW o \in Checkers
      PROVE  CopyFresh(o)'
  <2>1. CASE o = s
    BY <1>6, <1>7, <2>1 DEF CopyFresh
  <2>2. CASE o # s
    <3>1. check'[o] = check[o] /\ (m \notin raced => check[o].box # m)
      BY <1>1, <1>7, <2>2, OthersHoldOthers
    <3>. HIDE DEF m
    <3>. QED  BY <1>3, <3>1 DEF HealthInv, CopyFresh
  <2>. QED  BY <2>1, <2>2
<1>10. ShowsItsChecks'
  <2>. HIDE DEF m
  <2>1. ASSUME NEW k \in Accounts \ raced
        PROVE  /\ failureCount'[k] = streak'[k] /\ score'[k] = last'[k].score
               /\ health'[k] = last'[k].health \/ (health'[k] = "WARNING" /\ last'[k].health \in {"HEALTHY", Unset})
    <3>1. CASE k = m
      BY <1>4, <3>1 DEF HealthInv, ShowsItsChecks
    <3>2. CASE k # m
      BY <1>3, <3>2 DEF HealthInv, ShowsItsChecks
    <3>. QED  BY <3>1, <3>2
  <2>. QED  BY <1>3, <2>1 DEF ShowsItsChecks
<1>. QED  BY <1>5, <1>8, <1>9, <1>10 DEF HealthInv

\* A sync of the mailbox fails for the last time, or ends.
LEMMA SyncKeeps ==
  ASSUME HealthInv, NEW s \in Checkers, LastSyncFails(s) \/ SyncEnds(s)
  PROVE  HealthInv'
<1>. DEFINE m == check[s].box
<1>. USE DEF HealthInv
<1>1. /\ check' = [check EXCEPT ![s] = Idle] /\ check[s].op = "sync"
      /\ UNCHANGED <<adapter, lifecycle, score, failureCount, guarded, answer, last, streak, raced, edited>>
      /\ health' = health \/ (check[s].found \in {"HEALTHY", Unset} /\ health' = [health EXCEPT ![m] = "WARNING"])
  BY DEF LastSyncFails, SyncEnds, mailboxVars, historyVars
<1>2. m \in Accounts
  BY <1>1 DEF HealthTyped
<1>3. Idle \in Copies /\ Idle.op = "none" /\ Idle.box = Unset /\ Unset \notin Accounts
  BY <1>2, CopyTyped, HealthAssumption
<1>4. health' \in [Accounts -> Healths]
  BY <1>1 DEF HealthTyped, HealthTypeOK, Healths, Answers
<1>5. HealthTyped'
  BY <1>1, <1>3, <1>4 DEF HealthTyped, HealthTypeOK, Healths, Answers
<1>6. \A o \in Checkers : check'[o] = IF o = s THEN Idle ELSE check[o]
  BY <1>1 DEF HealthTyped
<1>7. OneHolder'
  BY <1>1, <1>3, <1>6 DEF OneHolder
<1>8. \A k \in Accounts : health'[k] = health[k] \/ (k = m /\ health'[k] = "WARNING" /\ check[s].found \in {"HEALTHY", Unset})
  BY <1>1 DEF HealthTyped, HealthTypeOK
<1>9. ASSUME NEW o \in Checkers
      PROVE  CopyFresh(o)'
  <2>1. CASE o = s
    BY <1>3, <1>6, <2>1 DEF CopyFresh
  <2>2. CASE o # s
    <3>1. check'[o] = check[o] /\ (m \notin raced => check[o].box # m)
      BY <1>2, <1>6, <2>2, OthersHoldOthers
    <3>. HIDE DEF m
    <3>. QED  BY <1>1, <1>8, <3>1 DEF CopyFresh
  <2>. QED  BY <2>1, <2>2
<1>10. ShowsItsChecks'
  <2>1. m \notin raced => check[s].found = health[m]
    BY <1>2 DEF CopyFresh
  <2>. HIDE DEF m
  <2>2. ASSUME NEW k \in Accounts \ raced, health'[k] # health[k]
        PROVE  health'[k] = "WARNING" /\ last[k].health \in {"HEALTHY", Unset}
    BY <1>8, <2>1, <2>2 DEF ShowsItsChecks
  <2>. QED  BY <1>1, <2>2 DEF ShowsItsChecks
<1>. QED  BY <1>5, <1>7, <1>9, <1>10

\* A session hangs, or dies: it lets go of its copy.
LEMMA LetGoKeeps ==
  ASSUME HealthInv, NEW s \in Checkers, CheckHangs(s) \/ CheckDies(s)
  PROVE  HealthInv'
<1>. USE DEF HealthInv
<1>1. /\ check' = [check EXCEPT ![s] = Idle] \/ check' = [check EXCEPT ![s] = HungCheck]
      /\ UNCHANGED <<adapter, lifecycle, health, score, failureCount, guarded, answer, last, streak, raced, edited>>
  BY DEF CheckHangs, CheckDies, mailboxVars, historyVars
<1>2. FailureCap \in Nat /\ Unset \notin Accounts
  BY HealthAssumption
<1>3. PICK free \in Copies : check' = [check EXCEPT ![s] = free] /\ free.op \in {"none", "hung"} /\ free.box = Unset
  <2>1. Idle \in Copies /\ Idle.op = "none" /\ Idle.box = Unset
    BY <1>2 DEF Idle, Copy, Copies, Lifes, Healths
  <2>2. HungCheck \in Copies /\ HungCheck.op = "hung" /\ HungCheck.box = Unset
    BY <1>2 DEF HungCheck, Copy, Copies, Lifes, Healths
  <2>. QED  BY <1>1, <2>1, <2>2
<1>4. HealthTyped'
  BY <1>1, <1>3 DEF HealthTyped, HealthTypeOK
<1>5. \A o \in Checkers : check'[o] = IF o = s THEN free ELSE check[o]
  BY <1>3 DEF HealthTyped
<1>6. OneHolder'
  BY <1>1, <1>2, <1>3, <1>5 DEF OneHolder
<1>7. ASSUME NEW o \in Checkers
      PROVE  CopyFresh(o)'
  <2>1. CASE o = s
    BY <1>2, <1>3, <1>5, <2>1 DEF CopyFresh
  <2>2. CASE o # s
    BY <1>1, <1>5, <2>2 DEF CopyFresh
  <2>. QED  BY <2>1, <2>2
<1>8. ShowsItsChecks'
  BY <1>1 DEF ShowsItsChecks
<1>. QED  BY <1>4, <1>6, <1>7, <1>8

\* The operator, leases and the provider change nothing a session has a copy of but
\* the status.
LEMMA OthersKeep ==
  ASSUME HealthInv, UNCHANGED <<adapter, health, score, failureCount, check, last, streak, raced>>,
         lifecycle' \in [Accounts -> Lifes], guarded' \in [Accounts -> BOOLEAN], answer' \in [Accounts -> Answers],
         edited \subseteq edited',
         \A m \in Accounts \ edited' : (lifecycle'[m] = "QUARANTINED") = (lifecycle[m] = "QUARANTINED")
  PROVE  HealthInv'
<1>1. HealthTyped'
  BY DEF HealthInv, HealthTyped, HealthTypeOK, Lifes
<1>2. OneHolder' /\ ShowsItsChecks'
  BY DEF HealthInv, OneHolder, ShowsItsChecks
<1>3. ASSUME NEW s \in Checkers
      PROVE  CopyFresh(s)'
  BY DEF HealthInv, CopyFresh
<1>. QED  BY <1>1, <1>2, <1>3 DEF HealthInv

\* A step of the others is one of these, and changes what it may.
LEMMA OthersDo ==
  ASSUME HealthInv, NEW m \in Accounts,
         \/ \E status \in OperatorSets : SetStatus(m, status)
         \/ SetPool(m)
         \/ Lend(m) \/ GiveBack(m) \/ CooldownOver(m)
         \/ \E r \in Outcomes(adapter[m]) : Turn(m, r)
  PROVE  /\ UNCHANGED <<adapter, health, score, failureCount, check, last, streak, raced>>
         /\ lifecycle' \in [Accounts -> Lifes] /\ guarded' \in [Accounts -> BOOLEAN]
         /\ answer' \in [Accounts -> Answers] /\ edited \subseteq edited'
         /\ \A k \in Accounts \ edited' :
              guarded'[k] = guarded[k] /\ (lifecycle'[k] = "QUARANTINED") = (lifecycle[k] = "QUARANTINED")
<1>1. /\ lifecycle \in [Accounts -> Lifes] /\ guarded \in [Accounts -> BOOLEAN]
      /\ answer \in [Accounts -> Answers] /\ adapter \in [Accounts -> Adapters]
  BY DEF HealthInv, HealthTyped, HealthTypeOK, Lifes
<1>2. ASSUME NEW status \in OperatorSets, SetStatus(m, status)
      PROVE  /\ UNCHANGED <<adapter, health, score, failureCount, check, last, streak, raced, guarded, answer>>
             /\ edited' = edited \cup {m} /\ lifecycle' = [lifecycle EXCEPT ![m] = status] /\ status \in Lifes
  BY <1>2 DEF SetStatus, Edit, Lifes
<1>3. ASSUME SetPool(m)
      PROVE  /\ UNCHANGED <<adapter, health, score, failureCount, check, last, streak, raced, lifecycle, answer>>
             /\ edited' = edited \cup {m} /\ guarded' = [guarded EXCEPT ![m] = ~guarded[m]]
  BY <1>3 DEF SetPool, Edit
<1>4. ASSUME Lend(m) \/ GiveBack(m) \/ CooldownOver(m)
      PROVE  /\ UNCHANGED <<adapter, health, score, failureCount, check, last, streak, raced, guarded, answer, edited>>
             /\ lifecycle[m] # "QUARANTINED"
             /\ \E to \in {"IN_USE", "COOLDOWN", "AVAILABLE"} : lifecycle' = [lifecycle EXCEPT ![m] = to]
  BY <1>4 DEF Lend, GiveBack, CooldownOver, SetLease, historyVars
<1>5. ASSUME NEW r \in Outcomes(adapter[m]), Turn(m, r)
      PROVE  /\ UNCHANGED <<adapter, health, score, failureCount, check, last, streak, raced, guarded, lifecycle, edited>>
             /\ answer' = [answer EXCEPT ![m] = r] /\ r \in Answers
  BY <1>1, <1>5 DEF Turn, mailboxVars, Answers
<1>6. ASSUME NEW status \in OperatorSets, SetStatus(m, status)
      PROVE  /\ UNCHANGED <<adapter, health, score, failureCount, check, last, streak, raced>>
             /\ lifecycle' \in [Accounts -> Lifes] /\ guarded' \in [Accounts -> BOOLEAN]
             /\ answer' \in [Accounts -> Answers] /\ edited \subseteq edited'
             /\ \A k \in Accounts \ edited' :
                  guarded'[k] = guarded[k] /\ (lifecycle'[k] = "QUARANTINED") = (lifecycle[k] = "QUARANTINED")
  BY <1>1, <1>2, <1>6
<1>7. CASE SetPool(m)
  BY <1>1, <1>3, <1>7
<1>8. CASE Lend(m) \/ GiveBack(m) \/ CooldownOver(m)
  <2>1. PICK to \in {"IN_USE", "COOLDOWN", "AVAILABLE"} : lifecycle' = [lifecycle EXCEPT ![m] = to]
    BY <1>4, <1>8
  <2>2. to \in Lifes /\ to # "QUARANTINED" /\ lifecycle[m] # "QUARANTINED"
    BY <1>4, <1>8 DEF Lifes
  <2>. QED  BY <1>1, <1>4, <1>8, <2>1, <2>2
<1>9. ASSUME NEW r \in Outcomes(adapter[m]), Turn(m, r)
      PROVE  /\ UNCHANGED <<adapter, health, score, failureCount, check, last, streak, raced>>
             /\ lifecycle' \in [Accounts -> Lifes] /\ guarded' \in [Accounts -> BOOLEAN]
             /\ answer' \in [Accounts -> Answers] /\ edited \subseteq edited'
             /\ \A k \in Accounts \ edited' :
                  guarded'[k] = guarded[k] /\ (lifecycle'[k] = "QUARANTINED") = (lifecycle[k] = "QUARANTINED")
  BY <1>1, <1>5, <1>9
<1>. QED  BY <1>6, <1>7, <1>8, <1>9

LEMMA HealthKept ==
  ASSUME HealthInv, [HealthNext]_healthVars
  PROVE  HealthInv'
<1>1. CASE UNCHANGED healthVars
  BY <1>1, OthersKeep DEF healthVars, mailboxVars, historyVars, HealthInv, HealthTyped, HealthTypeOK, Lifes
<1>2. ASSUME NEW s \in Checkers, NEW m \in Accounts, ManualCheck(s, m) \/ ScheduledCheck(s, m) \/ SyncLoads(s, m)
      PROVE  HealthInv'
  BY <1>2, LoadKeeps DEF ManualCheck, ScheduledCheck, SyncLoads
<1>3. ASSUME NEW s \in Checkers, Judge(s)
      PROVE  HealthInv'
  BY <1>3, JudgeKeeps
<1>4. ASSUME NEW s \in Checkers, LastSyncFails(s) \/ SyncEnds(s)
      PROVE  HealthInv'
  BY <1>4, SyncKeeps
<1>5. ASSUME NEW m \in Accounts,
             \/ \E status \in OperatorSets : SetStatus(m, status)
             \/ SetPool(m)
             \/ Lend(m) \/ GiveBack(m) \/ CooldownOver(m)
             \/ \E r \in Outcomes(adapter[m]) : Turn(m, r)
      PROVE  HealthInv'
  BY <1>5, OthersDo, OthersKeep
<1>6. ASSUME NEW s \in Checkers, CheckHangs(s) \/ CheckDies(s)
      PROVE  HealthInv'
  BY <1>6, LetGoKeeps
<1>. QED  BY <1>1, <1>2, <1>3, <1>4, <1>5, <1>6 DEF HealthNext

-----------------------------------------------------------------------------
\* Every column has a value of its type; a score is a percentage, whatever the
\* providers answer and however the checks overlap.
THEOREM HealthTyping == HealthSpec => []HealthTypeOK
<1>1. HealthInv /\ [HealthNext]_healthVars => HealthInv'
  BY HealthKept
<1>2. HealthInv => HealthTypeOK
  BY DEF HealthInv, HealthTyped
<1>. QED  BY HealthStart, <1>1, <1>2, PTL DEF HealthSpec

\* A mailbox that no two sessions have held at once shows what its newest check has
\* found, and counts its failures right.
THEOREM ChecksAreShown == HealthSpec => []ShowsItsChecks
<1>1. HealthInv /\ [HealthNext]_healthVars => HealthInv'
  BY HealthKept
<1>2. HealthInv => ShowsItsChecks
  BY DEF HealthInv
<1>. QED  BY HealthStart, <1>1, <1>2, PTL DEF HealthSpec

-----------------------------------------------------------------------------
(* Quarantine *)

\* A check moves the mailbox into quarantine and out of it as its count says.
LEMMA JudgeQuarantines ==
  ASSUME HealthInv, QuarantinedByFailures, FailureThreshold > 0, NEW s \in Checkers, Judge(s)
  PROVE  QuarantinedByFailures'
<1>. DEFINE c == check[s]
            m == c.box
            r == answer[m]
<1>1. /\ c.op = "check" /\ m \in Accounts
      /\ UNCHANGED <<guarded, raced, edited>>
      /\ \A k \in Accounts \ {m} : lifecycle'[k] = lifecycle[k] /\ streak'[k] = streak[k]
      /\ lifecycle'[m] = Written(lifecycle[m], c.status, Advanced(m, r, c.status, Counted(r, c.count)))
      /\ m \notin raced => streak'[m] = Counted(r, streak[m])
  BY JudgeWrites
<1>2. m \notin raced \cup edited =>
        /\ c.count = streak[m]
        /\ c.status = "QUARANTINED" <=> lifecycle[m] = "QUARANTINED"
  BY <1>1 DEF HealthInv, CopyFresh, ShowsItsChecks
<1>3. streak[m] \in Nat /\ streak[m] <= FailureCap /\ FailureCap \in Nat /\ FailureThreshold \in Nat
      /\ FailureThreshold <= FailureCap
  BY <1>1, HealthAssumption DEF HealthInv, HealthTyped
<1>. HIDE DEF c, m, r
<1>4. ASSUME m \notin raced \cup edited
      PROVE  lifecycle'[m] = "QUARANTINED" <=> guarded[m] /\ streak'[m] >= FailureThreshold
  <2>1. lifecycle[m] = "QUARANTINED" <=> guarded[m] /\ streak[m] >= FailureThreshold
    BY <1>1, <1>4 DEF QuarantinedByFailures
  <2>2. CASE Ok(r)
    <3>1. streak'[m] = 0 /\ ~(streak'[m] >= FailureThreshold)
      BY <1>1, <1>3, <1>4, <2>2 DEF Counted
    <3>2. lifecycle'[m] # "QUARANTINED"
      BY <1>1, <1>2, <1>4, <2>2 DEF Advanced, Written
    <3>. QED  BY <3>1, <3>2
  <2>3. CASE ~Ok(r)
    <3>1. /\ streak'[m] = OneMoreFailure(streak[m]) /\ Counted(r, c.count) = OneMoreFailure(streak[m])
      BY <1>1, <1>2, <1>4, <2>3 DEF Counted
    <3>2. streak'[m] \in Nat /\ streak'[m] >= streak[m]
      BY <1>3, <3>1 DEF OneMoreFailure
    <3>3. CASE guarded[m] /\ streak'[m] >= FailureThreshold
      <4>1. Advanced(m, r, c.status, Counted(r, c.count)) = "QUARANTINED"
        BY <2>3, <3>1, <3>3 DEF Advanced, ToQuarantine
      <4>. QED  BY <1>1, <1>2, <1>4, <3>3, <4>1 DEF Written
    <3>4. CASE ~(guarded[m] /\ streak'[m] >= FailureThreshold)
      <4>1. Advanced(m, r, c.status, Counted(r, c.count)) = c.status
        BY <2>3, <3>1, <3>4 DEF Advanced, ToQuarantine
      <4>2. lifecycle'[m] = lifecycle[m]
        BY <1>1, <4>1 DEF Written
      <4>. QED  BY <1>3, <2>1, <3>2, <3>4, <4>2
    <3>. QED  BY <3>3, <3>4
  <2>. QED  BY <2>2, <2>3
<1>. QED  BY <1>1, <1>4 DEF QuarantinedByFailures

\* The rest leaves mailboxes where they are, or has an operator's hand in it.
LEMMA QuarantineKept ==
  ASSUME HealthInv, QuarantinedByFailures, FailureThreshold > 0, [HealthNext]_healthVars
  PROVE  QuarantinedByFailures'
<1>1. CASE UNCHANGED healthVars
  BY <1>1 DEF healthVars, mailboxVars, historyVars, QuarantinedByFailures
<1>2. ASSUME NEW s \in Checkers, NEW m \in Accounts, NEW copy, Load(s, m, copy)
      PROVE  QuarantinedByFailures'
  <2>1. /\ UNCHANGED <<lifecycle, guarded, edited>> /\ raced \subseteq raced'
        /\ \A k \in Accounts \ raced' : streak'[k] = streak[k]
    BY <1>2 DEF Load, mailboxVars, HealthInv, HealthTyped
  <2>. QED  BY <2>1 DEF QuarantinedByFailures
<1>3. ASSUME NEW s \in Checkers, Judge(s)
      PROVE  QuarantinedByFailures'
  BY <1>3, JudgeQuarantines
<1>4. ASSUME NEW s \in Checkers, LastSyncFails(s) \/ SyncEnds(s) \/ CheckHangs(s) \/ CheckDies(s)
      PROVE  QuarantinedByFailures'
  BY <1>4 DEF LastSyncFails, SyncEnds, CheckHangs, CheckDies, mailboxVars, historyVars, QuarantinedByFailures
<1>5. ASSUME NEW m \in Accounts,
             \/ \E status \in OperatorSets : SetStatus(m, status)
             \/ SetPool(m)
             \/ Lend(m) \/ GiveBack(m) \/ CooldownOver(m)
             \/ \E r \in Outcomes(adapter[m]) : Turn(m, r)
      PROVE  QuarantinedByFailures'
  <2>1. /\ UNCHANGED <<streak, raced>> /\ edited \subseteq edited'
        /\ \A k \in Accounts \ edited' :
             guarded'[k] = guarded[k] /\ (lifecycle'[k] = "QUARANTINED") = (lifecycle[k] = "QUARANTINED")
    BY <1>5, OthersDo
  <2>. QED  BY <2>1 DEF QuarantinedByFailures
<1>. QED  BY <1>1, <1>2, <1>3, <1>4, <1>5 DEF HealthNext, ManualCheck, ScheduledCheck, SyncLoads

\* Where the pools allow one failure at least (the API lets an operator set none),
\* only failures bring a mailbox into quarantine, and they do so.
THEOREM FailuresQuarantine ==
  ASSUME FailureThreshold > 0
  PROVE  HealthSpec => []QuarantinedByFailures
<1>. DEFINE Inv == HealthInv /\ QuarantinedByFailures
<1>1. HealthInit => Inv
  <2>1. HealthInit => QuarantinedByFailures
    BY HealthAssumption DEF HealthInit, QuarantinedByFailures
  <2>. QED  BY <2>1, HealthStart
<1>2. Inv /\ [HealthNext]_healthVars => Inv'
  BY HealthKept, QuarantineKept
<1>3. Inv => QuarantinedByFailures
  OBVIOUS
<1>. HIDE DEF Inv
<1>. QED  BY <1>1, <1>2, <1>3, PTL DEF HealthSpec
=============================================================================

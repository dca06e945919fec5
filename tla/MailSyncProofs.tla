--------------------------- MODULE MailSyncProofs ---------------------------
(***************************************************************************)
(* Theorems about MailSync, for every set of mailboxes and sessions, every *)
(* number of mails and every cap.                                          *)
(***************************************************************************)
EXTENDS MailSync, FiniteSetTheorems, WellFoundedInduction, TLAPS

-----------------------------------------------------------------------------
(* The latest position *)

\* A set of naturals that has a bound has a maximum: the one above which the
\* fewest numbers are.
LEMMA MaxExists ==
  ASSUME NEW S \in SUBSET Nat, S # {}, NEW b \in Nat, \A x \in S : x <= b
  PROVE  Max(S) \in S /\ \A x \in S : x <= Max(S)
<1>. DEFINE T == {(x + 1)..b : x \in S}
<1>1. T \subseteq FiniteSubsetsOf(Nat) /\ T # {}
  <2>1. ASSUME NEW x \in S
        PROVE  (x + 1)..b \in FiniteSubsetsOf(Nat)
    BY FS_Interval DEF FiniteSubsetsOf
  <2>. QED  BY <2>1
<1>2. PICK t \in T : \A u \in T : ~(<<u, t>> \in StrictSubsetOrdering(Nat))
  <2>. HIDE DEF T
  <2>. QED  BY <1>1, FS_StrictSubsetOrderingWellFounded, WFMin, Zenon
<1>3. PICK m \in S : t = (m + 1)..b
  OBVIOUS
<1>4. ASSUME NEW x \in S
      PROVE  x <= m
  <2>1. (x + 1)..b \in T
    OBVIOUS
  <2>2. ASSUME m < x
        PROVE  FALSE
    <3>1. (x + 1)..b \subseteq (m + 1)..b /\ (x + 1)..b # (m + 1)..b
      <4>1. x \in (m + 1)..b /\ x \notin (x + 1)..b
        BY <2>2
      <4>. QED  BY <4>1, <2>2
    <3>2. (x + 1)..b \in SUBSET Nat /\ (m + 1)..b \in SUBSET Nat
      OBVIOUS
    <3>3. <<(x + 1)..b, (m + 1)..b>> \in StrictSubsetOrdering(Nat)
      BY <3>1, <3>2 DEF StrictSubsetOrdering
    <3>. QED  BY <3>3, <1>2, <1>3, <2>1
  <2>. QED  BY <2>2
<1>5. \E y \in S : \A x \in S : y >= x
  BY <1>4
<1>. QED  BY <1>5 DEF Max

\* A position is a natural number no greater than the mail's number.
LEMMA PositionType ==
  ASSUME MailTypeOK, NEW e \in Mails
  PROVE  Position(e) \in Nat /\ Position(e) <= e[2] /\ e[2] \in 1..MaxMail /\ e[1] \in Inboxes
  BY MailAssumption DEF MailTypeOK, Mails, Position, Second

\* Where a sync leaves the cursor: at its start, or at one of the mails it has
\* fetched, and behind none of them.
LEMMA CursorAfterType ==
  ASSUME MailTypeOK, NEW since \in Nat, NEW got \in SUBSET Mails
  PROVE  /\ CursorAfter(since, got) \in {since} \cup {Position(e) : e \in got}
         /\ CursorAfter(since, got) \in Nat
         /\ since <= CursorAfter(since, got)
         /\ \A e \in got : Position(e) <= CursorAfter(since, got)
<1>. DEFINE S == {since} \cup {Position(e) : e \in got}
<1>1. S \in SUBSET Nat /\ S # {}
  BY PositionType
<1>2. since + MaxMail \in Nat
  BY MailAssumption
<1>3. \A x \in S : x <= since + MaxMail
  <2>1. ASSUME NEW e \in got
        PROVE  Position(e) <= since + MaxMail
    BY PositionType, MailAssumption
  <2>. QED  BY <2>1, MailAssumption
<1>4. Max(S) \in S /\ \A x \in S : x <= Max(S)
  <2>. HIDE DEF S
  <2>. QED  BY <1>1, <1>2, <1>3, MaxExists
<1>. QED  BY <1>1, <1>4 DEF CursorAfter

-----------------------------------------------------------------------------
(* Type correctness *)

SyncJobs ==
  [op : {"none", "ask", "hung", "sync", "push"}, box : Inboxes \cup {Nobody},
   since : Nat, batch : SUBSET Mails, next : Nat, checked : BOOLEAN]

\* The ways in which sessions change are of the right type.
LEMMA SyncTypes ==
  /\ NoJob \in SyncJobs /\ HungSync \in SyncJobs
  /\ \A m \in Inboxes, n \in Nat : Asking(m, n) \in SyncJobs
  /\ \A m \in Inboxes \cup {Nobody}, batch \in SUBSET Mails, n \in Nat : Holding(m, batch, n) \in SyncJobs
  /\ \A e \in Mails : Pushed(e) \in SyncJobs
  /\ \A r \in SyncJobs, e \in Mails : r.op \in {"sync", "push"} => Dropped(r, e) \in SyncJobs /\ LookedUp(r) \in SyncJobs
  BY DEF SyncJobs, NoJob, HungSync, Asking, Holding, Pushed, Dropped, LookedUp, Job, Mails

LEMMA MailTypeInit == MailInit => MailTypeOK
<1>. SUFFICES ASSUME MailInit PROVE MailTypeOK
  OBVIOUS
<1>1. unreadable \subseteq Mails
  BY DEF MailInit
<1>2. job \in [Workers -> SyncJobs]
  BY SyncTypes DEF MailInit
<1>3. inbox \in [Inboxes -> 0..MaxMail] /\ cursor \in [Inboxes -> Nat] /\ rows \in [Mails -> Nat]
  BY MailAssumption DEF MailInit
<1>. QED  BY <1>1, <1>2, <1>3 DEF MailInit, MailTypeOK, SyncJobs

LEMMA MailTypeStep == MailTypeOK /\ [MailNext]_mailVars => MailTypeOK'
<1>. SUFFICES ASSUME MailTypeOK, [MailNext]_mailVars
              PROVE  MailTypeOK'
  OBVIOUS
<1>. USE DEF MailTypeOK
<1>0. job \in [Workers -> SyncJobs]
  BY DEF SyncJobs
<1>1. ASSUME NEW m \in Inboxes, Arrive(m)
      PROVE  MailTypeOK'
  BY <1>1, MailAssumption DEF Arrive
<1>2. ASSUME NEW s \in Workers, NEW m \in Inboxes, SyncRead(s, m)
      PROVE  MailTypeOK'
  <2>1. job' \in [Workers -> SyncJobs]
    BY <1>0, <1>2, SyncTypes DEF SyncRead
  <2>. QED  BY <1>2, <2>1 DEF SyncRead, SyncJobs
<1>3. ASSUME NEW s \in Workers, NEW failed \in SUBSET Mails, SyncFetch(s, failed)
      PROVE  MailTypeOK'
  <2>. DEFINE r == job[s]
              got == Newest(NewFrom(r.box, r.since)) \ failed
              next == CursorAfter(r.since, got)
  <2>1. got \in SUBSET Mails /\ r.since \in Nat /\ r.box \in Inboxes \cup {Nobody}
    BY <1>0 DEF Newest, NewFrom, SyncJobs
  <2>2. next \in Nat
    BY <2>1, CursorAfterType
  <2>3. job' \in [Workers -> SyncJobs]
    <3>1. Holding(r.box, got, next) \in SyncJobs
      BY <2>1, <2>2, SyncTypes
    <3>. QED  BY <1>0, <1>3, <3>1 DEF SyncFetch
  <2>4. lost' \subseteq Mails
    BY <1>3 DEF SyncFetch, NewFrom
  <2>. QED  BY <1>3, <2>3, <2>4 DEF SyncFetch, SyncJobs
<1>4. ASSUME NEW s \in Workers, NEW e \in Mails, Push(s, e)
      PROVE  MailTypeOK'
  <2>1. job' \in [Workers -> SyncJobs]
    BY <1>0, <1>4, SyncTypes DEF Push
  <2>. QED  BY <1>4, <2>1 DEF Push, SyncJobs
<1>5. ASSUME NEW s \in Workers, NEW e \in Mails, Known(s, e) \/ Unknown(s, e)
      PROVE  MailTypeOK'
  <2>1. job' \in [Workers -> SyncJobs]
    BY <1>0, <1>5, SyncTypes DEF Known, Unknown, NextMail
  <2>. QED  BY <1>5, <2>1 DEF Known, Unknown, SyncJobs
<1>6. ASSUME NEW s \in Workers, NEW e \in Mails, Ingest(s, e)
      PROVE  MailTypeOK'
  <2>1. job' \in [Workers -> SyncJobs]
    BY <1>0, <1>6, SyncTypes DEF Ingest, NextMail
  <2>2. rows' \in [Mails -> Nat]
    BY <1>6 DEF Ingest
  <2>. QED  BY <1>6, <2>1, <2>2 DEF Ingest, SyncJobs
<1>7. ASSUME NEW s \in Workers, NEW e \in Mails, Refused(s, e)
      PROVE  MailTypeOK'
  <2>1. job' \in [Workers -> SyncJobs]
    BY <1>0, <1>7, SyncTypes DEF Refused
  <2>. QED  BY <1>7, <2>1 DEF Refused, SyncJobs
<1>8. ASSUME NEW s \in Workers, Commit(s)
      PROVE  MailTypeOK'
  <2>1. job' \in [Workers -> SyncJobs]
    BY <1>0, <1>8, SyncTypes DEF Commit
  <2>2. cursor' \in [Inboxes -> Nat]
    BY <1>0, <1>8 DEF Commit, SyncJobs
  <2>. QED  BY <1>8, <2>1, <2>2 DEF Commit, SyncJobs
<1>9. ASSUME NEW s \in Workers, Abort(s) \/ AbortKeeping(s)
      PROVE  MailTypeOK'
  <2>1. job' \in [Workers -> SyncJobs]
    BY <1>0, <1>9, SyncTypes DEF Abort, AbortKeeping
  <2>2. crashes' \in Nat
    BY <1>9 DEF Abort, AbortKeeping
  <2>. QED  BY <1>9, <2>1, <2>2 DEF Abort, AbortKeeping, SyncJobs
<1>10. ASSUME NEW s \in Workers, SyncRaises(s) \/ Hang(s)
       PROVE  MailTypeOK'
  <2>1. job' \in [Workers -> SyncJobs]
    BY <1>0, <1>10, SyncTypes DEF SyncRaises, Hang
  <2>. QED  BY <1>10, <2>1 DEF SyncRaises, Hang, SyncJobs
<1>11. CASE UNCHANGED mailVars
  BY <1>11 DEF mailVars
<1>. QED  BY <1>1, <1>2, <1>3, <1>4, <1>5, <1>6, <1>7, <1>8, <1>9, <1>10, <1>11
          DEF MailNext, SessionStep

\* Every variable of a sync keeps its type; the cursor is a number whatever is
\* fetched.
THEOREM MailTyping == MailSpec => []MailTypeOK
  BY MailTypeInit, MailTypeStep, PTL DEF MailSpec

-----------------------------------------------------------------------------
(* Nothing behind the cursor *)

Accounted(e) == KeyStored(e) \/ e \in lost

\* What a session has read, and what it is about to write, is as safe as the cursor:
\* the mails behind the position from which it asks are accounted for, and so are
\* those behind the one it will leave, but for the mails it still has to store.
JobOK(s) ==
  \A e \in Mails :
    Pulled(e[1]) /\ e[1] = job[s].box =>
      /\ job[s].op = "ask" /\ Behind(e, job[s].since) => Accounted(e)
      /\ job[s].op = "sync" /\ Behind(e, job[s].next) => Accounted(e) \/ e \in job[s].batch

CursorInv == NothingBehindCursor /\ \A s \in Workers : JobOK(s)

\* A mail behind the position a sync leaves is behind the one it began at, has been
\* fetched, or has been left out.
LEMMA FetchCovers ==
  ASSUME MailTypeOK, NEW m \in Inboxes, NEW since \in Nat, NEW got \in SUBSET NewFrom(m, since),
         NEW e \in Mails, e[1] = m, Pulled(m), Behind(e, CursorAfter(since, got))
  PROVE  \/ Behind(e, since)
         \/ e \in got
         \/ e \in NewFrom(m, since) \ got /\ Position(e) <= CursorAfter(since, got)
<1>. DEFINE next == CursorAfter(since, got)
<1>1. got \in SUBSET Mails
  BY DEF NewFrom
<1>2. next \in {since} \cup {Position(f) : f \in got} /\ next \in Nat
  BY <1>1, CursorAfterType
<1>3. Position(e) \in Nat /\ e[2] \in 1..MaxMail
  BY PositionType
<1>4. CASE next = since
  BY <1>4
<1>5. CASE next # since
  <2>1. PICK f \in got : next = Position(f)
    BY <1>2, <1>5
  <2>2. f \in Mails /\ f[1] = m /\ f[2] <= inbox[m] /\ f[2] \in 1..MaxMail /\ inbox[m] \in Nat
    BY <1>1, PositionType DEF NewFrom, MailTypeOK
  <2>3. Position(e) <= next /\ e[2] <= f[2]
    BY <1>3, <2>1, <2>2 DEF Behind, Position, Second
  <2>4. e[2] <= inbox[m]
    BY <1>3, <2>2, <2>3
  <2>5. ~Behind(e, since) => e \in NewFrom(m, since)
    BY <1>3, <2>4 DEF NewFrom, Behind
  <2>. QED  BY <2>3, <2>5
<1>. QED  BY <1>4, <1>5

\* What is stored stays so, and what has been left out.
Grows ==
  /\ provider' = provider /\ lost \subseteq lost'
  /\ \A f \in Mails : rows[f] > 0 => rows'[f] > 0

LEMMA AccountedStays ==
  ASSUME NEW e \in Mails, Accounted(e), Grows
  PROVE  Accounted(e)'
  BY DEF Accounted, KeyStored, DedupeKey, Grows

\* A session that a step is not of, and a cursor it does not write, stay as safe as
\* they are.
LEMMA OthersStay ==
  ASSUME Grows, NEW o \in Workers, JobOK(o), job'[o] = job[o]
  PROVE  JobOK(o)'
<1>1. \A e \in Mails : Accounted(e) => Accounted(e)'
  BY AccountedStays
<1>. QED  BY <1>1 DEF JobOK, Behind, Position, Pulled, Grows

LEMMA CursorStays ==
  ASSUME Grows, NothingBehindCursor, cursor' = cursor
  PROVE  NothingBehindCursor'
<1>1. \A e \in Mails : Accounted(e) => Accounted(e)'
  BY AccountedStays
<1>. QED  BY <1>1 DEF NothingBehindCursor, Accounted, Behind, Position, Pulled, Grows

\* The steps that leave the cursor alone: one lemma for each that changes what a
\* session has to store.
LEMMA ReadSafe ==
  ASSUME MailTypeOK, CursorInv, NEW s \in Workers, NEW m \in Inboxes, SyncRead(s, m)
  PROVE  JobOK(s)'
<1>1. job'[s] = Asking(m, cursor[m])
  BY DEF SyncRead, MailTypeOK
<1>2. ASSUME NEW e \in Mails, Pulled(e[1]), e[1] = m, Behind(e, cursor[m])
      PROVE  Accounted(e)
  BY <1>2 DEF CursorInv, NothingBehindCursor, Accounted
<1>3. Grows
  BY DEF SyncRead, Grows
<1>. QED  BY <1>1, <1>2, <1>3, AccountedStays
          DEF JobOK, Asking, Job, Behind, Position, Pulled, Grows

LEMMA FetchSafe ==
  ASSUME MailTypeOK, CursorInv, NEW s \in Workers, NEW failed \in SUBSET Mails, SyncFetch(s, failed)
  PROVE  JobOK(s)'
<1>. DEFINE r == job[s]
            mails == NewFrom(r.box, r.since)
            got == Newest(mails) \ failed
            next == CursorAfter(r.since, got)
<1>1. /\ job'[s] = Holding(r.box, got, next)
      /\ lost' = lost \cup {e \in mails \ got : Position(e) <= next}
      /\ r.op = "ask" /\ Grows
  BY DEF SyncFetch, MailTypeOK, Grows
<1>2. ASSUME NEW e \in Mails, Pulled(e[1]), e[1] = r.box, Behind(e, next)
      PROVE  Accounted(e)' \/ e \in got
  <2>1. r.box \in Inboxes /\ r.since \in Nat /\ got \in SUBSET mails
    BY <1>2 DEF MailTypeOK, Mails, Newest
  <2>2. CASE Behind(e, r.since)
    <3>1. Accounted(e)
      BY <1>1, <1>2, <2>2 DEF CursorInv, JobOK
    <3>. QED  BY <3>1, <1>1, AccountedStays
  <2>3. CASE e \in mails \ got /\ Position(e) <= next
    BY <1>1, <2>3 DEF Accounted
  <2>4. \/ Behind(e, r.since) \/ e \in got
        \/ e \in mails \ got /\ Position(e) <= next
    BY <1>2, <2>1, FetchCovers
  <2>. QED  BY <2>2, <2>3, <2>4
<1>. HIDE DEF got, next, mails
<1>3. /\ job'[s].op = "sync" /\ job'[s].box = r.box /\ job'[s].next = next
      /\ job'[s].batch = got
  BY <1>1 DEF Holding, Job
<1>. QED  BY <1>1, <1>2, <1>3 DEF JobOK, Behind, Position, Pulled, Grows

LEMMA MailSafe ==
  ASSUME MailTypeOK, CursorInv, NEW s \in Workers, NEW e \in Mails,
         Known(s, e) \/ Unknown(s, e) \/ Ingest(s, e)
  PROVE  Grows /\ JobOK(s)'
<1>1. Grows
  <2>1. CASE rows' = rows
    BY <2>1 DEF Grows, Known, Unknown, Ingest
  <2>2. CASE Ingest(s, e)
    <3>1. \A f \in Mails : rows[f] > 0 => rows'[f] > 0
      BY <2>2 DEF Ingest, MailTypeOK
    <3>. QED  BY <2>2, <3>1 DEF Grows, Ingest
  <2>. QED  BY <2>1, <2>2 DEF Known, Unknown
<1>2. job[s].op \in {"sync", "push"} /\ JobOK(s)
  BY DEF Known, Unknown, Ingest, NextMail, CursorInv
<1>3. CASE Unknown(s, e)
  <2>1. job'[s] = LookedUp(job[s])
    BY <1>3 DEF Unknown, MailTypeOK
  <2>2. /\ job'[s].op = job[s].op /\ job'[s].box = job[s].box
        /\ job'[s].next = job[s].next /\ job'[s].batch = job[s].batch
    BY <2>1 DEF LookedUp, Job
  <2>. QED  BY <1>1, <1>2, <2>2, AccountedStays DEF JobOK, Behind, Position, Pulled, Grows
<1>4. CASE Known(s, e) \/ Ingest(s, e)
  <2>1. job'[s] = Dropped(job[s], e)
    BY <1>4 DEF Known, Ingest, MailTypeOK
  <2>2. /\ job'[s].op = job[s].op /\ job'[s].box = job[s].box
        /\ job'[s].next = job[s].next /\ job'[s].batch = job[s].batch \ {e}
    BY <2>1 DEF Dropped, Job
  <2>3. Accounted(e)'
    <3>1. CASE Known(s, e)
      BY <3>1, <1>1, AccountedStays DEF Known, Accounted
    <3>2. CASE Ingest(s, e)
      <4>1. rows'[e] > 0
        BY <3>2 DEF Ingest, MailTypeOK
      <4>. QED  BY <4>1 DEF Accounted, KeyStored
    <3>. QED  BY <1>4, <3>1, <3>2
  <2>. QED  BY <1>1, <1>2, <2>2, <2>3, AccountedStays DEF JobOK, Behind, Position, Pulled, Grows
<1>. QED  BY <1>1, <1>3, <1>4

\* A commit writes a position behind which everything is accounted for.
LEMMA CommitSafe ==
  ASSUME MailTypeOK, CursorInv, NEW s \in Workers, Commit(s)
  PROVE  Grows /\ NothingBehindCursor' /\ JobOK(s)'
<1>1. Grows
  BY DEF Commit, Grows
<1>2. JobOK(s)'
  <2>1. job'[s] = NoJob
    BY DEF Commit, MailTypeOK
  <2>. QED  BY <2>1 DEF JobOK, NoJob, Job
<1>3. ASSUME cursor' = cursor
      PROVE  NothingBehindCursor'
  BY <1>1, <1>3, CursorStays DEF CursorInv
<1>4. ASSUME job[s].op = "sync"
      PROVE  NothingBehindCursor'
  <2>. DEFINE m == job[s].box
  <2>1. cursor' = [cursor EXCEPT ![m] = job[s].next] /\ job[s].batch = {}
    BY <1>4 DEF Commit, Ingested
  <2>2. ASSUME NEW e \in Mails, Pulled(e[1]), Behind(e, cursor'[e[1]])
        PROVE  Accounted(e)
    <3>1. CASE e[1] # m
      BY <2>1, <2>2, <3>1 DEF MailTypeOK, Mails, CursorInv, NothingBehindCursor, Accounted
    <3>2. CASE e[1] = m
      <4>1. cursor'[e[1]] = job[s].next
        BY <2>1, <3>2 DEF MailTypeOK, Mails
      <4>. QED  BY <1>4, <2>1, <2>2, <3>2, <4>1 DEF CursorInv, JobOK
    <3>. QED  BY <3>1, <3>2
  <2>. QED  BY <1>1, <2>2, AccountedStays
            DEF NothingBehindCursor, Accounted, Behind, Position, Pulled, Grows
<1>. QED  BY <1>1, <1>2, <1>3, <1>4 DEF Commit

LEMMA CursorStep == MailTypeOK /\ CursorInv /\ [MailNext]_mailVars => CursorInv'
<1>. SUFFICES ASSUME MailTypeOK, CursorInv, [MailNext]_mailVars
              PROVE  CursorInv'
  OBVIOUS
\* A step of a session s that keeps the cursor.
<1>1. ASSUME NEW s \in Workers, Grows, cursor' = cursor, JobOK(s)',
             \A o \in Workers \ {s} : job'[o] = job[o]
      PROVE  CursorInv'
  BY <1>1, OthersStay, CursorStays DEF CursorInv
<1>2. CASE UNCHANGED <<provider, cursor, rows, job, lost>>
  <2>1. Grows
    BY <1>2 DEF Grows
  <2>. QED  BY <1>2, <2>1, OthersStay, CursorStays DEF CursorInv
<1>3. ASSUME NEW s \in Workers, NEW m \in Inboxes, SyncRead(s, m)
      PROVE  CursorInv'
  <2>1. Grows /\ cursor' = cursor /\ \A o \in Workers \ {s} : job'[o] = job[o]
    BY <1>3 DEF SyncRead, Grows, MailTypeOK
  <2>. QED  BY <1>1, <1>3, <2>1, ReadSafe
<1>4. ASSUME NEW s \in Workers, NEW failed \in SUBSET Mails, SyncFetch(s, failed)
      PROVE  CursorInv'
  <2>1. Grows /\ cursor' = cursor /\ \A o \in Workers \ {s} : job'[o] = job[o]
    BY <1>4 DEF SyncFetch, Grows, MailTypeOK
  <2>. QED  BY <1>1, <1>4, <2>1, FetchSafe
<1>5. ASSUME NEW s \in Workers, NEW e \in Mails, Known(s, e) \/ Unknown(s, e) \/ Ingest(s, e)
      PROVE  CursorInv'
  <2>1. cursor' = cursor /\ \A o \in Workers \ {s} : job'[o] = job[o]
    BY <1>5 DEF Known, Unknown, Ingest, MailTypeOK
  <2>2. Grows /\ JobOK(s)'
    BY <1>5, MailSafe
  <2>. QED  BY <1>1, <2>1, <2>2
<1>6. ASSUME NEW s \in Workers,
             \/ \E e \in Mails : Push(s, e) \/ Refused(s, e)
             \/ Abort(s) \/ AbortKeeping(s) \/ SyncRaises(s) \/ Hang(s)
      PROVE  CursorInv'
  <2>1. Grows /\ cursor' = cursor /\ \A o \in Workers \ {s} : job'[o] = job[o]
    BY <1>6 DEF Push, Refused, Abort, AbortKeeping, SyncRaises, Hang, Grows, MailTypeOK
  <2>2. job'[s].op \in {"none", "push", "hung"}
    <3>1. ASSUME job' = [job EXCEPT ![s] = NoJob]
          PROVE  job'[s].op = "none"
      BY <3>1 DEF NoJob, Job, MailTypeOK
    <3>2. ASSUME NEW e \in Mails, Push(s, e)
          PROVE  job'[s].op = "push"
      BY <3>2 DEF Push, Pushed, Job, MailTypeOK
    <3>3. ASSUME Hang(s)
          PROVE  job'[s].op = "hung"
      BY <3>3 DEF Hang, HungSync, Job, MailTypeOK
    <3>. QED  BY <1>6, <3>1, <3>2, <3>3 DEF Refused, Abort, AbortKeeping, SyncRaises
  <2>3. JobOK(s)'
    BY <2>2 DEF JobOK
  <2>. QED  BY <1>1, <2>1, <2>3
<1>7. ASSUME NEW s \in Workers, Commit(s)
      PROVE  CursorInv'
  <2>1. \A o \in Workers \ {s} : job'[o] = job[o]
    BY <1>7 DEF Commit, MailTypeOK
  <2>2. Grows /\ NothingBehindCursor' /\ JobOK(s)'
    BY <1>7, CommitSafe
  <2>. QED  BY <2>1, <2>2, OthersStay DEF CursorInv
<1>. QED  BY <1>2, <1>3, <1>4, <1>5, <1>6, <1>7 DEF MailNext, SessionStep, Arrive, mailVars

\* Whatever crashes, overlaps or is written from an old copy, a cursor passes only
\* mails that are stored, or that a sync has left out itself.
THEOREM CursorSafe == MailSpec => []NothingBehindCursor
<1>1. MailInit => CursorInv
  <2>. SUFFICES ASSUME MailInit PROVE CursorInv
    OBVIOUS
  <2>1. MailTypeOK
    BY MailTypeInit
  <2>2. \A s \in Workers : JobOK(s)
    BY DEF MailInit, JobOK, NoJob, Job
  <2>3. \A e \in Mails : ~Behind(e, cursor[e[1]])
    BY MailAssumption DEF MailInit, Mails, Behind, Position, Second
  <2>. QED  BY <2>2, <2>3 DEF CursorInv, NothingBehindCursor
<1>2. CursorInv => NothingBehindCursor
  BY DEF CursorInv
<1>. QED  BY <1>1, <1>2, CursorStep, MailTyping, PTL DEF MailSpec
=============================================================================

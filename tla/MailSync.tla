------------------------------ MODULE MailSync ------------------------------
(***************************************************************************)
(* How mail gets from a provider into the table of messages: the cursor of *)
(* each mailbox, what a sync fetches, the dedupe key, inbound pushes that  *)
(* may come twice.  What becomes of a message that is stored is in         *)
(* MailParser and TaskPool.                                                *)
(*                                                                         *)
(* A handler is a session of several steps, as in TaskPool: it loads the   *)
(* mailbox, awaits the provider, looks a key up without a lock, and from   *)
(* its first INSERT (lock = s) to its commit is alone.                     *)
(***************************************************************************)
EXTENDS Integers, FiniteSets, FiniteSetsExt

CONSTANTS
  Inboxes,     \* rows of mailboxes
  Kinds,       \* the providers there are: of "imap", "outlook" and "cloudflare"
  MaxMail,     \* mails that reach a mailbox in this instance
  Cap,         \* mails a sync fetches at most: 100, or 20 pages of 50
  InternetId,  \* internetMessageId of an Outlook mail, messageId of a pushed one
  Workers,     \* sessions of queue workers and API handlers
  MaxCrash,    \* handlers that die, or whose provider raises, in this instance
  Nobody       \* NULL

\* The n-th mail to arrive in mailbox m.
Mails == Inboxes \X (1..MaxMail)

ASSUME MailAssumption ==
  /\ Kinds \subseteq {"imap", "outlook", "cloudflare"}
  /\ MaxMail \in Nat /\ Cap \in Nat \ {0} /\ MaxCrash \in Nat
  /\ InternetId \in [Mails -> Nat]
  /\ Nobody \notin Inboxes \cup Workers

VARIABLES
  provider, \* Mailbox.provider_type, which never changes
  unreadable, \* mails whose charset is unknown: parse_raw_message() raises
  inbox,    \* at the provider: how many mails the mailbox has received
  cursor,   \* Mailbox.metadata_json["sync_cursor"]: last_uid or received_since
  rows,     \* the rows of messages for a mail
  job,      \* what each session holds
  lock,     \* the session that holds the write lock
  lost,     \* history: mails a sync left out while its cursor passed them
  crashes   \* history: handlers that have died

mailVars == <<provider, unreadable, inbox, cursor, rows, job, lock, lost, crashes>>

-----------------------------------------------------------------------------
(* Providers *)

\* Graph's times do not tell all mails apart: two in a row share one.
Second(n) == (n + 1) \div 2

\* What the cursor counts: the uid, or receivedDateTime.
Position(e) == IF provider[e[1]] = "outlook" THEN Second(e[2]) ELSE e[2]

Pulled(m) == provider[m] # "cloudflare"

\* (mutant: Graph's filter with gt)
NewFromAfter(m, since) ==
  {e \in Mails : e[1] = m /\ e[2] <= inbox[m] /\ Pulled(m) /\ Position(e) > since}

\* What the search or the $filter of sync_incremental() selects: uids above
\* last_uid, times from received_since on, and nothing where mail is pushed.
NewFrom(m, since) ==
  {e \in Mails :
     /\ e[1] = m /\ e[2] <= inbox[m] /\ Pulled(m)
     /\ IF provider[m] = "outlook" THEN Position(e) >= since ELSE Position(e) > since}

\* Both keep the newest when there are too many.
Newest(mails) == {e \in mails : Cardinality({f \in mails : f[2] > e[2]}) < Cap}

\* (mutant: NULL where nothing has come)
CursorAfterNone(since, got) == IF got = {} THEN Nobody ELSE Max({Position(e) : e \in got})

\* max_uid, max_dt
CursorAfter(since, got) == Max({since} \cup {Position(e) : e \in got})

\* IMAP hands the mails out by uid, Graph by time, newest first.
IsNext(e, batch) ==
  /\ e \in batch
  /\ \A f \in batch : IF provider[e[1]] = "outlook" THEN f[2] <= e[2] ELSE f[2] >= e[2]

\* _dedupe_key(): for IMAP the id is "uid-<n>"
DedupeKey(e) ==
  LET m == e[1] IN
  <<provider[m], IF provider[m] = "imap" THEN e[2] ELSE InternetId[e]>>

\* The SELECT on dedupe_key.
KeyStored(e) == \E f \in Mails : rows[f] > 0 /\ DedupeKey(f) = DedupeKey(e)

\* UniqueConstraint("dedupe_key") refuses another row.
Conflict(e) == \E f \in Mails : rows[f] > 0 /\ DedupeKey(f) = DedupeKey(e)

-----------------------------------------------------------------------------
(* Sessions *)

Job(op, box, since, batch, next, checked) ==
  [op |-> op, box |-> box, since |-> since, batch |-> batch, next |-> next, checked |-> checked]

\* No session; waiting for the provider; waiting for ever, when what it has read matters
\* no more; with mails to store; with one that was pushed.
NoJob == Job("none", Nobody, 0, {}, 0, FALSE)
Asking(m, since) == Job("ask", m, since, {}, 0, FALSE)
HungSync == Job("hung", Nobody, 0, {}, 0, FALSE)
Holding(m, batch, next) == Job("sync", m, 0, batch, next, FALSE)
Pushed(e) == Job("push", e[1], 0, {e}, 0, FALSE)

\* The session's mails without the one it is done with, or with that one looked up.
Dropped(r, e) == Job(r.op, r.box, r.since, r.batch \ {e}, r.next, FALSE)
LookedUp(r) == Job(r.op, r.box, r.since, r.batch, r.next, TRUE)

MailInit ==
  /\ provider \in [Inboxes -> Kinds]
  /\ unreadable \in SUBSET {e \in Mails : provider[e[1]] = "imap"}
  /\ inbox = [m \in Inboxes |-> 0]
  /\ cursor = [m \in Inboxes |-> 0]
  /\ rows = [e \in Mails |-> 0]
  /\ job = [s \in Workers |-> NoJob]
  /\ lock = Nobody
  /\ lost = {} /\ crashes = 0

MayWrite(s) == lock \in {Nobody, s}

-----------------------------------------------------------------------------
(* The sync of a mailbox: run_sync() *)

Arrive(m) ==
  /\ inbox[m] < MaxMail
  /\ inbox' = [inbox EXCEPT ![m] = inbox[m] + 1]
  /\ UNCHANGED <<provider, unreadable, cursor, rows, job, lock, lost, crashes>>

\* The session loads the mailbox, and with it the cursor.
SyncRead(s, m) ==
  /\ job[s] = NoJob
  /\ job' = [job EXCEPT ![s] = Asking(m, cursor[m])]
  /\ UNCHANGED <<provider, unreadable, inbox, cursor, rows, lock, lost, crashes>>

\* The mails of which one is enough to make the sync raise.
Fatal(r) == Newest(NewFrom(r.box, r.since)) \cap unreadable

\* The provider answers.  IMAP fetches mail by mail, goes on after one that fails, and
\* parses each; Graph gives whole pages.
SyncFetch(s, failed) ==
  LET r == job[s]
      mails == NewFrom(r.box, r.since)
      got == Newest(mails) \ failed
      next == CursorAfter(r.since, got) IN
  /\ r.op = "ask"
  /\ failed \subseteq Newest(mails)
  /\ failed # {} => provider[r.box] = "imap"
  /\ Fatal(r) \subseteq failed
  /\ job' = [job EXCEPT ![s] = Holding(r.box, got, next)]
  /\ lost' = lost \cup {e \in mails \ got : Position(e) <= next}
  /\ UNCHANGED <<provider, unreadable, inbox, cursor, rows, lock, crashes>>

\* A mail that cannot be parsed ends the sync, with the cursor where it was: so will
\* the next.
SyncRaises(s) ==
  /\ job[s].op = "ask" /\ Fatal(job[s]) # {}
  /\ job' = [job EXCEPT ![s] = NoJob]
  /\ UNCHANGED <<provider, unreadable, inbox, cursor, rows, lock, lost, crashes>>

\* An IMAP server falls silent: the connection is opened without a timeout.
Hang(s) ==
  /\ job[s].op = "ask" /\ provider[job[s].box] = "imap"
  /\ job' = [job EXCEPT ![s] = HungSync]
  /\ UNCHANGED <<provider, unreadable, inbox, cursor, rows, lock, lost, crashes>>

\* The next mail of the session, which ingest_message() has, or has not, looked up.
NextMail(s, e, checked) ==
  /\ job[s].op \in {"sync", "push"} /\ job[s].checked = checked
  /\ IsNext(e, job[s].batch) /\ MayWrite(s)

\* ingest_message() finds the key of the next mail.
Known(s, e) ==
  /\ NextMail(s, e, FALSE) /\ KeyStored(e)
  /\ job' = [job EXCEPT ![s] = Dropped(job[s], e)]
  /\ UNCHANGED <<provider, unreadable, inbox, cursor, rows, lock, lost, crashes>>

\* It does not: the message is about to be inserted.
Unknown(s, e) ==
  /\ NextMail(s, e, FALSE) /\ ~KeyStored(e)
  /\ job' = [job EXCEPT ![s] = LookedUp(job[s])]
  /\ UNCHANGED <<provider, unreadable, inbox, cursor, rows, lock, lost, crashes>>

\* The first INSERT takes the lock.
Ingest(s, e) ==
  /\ NextMail(s, e, TRUE) /\ ~Conflict(e)
  /\ rows' = [rows EXCEPT ![e] = rows[e] + 1]
  /\ job' = [job EXCEPT ![s] = Dropped(job[s], e)]
  /\ lock' = s
  /\ UNCHANGED <<provider, unreadable, inbox, cursor, lost, crashes>>

\* Another session has stored the key since: all is undone.
Refused(s, e) ==
  /\ NextMail(s, e, TRUE) /\ Conflict(e)
  /\ job' = [job EXCEPT ![s] = NoJob]
  /\ UNCHANGED <<provider, unreadable, inbox, cursor, rows, lock, lost, crashes>>

\* (mutant: the cursor is stored before the mails)
AnyTime(r) == TRUE

Ingested(r) == r.batch = {}

\* The commit; a sync also writes the cursor, into a copy of metadata_json that
\* may be old by now.
Commit(s) ==
  LET r == job[s] IN
  /\ r.op \in {"sync", "push"} /\ Ingested(r) /\ MayWrite(s)
  /\ cursor' = IF r.op = "sync" THEN [cursor EXCEPT ![r.box] = r.next] ELSE cursor
  /\ job' = [job EXCEPT ![s] = NoJob]
  /\ lock' = Nobody
  /\ UNCHANGED <<provider, unreadable, inbox, rows, lost, crashes>>

\* The provider raises, the process dies (the one way out for a session that is hung),
\* the database is locked: nothing is kept.  One that dies after its first INSERT is
\* like one that dies before it, for nobody else has read or written since.
Abort(s) ==
  /\ job[s] # NoJob /\ lock # s
  /\ crashes < MaxCrash
  /\ crashes' = crashes + 1
  /\ job' = [job EXCEPT ![s] = NoJob]
  /\ UNCHANGED <<provider, unreadable, inbox, cursor, rows, lock, lost>>

\* A mail of the batch raises in Python, where no statement has failed: execute_task()
\* commits the ones before it, and not the cursor.
AbortKeeping(s) ==
  /\ job[s].op = "sync" /\ lock = s
  /\ crashes < MaxCrash
  /\ crashes' = crashes + 1
  /\ job' = [job EXCEPT ![s] = NoJob]
  /\ lock' = Nobody
  /\ UNCHANGED <<provider, unreadable, inbox, cursor, rows, lost>>

\* POST /inbound/cloudflare: a mail the Worker has received, as often as it likes.
Push(s, e) ==
  /\ job[s] = NoJob
  /\ ~Pulled(e[1]) /\ e[2] <= inbox[e[1]]
  /\ job' = [job EXCEPT ![s] = Pushed(e)]
  /\ UNCHANGED <<provider, unreadable, inbox, cursor, rows, lock, lost, crashes>>

-----------------------------------------------------------------------------
SessionStep(s) ==
  \/ \E e \in Mails : Known(s, e) \/ Unknown(s, e) \/ Ingest(s, e) \/ Refused(s, e)
  \/ Commit(s)

MailNext ==
  \/ \E m \in Inboxes : Arrive(m)
  \/ \E s \in Workers :
       \/ \E m \in Inboxes : SyncRead(s, m)
       \/ \E failed \in SUBSET Mails : SyncFetch(s, failed)
       \/ \E e \in Mails : Push(s, e)
       \/ SyncRaises(s) \/ Hang(s)
       \/ SessionStep(s) \/ Abort(s) \/ AbortKeeping(s)

MailSpec == MailInit /\ [][MailNext]_mailVars

\* Every mailbox is synchronised again and again (the recovery puts back a sync that is
\* RUNNING for too long), and a handler goes on unless it dies or hangs.  A provider
\* that is asked for ever answers in the end, with every mail, unless each session
\* hangs.  Nothing is assumed of the Worker that pushes, and nobody need restart a
\* session that hangs.
MailFairSpec ==
  /\ MailSpec
  /\ \A s \in Workers : WF_mailVars(SyncFetch(s, {}) \/ SyncRaises(s) \/ SessionStep(s))
  /\ \A m \in Inboxes :
       /\ SF_mailVars(\E s \in Workers : SyncRead(s, m))
       /\ SF_mailVars(\E s \in Workers : job[s].box = m /\ SyncFetch(s, {}))

-----------------------------------------------------------------------------
(* Properties *)

\* Every column has a value of its type, and so has what the sessions hold.
MailTypeOK ==
  /\ provider \in [Inboxes -> Kinds]
  /\ unreadable \subseteq Mails
  /\ inbox \in [Inboxes -> 0..MaxMail]
  /\ cursor \in [Inboxes -> Nat]
  /\ rows \in [Mails -> Nat]
  /\ job \in [Workers -> [op : {"none", "ask", "hung", "sync", "push"}, box : Inboxes \cup {Nobody},
                          since : Nat, batch : SUBSET Mails, next : Nat, checked : BOOLEAN]]
  /\ lock \in Workers \cup {Nobody}
  /\ lost \subseteq Mails /\ crashes \in Nat

\* A sync that starts from this position will not see the mail.
Behind(e, position) ==
  IF provider[e[1]] = "outlook" THEN Position(e) < position ELSE Position(e) <= position

\* A cursor never passes a mail that is not stored, whatever crashes and however
\* old the copy is from which it is written, except for the mails the sync left
\* out itself: above the cap, or not fetched.
NothingBehindCursor ==
  \A e \in Mails :
    Pulled(e[1]) /\ Behind(e, cursor[e[1]]) => KeyStored(e) \/ e \in lost

\* A mail that cannot be parsed is among the newest behind the cursor.
Blocked(m) == Newest(NewFrom(m, cursor[m])) \cap unreadable # {}

\* Every mail of a mailbox that is synchronised is stored in the end, or has been
\* left out by a sync, but for two ways in which the code stops for good: a mail that
\* cannot be parsed blocks its mailbox, and servers that stay silent take all the
\* sessions.  Crashes, a mail that cannot be stored at once, and old copies of the
\* cursor stop nothing.
MailFetched ==
  \A e \in Mails :
    Pulled(e[1]) /\ e[2] <= inbox[e[1]] ~>
      \/ KeyStored(e) \/ e \in lost
      \/ [](Blocked(e[1]) \/ \A s \in Workers : job[s].op = "hung")

-----------------------------------------------------------------------------
(* What the documentation promises, and the code does not do *)

\* A mail that the provider has given, and the cursor has passed, has its message.
MailKept ==
  \A e \in Mails :
    Pulled(e[1]) /\ Behind(e, cursor[e[1]]) /\ e \notin lost => rows[e] > 0
=============================================================================

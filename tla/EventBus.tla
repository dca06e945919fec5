------------------------------ MODULE EventBus ------------------------------
(***************************************************************************)
(* The event bus and its streams: publish() puts an event into the queue   *)
(* of every subscriber and logs it in the background, with retries; a      *)
(* client that connects first subscribes, then is given the newest rows of *)
(* the log, then what its queue holds.  The bus lives in the process: a    *)
(* restart loses the queues and the logging under way.                     *)
(*                                                                         *)
(* Handlers publish before they commit: an event here may be of something  *)
(* that is rolled back.                                                    *)
(***************************************************************************)
EXTENDS Integers, Sequences, SequencesExt

CONSTANTS
  Readers,         \* clients of GET /events/stream
  MaxEvents,       \* events in this instance
  QueueSize,       \* MAX_QUEUE: 500
  ReplaySize,      \* rows a stream starts with: 80
  PersistAttempts, \* max_attempts: 6
  MaxRestarts,     \* restarts in this instance
  MaxConnects      \* connections in this instance

Events == 1..MaxEvents

ASSUME EventAssumption ==
  /\ {MaxEvents, MaxRestarts, MaxConnects} \subseteq Nat
  /\ {QueueSize, ReplaySize, PersistAttempts} \subseteq Nat \ {0}

VARIABLES
  published, \* how many events there have been: event n is the n-th
  logging,   \* of each event: "none", "trying", "logged", "given up" or "lost"
  attempts,  \* of _persist() for each, those that have failed
  eventLog,  \* rows of event_log, by id
  phase,     \* of each client: "off", "subscribed", "streaming"
  feed,      \* its asyncio.Queue
  backlog,   \* replayed rows it has not been sent yet
  seen,      \* what it has been sent
  since,     \* history: events published before it subscribed
  overflow,  \* history: events its queue had no room for
  restarts, connects

logVars == <<logging, attempts, eventLog>>
streamVars == <<phase, feed, backlog, seen, since, overflow>>
busVars == <<published, logVars, streamVars, restarts, connects>>

EventInit ==
  /\ published = 0
  /\ logging = [e \in Events |-> "none"] /\ attempts = [e \in Events |-> 0]
  /\ eventLog = <<>>
  /\ phase = [c \in Readers |-> "off"]
  /\ feed = [c \in Readers |-> <<>>] /\ backlog = [c \in Readers |-> <<>>]
  /\ seen = [c \in Readers |-> {}] /\ since = [c \in Readers |-> 0]
  /\ overflow = [c \in Readers |-> {}]
  /\ restarts = 0 /\ connects = 0

-----------------------------------------------------------------------------
(* Publishing *)

\* (mutant: a stream subscribes after the replay)
SubscribedLate(c) == phase[c] = "streaming"

Subscribed(c) == phase[c] # "off"

Fits(c) == Len(feed[c]) < QueueSize

\* publish(): put_nowait() for every subscriber; QueueFull is ignored.
Publish ==
  /\ published < MaxEvents
  /\ published' = published + 1
  /\ feed' = [c \in Readers |-> IF Subscribed(c) /\ Fits(c) THEN Append(feed[c], published + 1) ELSE feed[c]]
  /\ overflow' = [c \in Readers |->
                    IF Subscribed(c) /\ ~Fits(c) THEN overflow[c] \cup {published + 1} ELSE overflow[c]]
  /\ logging' = [logging EXCEPT ![published + 1] = "trying"]
  /\ UNCHANGED <<attempts, eventLog, phase, backlog, seen, since, restarts, connects>>

\* for attempt in range(max_attempts)
Trying(e) == logging[e] = "trying" /\ attempts[e] < PersistAttempts

Persist(e) ==
  /\ Trying(e)
  /\ logging' = [logging EXCEPT ![e] = "logged"]
  /\ eventLog' = Append(eventLog, e)
  /\ UNCHANGED <<published, attempts, streamVars, restarts, connects>>

LastAttempt(n) == n = PersistAttempts

\* The database is locked: wait and try again, or report it after the last attempt.
PersistFails(e) ==
  LET n == attempts[e] + 1 IN
  /\ Trying(e)
  /\ attempts' = [attempts EXCEPT ![e] = n]
  /\ logging' = IF LastAttempt(n) THEN [logging EXCEPT ![e] = "given up"] ELSE logging
  /\ UNCHANGED <<published, eventLog, streamVars, restarts, connects>>

-----------------------------------------------------------------------------
(* Streams *)

Connect(c) ==
  /\ phase[c] = "off" /\ connects < MaxConnects
  /\ connects' = connects + 1
  /\ phase' = [phase EXCEPT ![c] = "subscribed"]
  /\ since' = [since EXCEPT ![c] = published]
  /\ UNCHANGED <<published, logVars, feed, backlog, seen, overflow, restarts>>

\* recent_events(): the newest rows, oldest first.
Newest80 ==
  SubSeq(eventLog, IF Len(eventLog) > ReplaySize THEN Len(eventLog) - ReplaySize + 1 ELSE 1, Len(eventLog))

Replay(c) ==
  /\ phase[c] = "subscribed"
  /\ phase' = [phase EXCEPT ![c] = "streaming"]
  /\ backlog' = [backlog EXCEPT ![c] = Newest80]
  /\ UNCHANGED <<published, logVars, feed, seen, since, overflow, restarts, connects>>

\* The next event goes to the client: from the replay, then from the queue.
Send(c) ==
  /\ phase[c] = "streaming"
  /\ \/ /\ backlog[c] # <<>>
        /\ seen' = [seen EXCEPT ![c] = @ \cup {Head(backlog[c])}]
        /\ backlog' = [backlog EXCEPT ![c] = Tail(@)]
        /\ UNCHANGED feed
     \/ /\ backlog[c] = <<>> /\ feed[c] # <<>>
        /\ seen' = [seen EXCEPT ![c] = @ \cup {Head(feed[c])}]
        /\ feed' = [feed EXCEPT ![c] = Tail(@)]
        /\ UNCHANGED backlog
  /\ UNCHANGED <<published, logVars, phase, since, overflow, restarts, connects>>

\* What is left of the streams of these clients, which may connect again.
Closed(clients) ==
  /\ phase' = [c \in Readers |-> IF c \in clients THEN "off" ELSE phase[c]]
  /\ feed' = [c \in Readers |-> IF c \in clients THEN <<>> ELSE feed[c]]
  /\ backlog' = [c \in Readers |-> IF c \in clients THEN <<>> ELSE backlog[c]]
  /\ seen' = [c \in Readers |-> IF c \in clients THEN {} ELSE seen[c]]
  /\ since' = [c \in Readers |-> IF c \in clients THEN 0 ELSE since[c]]
  /\ overflow' = [c \in Readers |-> IF c \in clients THEN {} ELSE overflow[c]]

Disconnect(c) ==
  /\ phase[c] # "off"
  /\ Closed({c})
  /\ UNCHANGED <<published, logVars, restarts, connects>>

Restart ==
  /\ restarts < MaxRestarts /\ restarts' = restarts + 1
  /\ Closed(Readers)
  /\ logging' = [e \in Events |-> IF logging[e] = "trying" THEN "lost" ELSE logging[e]]
  /\ UNCHANGED <<published, attempts, eventLog, connects>>

-----------------------------------------------------------------------------
EventNext ==
  \/ Publish \/ Restart
  \/ \E e \in Events : Persist(e) \/ PersistFails(e)
  \/ \E c \in Readers : Connect(c) \/ Replay(c) \/ Send(c) \/ Disconnect(c)

EventSpec == EventInit /\ [][EventNext]_busVars

-----------------------------------------------------------------------------
(* Properties *)

\* There is no gap between the replay and the queue: what was published since a
\* client subscribed has been sent to it, is about to be, or found its queue full.
\* (What was published before, and not logged when the replay was read, it misses.)
NoGap ==
  \A c \in Readers : phase[c] = "streaming" =>
    (since[c] + 1)..published \subseteq
      seen[c] \cup ToSet(backlog[c]) \cup ToSet(feed[c]) \cup overflow[c]
=============================================================================

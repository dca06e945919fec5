--------------------------- MODULE ServicesProofs ---------------------------
(***************************************************************************)
(* The theorems about EventBus, RateLimit and ProviderSettings, for every  *)
(* set of clients and of operators and every size of the queues and of the *)
(* window, and about Services: what holds of its components holds of it.   *)
(***************************************************************************)
EXTENDS Services, MailParserProofs, MailboxDirectoryProofs

-----------------------------------------------------------------------------
(* The event bus: streams *)

\* Streams are made of events.
StreamsTyped ==
  /\ published \in Nat /\ eventLog \in Seq(Nat)
  /\ phase \in [Readers -> {"off", "subscribed", "streaming"}]
  /\ feed \in [Readers -> Seq(Nat)] /\ backlog \in [Readers -> Seq(Nat)]
  /\ seen \in [Readers -> SUBSET Nat] /\ overflow \in [Readers -> SUBSET Nat]
  /\ since \in [Readers -> Nat]

\* A replay starts with nothing.
NoBacklogYet == \A c \in Readers : phase[c] # "streaming" => backlog[c] = <<>>

\* What was published since a client has subscribed, whether it has been given the
\* replay or not, is somewhere on its way.
NothingMissed(c) ==
  phase[c] # "off" =>
    \A e \in Nat : since[c] < e /\ e <= published =>
      e \in seen[c] \/ e \in ToSet(backlog[c]) \/ e \in ToSet(feed[c]) \/ e \in overflow[c]

StreamInv == StreamsTyped /\ NoBacklogYet /\ \A c \in Readers : NothingMissed(c)

-----------------------------------------------------------------------------
(* Queues *)

\* An event that is appended is in the queue, with those that were.
LEMMA AppendSet ==
  ASSUME NEW q \in Seq(Nat), NEW e \in Nat
  PROVE  /\ Append(q, e) \in Seq(Nat)
         /\ ToSet(q) \subseteq ToSet(Append(q, e)) /\ e \in ToSet(Append(q, e))
<1>1. \A i \in DOMAIN q : i \in DOMAIN Append(q, e) /\ Append(q, e)[i] = q[i]
  OBVIOUS
<1>2. Len(q) + 1 \in DOMAIN Append(q, e) /\ Append(q, e)[Len(q) + 1] = e
  OBVIOUS
<1>. QED  BY <1>1, <1>2 DEF ToSet

\* An event that is taken from a queue leaves the others in it.
LEMMA TailSet ==
  ASSUME NEW q \in Seq(Nat), q # <<>>
  PROVE  /\ Head(q) \in Nat /\ Tail(q) \in Seq(Nat)
         /\ ToSet(q) \subseteq ToSet(Tail(q)) \cup {Head(q)}
<1>1. Head(q) \in Nat /\ Tail(q) \in Seq(Nat)
  OBVIOUS
<1>2. ASSUME NEW i \in DOMAIN q
      PROVE  q[i] \in ToSet(Tail(q)) \cup {Head(q)}
  <2>1. CASE i = 1
    BY <2>1
  <2>2. CASE i # 1
    <3>1. i - 1 \in DOMAIN Tail(q) /\ Tail(q)[i - 1] = q[i]
      BY <2>2
    <3>. QED  BY <3>1 DEF ToSet
  <2>. QED  BY <2>1, <2>2
<1>. QED  BY <1>1, <1>2 DEF ToSet

\* The replay is made of rows of the log.
LEMMA NewestTyped ==
  ASSUME StreamsTyped
  PROVE  Newest80 \in Seq(Nat)
<1>. DEFINE m == IF Len(eventLog) > ReplaySize THEN Len(eventLog) - ReplaySize + 1 ELSE 1
<1>1. m \in Nat /\ m >= 1 /\ Len(eventLog) \in Nat /\ eventLog \in Seq(Nat)
  BY EventAssumption DEF StreamsTyped
<1>2. SubSeq(eventLog, m, Len(eventLog)) \in Seq(Nat)
  <2>. HIDE DEF m
  <2>. QED  BY <1>1
<1>. QED  BY <1>2 DEF Newest80

-----------------------------------------------------------------------------
\* The initial states satisfy the invariant.
LEMMA StreamStart == EventInit => StreamInv
BY DEF EventInit, StreamInv, StreamsTyped, NoBacklogYet, NothingMissed

\* Nothing changes for the clients.
LEMMA StreamsUnchanged ==
  ASSUME StreamInv, UNCHANGED <<published, streamVars>>, eventLog' \in Seq(Nat)
  PROVE  StreamInv'
BY DEF StreamInv, StreamsTyped, NoBacklogYet, NothingMissed, streamVars

\* Some streams end.
LEMMA StreamsClosed ==
  ASSUME StreamInv, NEW clients, Closed(clients), UNCHANGED <<published, eventLog>>
  PROVE  StreamInv'
<1>1. StreamsTyped'
  BY DEF StreamInv, StreamsTyped, Closed
<1>2. NoBacklogYet'
  BY DEF StreamInv, StreamsTyped, NoBacklogYet, Closed
<1>3. ASSUME NEW c \in Readers
      PROVE  NothingMissed(c)'
  BY DEF StreamInv, StreamsTyped, NothingMissed, Closed
<1>. QED  BY <1>1, <1>2, <1>3 DEF StreamInv

\* An event is put in the queue of every client, or overflows it.
LEMMA PublishKeeps ==
  ASSUME StreamInv, Publish
  PROVE  StreamInv'
<1>. USE DEF StreamInv
<1>1. published + 1 \in Nat /\ published' = published + 1
  BY DEF StreamsTyped, Publish
<1>2. ASSUME NEW c \in Readers
      PROVE  /\ feed'[c] \in Seq(Nat) /\ ToSet(feed[c]) \subseteq ToSet(feed'[c])
             /\ overflow'[c] \in SUBSET Nat /\ overflow[c] \subseteq overflow'[c]
             /\ phase[c] # "off" => published + 1 \in ToSet(feed'[c]) \cup overflow'[c]
  BY <1>1, AppendSet DEF StreamsTyped, Publish, Subscribed
<1>3. StreamsTyped'
  BY <1>1, <1>2 DEF StreamsTyped, Publish
<1>4. NoBacklogYet'
  BY DEF NoBacklogYet, Publish
<1>5. ASSUME NEW c \in Readers
      PROVE  NothingMissed(c)'
  <2>. SUFFICES ASSUME phase[c] # "off", NEW e \in Nat, since[c] < e, e <= published + 1
                PROVE  e \in seen[c] \/ e \in ToSet(backlog[c]) \/ e \in ToSet(feed'[c]) \/ e \in overflow'[c]
    BY <1>1 DEF NothingMissed, Publish
  <2>1. CASE e = published + 1
    BY <1>2, <2>1
  <2>2. CASE e # published + 1
    <3>1. e <= published
      BY <2>2 DEF StreamsTyped
    <3>. QED  BY <1>2, <3>1 DEF NothingMissed
  <2>. QED  BY <2>1, <2>2
<1>. QED  BY <1>3, <1>4, <1>5

\* An event of the replay, or else of the queue, is sent.
LEMMA SendKeeps ==
  ASSUME StreamInv, NEW c \in Readers, Send(c)
  PROVE  StreamInv'
<1>. USE DEF StreamInv
<1>1. PICK e \in Nat :
        /\ seen' = [seen EXCEPT ![c] = seen[c] \cup {e}]
        /\ ToSet(backlog[c]) \subseteq ToSet(backlog'[c]) \cup {e}
        /\ ToSet(feed[c]) \subseteq ToSet(feed'[c]) \cup {e}
        /\ \E q \in Seq(Nat) : backlog' = [backlog EXCEPT ![c] = q]
        /\ \E q \in Seq(Nat) : feed' = [feed EXCEPT ![c] = q]
  <2>1. CASE backlog[c] # <<>>
    <3>1. backlog[c] \in Seq(Nat) /\ feed[c] \in Seq(Nat)
      BY DEF StreamsTyped
    <3>2. /\ Head(backlog[c]) \in Nat /\ Tail(backlog[c]) \in Seq(Nat)
          /\ ToSet(backlog[c]) \subseteq ToSet(Tail(backlog[c])) \cup {Head(backlog[c])}
      BY <2>1, <3>1, TailSet
    <3>3. /\ seen' = [seen EXCEPT ![c] = seen[c] \cup {Head(backlog[c])}]
          /\ backlog' = [backlog EXCEPT ![c] = Tail(backlog[c])]
          /\ feed' = feed
      BY <2>1 DEF Send
    <3>4. feed = [feed EXCEPT ![c] = feed[c]] /\ backlog'[c] = Tail(backlog[c])
      BY <3>3 DEF StreamsTyped
    <3>. QED  BY <3>1, <3>2, <3>3, <3>4
  <2>2. CASE backlog[c] = <<>>
    <3>1. backlog[c] \in Seq(Nat) /\ feed[c] \in Seq(Nat) /\ feed[c] # <<>>
      BY <2>2 DEF StreamsTyped, Send
    <3>2. /\ Head(feed[c]) \in Nat /\ Tail(feed[c]) \in Seq(Nat)
          /\ ToSet(feed[c]) \subseteq ToSet(Tail(feed[c])) \cup {Head(feed[c])}
      BY <3>1, TailSet
    <3>3. /\ seen' = [seen EXCEPT ![c] = seen[c] \cup {Head(feed[c])}]
          /\ feed' = [feed EXCEPT ![c] = Tail(feed[c])]
          /\ backlog' = backlog
      BY <2>2 DEF Send
    <3>4. backlog = [backlog EXCEPT ![c] = backlog[c]] /\ feed'[c] = Tail(feed[c])
      BY <3>3 DEF StreamsTyped
    <3>. QED  BY <3>1, <3>2, <3>3, <3>4
  <2>. QED  BY <2>1, <2>2
<1>2. phase[c] = "streaming" /\ UNCHANGED <<published, eventLog, phase, since, overflow>>
  BY DEF Send, logVars
<1>3. StreamsTyped'
  BY <1>1, <1>2 DEF StreamsTyped
<1>4. NoBacklogYet'
  BY <1>1, <1>2 DEF StreamsTyped, NoBacklogYet
<1>5. ASSUME NEW d \in Readers
      PROVE  NothingMissed(d)'
  <2>1. CASE d = c
    BY <1>1, <1>2, <2>1 DEF StreamsTyped, NothingMissed
  <2>2. CASE d # c
    BY <1>1, <1>2, <2>2 DEF StreamsTyped, NothingMissed
  <2>. QED  BY <2>1, <2>2
<1>. QED  BY <1>3, <1>4, <1>5

\* Every step keeps the invariant.
LEMMA StreamKept ==
  ASSUME StreamInv, [EventNext]_busVars
  PROVE  StreamInv'
<1>1. CASE UNCHANGED busVars
  BY <1>1, StreamsUnchanged DEF busVars, logVars, streamVars, StreamInv, StreamsTyped
<1>2. CASE Publish
  BY <1>2, PublishKeeps
<1>3. CASE Restart
  BY <1>3, StreamsClosed DEF Restart
<1>4. ASSUME NEW e \in Events, Persist(e) \/ PersistFails(e)
      PROVE  StreamInv'
  <2>1. e \in Nat /\ MaxEvents \in Nat
    BY EventAssumption DEF Events
  <2>2. eventLog \in Seq(Nat) /\ (eventLog' = eventLog \/ eventLog' = Append(eventLog, e))
    BY <1>4 DEF Persist, PersistFails, StreamInv, StreamsTyped
  <2>3. eventLog' \in Seq(Nat)
    BY <2>1, <2>2
  <2>. QED  BY <1>4, <2>3, StreamsUnchanged DEF Persist, PersistFails
<1>5. ASSUME NEW c \in Readers, Connect(c)
      PROVE  StreamInv'
  <2>1. StreamsTyped' /\ NoBacklogYet'
    BY <1>5 DEF Connect, logVars, StreamInv, StreamsTyped, NoBacklogYet
  <2>2. ASSUME NEW d \in Readers
        PROVE  NothingMissed(d)'
    <3>1. CASE d = c
      BY <1>5, <3>1 DEF Connect, StreamInv, StreamsTyped, NothingMissed
    <3>2. CASE d # c
      BY <1>5, <3>2 DEF Connect, StreamInv, StreamsTyped, NothingMissed
    <3>. QED  BY <3>1, <3>2
  <2>. QED  BY <2>1, <2>2 DEF StreamInv
<1>6. ASSUME NEW c \in Readers, Replay(c)
      PROVE  StreamInv'
  <2>0. backlog[c] = <<>> /\ ToSet(backlog[c]) = {}
    BY <1>6 DEF Replay, StreamInv, NoBacklogYet, ToSet
  <2>1. StreamsTyped' /\ NoBacklogYet'
    BY <1>6, NewestTyped DEF Replay, logVars, StreamInv, StreamsTyped, NoBacklogYet
  <2>2. ASSUME NEW d \in Readers
        PROVE  NothingMissed(d)'
    <3>1. CASE d = c
      BY <1>6, <2>0, <3>1 DEF Replay, StreamInv, StreamsTyped, NothingMissed
    <3>2. CASE d # c
      BY <1>6, <3>2 DEF Replay, StreamInv, StreamsTyped, NothingMissed
    <3>. QED  BY <3>1, <3>2
  <2>. QED  BY <2>1, <2>2 DEF StreamInv
<1>7. ASSUME NEW c \in Readers, Send(c)
      PROVE  StreamInv'
  BY <1>7, SendKeeps
<1>8. ASSUME NEW c \in Readers, Disconnect(c)
      PROVE  StreamInv'
  BY <1>8, StreamsClosed DEF Disconnect, logVars
<1>. QED  BY <1>1, <1>2, <1>3, <1>4, <1>5, <1>6, <1>7, <1>8 DEF EventNext

\* What has not been missed is in one of the four places.
LEMMA StreamImplied ==
  ASSUME StreamInv
  PROVE  NoGap
<1>. SUFFICES ASSUME NEW c \in Readers, phase[c] = "streaming", NEW e \in (since[c] + 1)..published
              PROVE  e \in seen[c] \cup ToSet(backlog[c]) \cup ToSet(feed[c]) \cup overflow[c]
  BY DEF NoGap
<1>1. e \in Nat /\ since[c] < e /\ e <= published
  BY DEF StreamInv, StreamsTyped
<1>. QED  BY <1>1 DEF StreamInv, NothingMissed

\* Between the replay and the queue of a stream there is no gap.
THEOREM ReplayMeetsQueue == EventSpec => []NoGap
<1>1. StreamInv /\ [EventNext]_busVars => StreamInv'
  BY StreamKept
<1>2. StreamInv => NoGap
  BY StreamImplied
<1>. QED  BY StreamStart, <1>1, <1>2, PTL DEF EventSpec

-----------------------------------------------------------------------------
(* The rate limit: the deque of hits *)

\* Times in order, and times that are not to come.
Ascending(s) == \A i, j \in 1..Len(s) : i <= j => s[i] <= s[j]

Past(s) == \A i \in 1..Len(s) : s[i] <= clock

\* Of as many served requests in a row as the limit and one more, the last comes when
\* the first has left the window.
Spread == \A i, j \in 1..Len(served) : j >= i + Limit => served[j] > served[i] + Window

\* A served request that is recent is held by the deque, and so are those after it: as
\* many hits as were served since.
Held ==
  \A i \in 1..Len(served) :
    Recent(served[i]) =>
      LET later == Len(served) - i IN
      later < Len(hits) /\ hits[Len(hits) - later] >= served[i]

RateInv ==
  /\ Limit >= 1 /\ Limit \in Nat
  /\ clock \in Nat /\ hits \in Seq(Nat) /\ served \in Seq(Nat)
  /\ Len(hits) <= Capacity
  /\ Ascending(hits) /\ Past(hits) /\ Past(served)
  /\ Spread /\ Held

\* A set of naturals that is not empty has a least element.
LEMMA LeastExists ==
  ASSUME NEW S \in SUBSET Nat, S # {}
  PROVE  Min(S) \in S /\ \A x \in S : Min(S) <= x
<1>. DEFINE T == {0..x : x \in S}
<1>1. T \subseteq FiniteSubsetsOf(Nat) /\ T # {}
  <2>1. ASSUME NEW x \in S
        PROVE  0..x \in FiniteSubsetsOf(Nat)
    BY FS_Interval DEF FiniteSubsetsOf
  <2>. QED  BY <2>1
<1>2. PICK t \in T : \A u \in T : ~(<<u, t>> \in StrictSubsetOrdering(Nat))
  <2>. HIDE DEF T
  <2>. QED  BY <1>1, FS_StrictSubsetOrderingWellFounded, WFMin, Zenon
<1>3. PICK m \in S : t = 0..m
  OBVIOUS
<1>4. ASSUME NEW x \in S, x < m
      PROVE  FALSE
  <2>1. 0..x \in T /\ 0..x \in SUBSET Nat /\ 0..m \in SUBSET Nat
    OBVIOUS
  <2>2. 0..x \subseteq 0..m /\ 0..x # 0..m
    <3>1. m \in 0..m /\ m \notin 0..x
      BY <1>4
    <3>. QED  BY <1>4, <3>1
  <2>3. <<0..x, 0..m>> \in StrictSubsetOrdering(Nat)
    BY <2>1, <2>2 DEF StrictSubsetOrdering
  <2>. QED  BY <1>2, <1>3, <2>1, <2>3
<1>5. \A x \in S : m <= x
  BY <1>4
<1>. QED  BY <1>5 DEF Min

\* What the deque holds when a request has been appended.
LEMMA AppendedIs ==
  ASSUME RateInv
  PROVE  /\ Appended \in Seq(Nat) /\ Len(Appended) \in Nat /\ Len(hits) \in Nat
         /\ Len(Appended) = IF Len(hits) + 1 > Capacity THEN Len(hits) ELSE Len(hits) + 1
         /\ Len(Appended) >= 1 /\ Len(Appended) <= Capacity
         /\ Appended[Len(Appended)] = clock
         /\ \A k \in 1..(Len(Appended) - 1) : Appended[Len(Appended) - k] = hits[Len(hits) - (k - 1)]
         /\ Ascending(Appended) /\ Past(Appended)
<1>. DEFINE all == Append(hits, clock)
<1>1. /\ all \in Seq(Nat) /\ Len(hits) \in Nat /\ Len(all) = Len(hits) + 1
      /\ \A i \in 1..Len(hits) : all[i] = hits[i]
      /\ all[Len(hits) + 1] = clock /\ all # <<>>
  <2>1. hits \in Seq(Nat) /\ clock \in Nat
    BY DEF RateInv
  <2>2. Len(hits) \in Nat
    BY <2>1, LenProperties
  <2>. QED  BY <2>1, <2>2, AppendProperties
<1>2. Capacity = 2 * Limit /\ Limit \in Nat /\ Limit >= 1 /\ Len(hits) <= Capacity /\ clock \in Nat
  BY DEF RateInv, Capacity
<1>3. /\ \A i \in 1..Len(hits) : hits[i] \in Nat /\ hits[i] <= clock
      /\ \A i, j \in 1..Len(hits) : i <= j => hits[i] <= hits[j]
  <2>1. hits \in Seq(Nat) /\ Ascending(hits) /\ Past(hits)
    BY DEF RateInv
  <2>2. \A i \in 1..Len(hits) : hits[i] \in Nat
    BY <2>1, ElementOfSeq
  <2>. QED  BY <2>1, <2>2 DEF Past, Ascending
<1>. HIDE DEF all
<1>4. Ascending(all) /\ Past(all)
  <2>1. ASSUME NEW i \in 1..Len(all)
        PROVE  all[i] <= clock
    <3>1. CASE i = Len(hits) + 1
      BY <1>1, <1>2, <3>1
    <3>2. CASE i # Len(hits) + 1
      <4>1. i \in 1..Len(hits)
        BY <1>1, <3>2
      <4>. QED  BY <1>1, <1>3, <4>1
    <3>. QED  BY <3>1, <3>2
  <2>2. ASSUME NEW i \in 1..Len(all), NEW j \in 1..Len(all), i <= j
        PROVE  all[i] <= all[j]
    <3>1. CASE j = Len(hits) + 1
      BY <1>1, <2>1, <3>1
    <3>2. CASE j # Len(hits) + 1
      <4>1. i \in 1..Len(hits) /\ j \in 1..Len(hits)
        BY <1>1, <2>2, <3>2
      <4>. QED  BY <1>1, <1>3, <2>2, <4>1
    <3>. QED  BY <3>1, <3>2
  <2>. QED  BY <2>1, <2>2 DEF Ascending, Past
<1>5. CASE Len(hits) + 1 <= Capacity
  <2>1. Appended = all
    BY <1>1, <1>2, <1>5 DEF Appended, all
  <2>2. ASSUME NEW k \in 1..(Len(all) - 1)
        PROVE  all[Len(all) - k] = hits[Len(hits) - (k - 1)]
    <3>1. Len(all) - k = Len(hits) - (k - 1) /\ Len(hits) - (k - 1) \in 1..Len(hits)
      BY <1>1
    <3>. QED  BY <1>1, <3>1
  <2>3. Len(all) = Len(hits) + 1 /\ all[Len(all)] = clock /\ Len(all) \in Nat /\ Len(all) >= 1 /\ Len(all) <= Capacity
    BY <1>1, <1>2, <1>5
  <2>4. Len(all) = IF Len(hits) + 1 > Capacity THEN Len(hits) ELSE Len(hits) + 1
    BY <1>2, <1>5, <2>3
  <2>5. all \in Seq(Nat) /\ Len(hits) \in Nat
    BY <1>1
  <2>. QED  BY <1>4, <2>1, <2>2, <2>3, <2>4, <2>5
<1>6. CASE Len(hits) + 1 > Capacity
  <2>1. Appended = Tail(all)
    BY <1>1, <1>2, <1>6 DEF Appended, all
  <2>2. /\ Tail(all) \in Seq(Nat) /\ Len(Tail(all)) = Len(hits)
        /\ \A i \in 1..Len(hits) : Tail(all)[i] = all[i + 1]
    BY <1>1, HeadTailProperties
  <2>3. Len(hits) >= 1
    BY <1>1, <1>2, <1>6
  <2>4. Ascending(Tail(all)) /\ Past(Tail(all))
    <3>1. \A i \in 1..Len(Tail(all)) : Tail(all)[i] = all[i + 1] /\ i + 1 \in 1..Len(all)
      BY <1>1, <2>2
    <3>2. Past(Tail(all))
      BY <1>4, <3>1 DEF Past
    <3>3. ASSUME NEW i \in 1..Len(Tail(all)), NEW j \in 1..Len(Tail(all)), i <= j
          PROVE  Tail(all)[i] <= Tail(all)[j]
      <4>1. i + 1 <= j + 1
        BY <2>2, <1>1, <3>3
      <4>2. all[i + 1] <= all[j + 1]
        BY <1>4, <3>1, <4>1 DEF Ascending
      <4>. QED  BY <3>1, <4>2
    <3>. QED  BY <3>2, <3>3 DEF Ascending
  <2>5. Tail(all)[Len(hits)] = clock
    BY <1>1, <2>2, <2>3
  <2>6. ASSUME NEW k \in 1..(Len(hits) - 1)
        PROVE  Tail(all)[Len(hits) - k] = hits[Len(hits) - (k - 1)]
    <3>1. Len(hits) - k \in 1..Len(hits) /\ (Len(hits) - k) + 1 = Len(hits) - (k - 1)
          /\ Len(hits) - (k - 1) \in 1..Len(hits)
      BY <1>1
    <3>. QED  BY <1>1, <2>2, <3>1
  <2>. QED  BY <1>1, <1>2, <1>6, <2>1, <2>2, <2>3, <2>4, <2>5, <2>6
<1>. QED  BY <1>1, <1>2, <1>5, <1>6

\* What it holds when the hits that are not recent are gone: the last hits, all that
\* are recent among them.
LEMMA TrimmedIs ==
  ASSUME RateInv
  PROVE  LET all == Appended
             window == Trimmed(all) IN
         /\ window \in Seq(Nat) /\ Len(window) \in Nat /\ Len(window) >= 1 /\ Len(window) <= Len(all)
         /\ \A k \in 0..(Len(window) - 1) : window[Len(window) - k] = all[Len(all) - k]
         /\ \A k \in 0..(Len(all) - 1) : Recent(all[Len(all) - k]) => k < Len(window)
         /\ Ascending(window) /\ Past(window)
<1>. DEFINE all == Appended
            I == {i \in 1..Len(all) : Recent(all[i])}
            first == Min(I)
            window == Trimmed(all)
<1>1. /\ all \in Seq(Nat) /\ Len(all) \in Nat /\ Len(all) >= 1 /\ all[Len(all)] = clock
      /\ Ascending(all) /\ Past(all) /\ clock \in Nat
  BY AppendedIs DEF RateInv
<1>2. Window \in Nat
  BY RateAssumption
<1>. HIDE DEF all
<1>3. \A i \in 1..Len(all) : all[i] \in Nat
  BY <1>1, ElementOfSeq
<1>4. first \in 1..Len(all) /\ Recent(all[first]) /\ \A i \in 1..Len(all) : Recent(all[i]) => first <= i
  <2>1. Len(all) \in I
    BY <1>1, <1>2 DEF Recent
  <2>2. I \in SUBSET Nat /\ I # {}
    BY <1>1, <2>1
  <2>3. first \in I /\ \A i \in I : first <= i
    <3>. HIDE DEF I
    <3>. QED  BY <2>2, LeastExists
  <2>. QED  BY <2>3
<1>5. window = SubSeq(all, first, Len(all))
  <2>1. SelectInSeq(all, Recent) = IF I # {} THEN first ELSE 0
    BY DEF SelectInSeq
  <2>2. I # {} /\ first # 0
    BY <1>4
  <2>3. SelectInSeq(all, Recent) = first
    BY <2>1, <2>2
  <2>. QED  BY <2>2, <2>3 DEF Trimmed
<1>. HIDE DEF first, window
<1>6. /\ window \in Seq(Nat) /\ Len(window) = Len(all) - first + 1
      /\ \A i \in 1..(Len(all) - first + 1) : window[i] = all[first + i - 1]
  <2>1. \A i \in first..Len(all) : all[i] \in Nat
    BY <1>1, <1>3, <1>4
  <2>. QED  BY <1>1, <1>4, <1>5, <2>1, SubSeqProperties
<1>7. Len(window) \in Nat /\ Len(window) >= 1 /\ Len(window) <= Len(all)
  BY <1>1, <1>4, <1>6
<1>8. ASSUME NEW k \in 0..(Len(window) - 1)
      PROVE  window[Len(window) - k] = all[Len(all) - k]
  <2>1. Len(window) - k \in 1..(Len(all) - first + 1) /\ first + (Len(window) - k) - 1 = Len(all) - k
    BY <1>1, <1>4, <1>6
  <2>. QED  BY <1>6, <2>1
<1>9. ASSUME NEW k \in 0..(Len(all) - 1), Recent(all[Len(all) - k])
      PROVE  k < Len(window)
  <2>1. Len(all) - k \in 1..Len(all)
    BY <1>1
  <2>2. first <= Len(all) - k
    BY <1>4, <1>9, <2>1
  <2>. QED  BY <1>1, <1>4, <1>6, <2>2
<1>10. Ascending(window) /\ Past(window)
  <2>1. \A i \in 1..Len(window) : first + i - 1 \in 1..Len(all) /\ window[i] = all[first + i - 1]
    BY <1>1, <1>4, <1>6
  <2>2. \A i, j \in 1..Len(window) : i <= j => first + i - 1 <= first + j - 1
    BY <1>4, <1>6
  <2>. QED  BY <1>1, <2>1, <2>2 DEF Ascending, Past
<1>. QED  BY <1>6, <1>7, <1>8, <1>9, <1>10 DEF window, all

\* A request keeps the invariant: when it is served, as many were not served in the
\* window before it as the limit.
LEMMA RequestKeeps ==
  ASSUME RateInv, Request429
  PROVE  RateInv'
<1>. DEFINE all == Appended
            window == Trimmed(all)
            n == Len(served)
<1>1. /\ window \in Seq(Nat) /\ Len(window) \in Nat /\ Len(window) >= 1 /\ Len(window) <= Len(all)
      /\ \A k \in 0..(Len(window) - 1) : window[Len(window) - k] = all[Len(all) - k]
      /\ \A k \in 0..(Len(all) - 1) : Recent(all[Len(all) - k]) => k < Len(window)
      /\ Ascending(window) /\ Past(window)
  BY TrimmedIs
<1>2. /\ all \in Seq(Nat) /\ Len(all) \in Nat /\ Len(hits) \in Nat
      /\ Len(all) = IF Len(hits) + 1 > Capacity THEN Len(hits) ELSE Len(hits) + 1
      /\ Len(all) >= 1 /\ Len(all) <= Capacity
      /\ all[Len(all)] = clock
      /\ \A k \in 1..(Len(all) - 1) : all[Len(all) - k] = hits[Len(hits) - (k - 1)]
  BY AppendedIs
<1>3. /\ hits' = window /\ clock' = clock
      /\ served' = IF Len(window) > Limit THEN served ELSE Append(served, clock)
  BY DEF Request429
<1>. HIDE DEF all, window
<1>4. /\ Capacity = 2 * Limit /\ Limit \in Nat /\ Limit >= 1 /\ clock \in Nat /\ Window \in Nat
      /\ n \in Nat /\ served \in Seq(Nat) /\ \A i \in 1..n : served[i] \in Nat /\ served[i] <= clock
      /\ hits \in Seq(Nat) /\ \A i \in 1..Len(hits) : hits[i] \in Nat /\ hits[i] <= clock
      /\ Len(hits) <= Capacity
  BY RateAssumption, ElementOfSeq, LenProperties DEF RateInv, Capacity, Past
<1>5. /\ \A i, j \in 1..n : j >= i + Limit => served[j] > served[i] + Window
      /\ \A i, j \in 1..Len(hits) : i <= j => hits[i] <= hits[j]
  BY DEF RateInv, Spread, Ascending
<1>. HIDE DEF n
\* The served requests that are recent, among the hits that were there before.
<1>6. ASSUME NEW i \in 1..n, clock - served[i] <= Window
      PROVE  /\ n - i \in 0..(Len(hits) - 1) /\ hits[Len(hits) - (n - i)] >= served[i]
             /\ n - i < Limit
  <2>1. n - i < Len(hits) /\ hits[Len(hits) - (n - i)] >= served[i]
    BY <1>6 DEF RateInv, Held, Recent, n
  <2>2. ASSUME n - i >= Limit
        PROVE  FALSE
    <3>1. n \in 1..n /\ n >= i + Limit
      BY <1>4, <2>2
    <3>2. served[n] > served[i] + Window /\ served[n] \in Nat /\ served[i] \in Nat /\ served[n] <= clock
      BY <1>4, <1>5, <3>1
    <3>. QED  BY <1>4, <1>6, <3>2
  <2>. QED  BY <1>2, <1>4, <2>1, <2>2
\* They are among the hits that are there now, one place further from the end.
<1>7. ASSUME NEW i \in 1..n, clock - served[i] <= Window
      PROVE  /\ n - i + 1 < Len(window) /\ window[Len(window) - (n - i + 1)] >= served[i]
             /\ window[Len(window) - (n - i)] >= served[i]
  <2>. DEFINE k == n - i + 1
  <2>1. k \in 1..Limit /\ k - 1 = n - i /\ k - 1 \in 0..(Len(hits) - 1)
    BY <1>4, <1>6, <1>7
  <2>2. k \in 1..(Len(all) - 1) /\ k \in 0..(Len(all) - 1)
    BY <1>2, <1>4, <2>1
  <2>. HIDE DEF k
  <2>3. all[Len(all) - k] = hits[Len(hits) - (k - 1)] /\ all[Len(all) - k] >= served[i]
    BY <1>2, <1>6, <1>7, <2>1, <2>2
  <2>4. Recent(all[Len(all) - k])
    <3>1. Len(hits) - (k - 1) \in 1..Len(hits)
      BY <1>2, <2>1
    <3>2. all[Len(all) - k] \in Nat /\ served[i] \in Nat
      BY <1>4, <2>3, <3>1
    <3>3. all[Len(all) - k] >= served[i]
      BY <2>3
    <3>4. clock \in Nat /\ Window \in Nat /\ clock - served[i] <= Window
      BY <1>4, <1>7
    <3>5. clock - all[Len(all) - k] <= Window
      BY <3>2, <3>3, <3>4
    <3>. QED  BY <3>5 DEF Recent
  <2>5. k < Len(window) /\ k \in 0..(Len(window) - 1) /\ k - 1 \in 0..(Len(window) - 1)
    BY <1>1, <2>1, <2>2, <2>4
  <2>6. window[Len(window) - k] >= served[i]
    BY <1>1, <2>3, <2>5
  <2>7. window[Len(window) - (k - 1)] >= served[i]
    <3>1. Len(window) - k \in 1..Len(window) /\ Len(window) - (k - 1) \in 1..Len(window)
          /\ Len(window) - k <= Len(window) - (k - 1)
      BY <1>1, <2>1, <2>5
    <3>2. window[Len(window) - k] <= window[Len(window) - (k - 1)]
      BY <1>1, <3>1 DEF Ascending
    <3>3. window[Len(window) - k] \in Nat /\ window[Len(window) - (k - 1)] \in Nat
      BY <1>1, <3>1, ElementOfSeq
    <3>. QED  BY <1>4, <2>6, <3>2, <3>3
  <2>. QED  BY <2>1, <2>5, <2>6, <2>7 DEF k
<1>8. Len(window) <= Capacity
  BY <1>1, <1>2, <1>4
<1>9. /\ Ascending(window) /\ \A i \in 1..Len(window) : window[i] <= clock
  BY <1>1 DEF Past
<1>10. CASE Len(window) > Limit
  <2>1. served' = served
    BY <1>3, <1>10
  <2>2. Held'
    <3>1. ASSUME NEW i \in 1..n, clock - served[i] <= Window
          PROVE  n - i < Len(window) /\ window[Len(window) - (n - i)] >= served[i]
      <4>1. n - i + 1 < Len(window) /\ window[Len(window) - (n - i)] >= served[i]
        BY <1>7, <3>1
      <4>. QED  BY <1>1, <1>4, <4>1
    <3>. QED  BY <1>3, <2>1, <3>1 DEF Held, Recent, n
  <2>. QED  BY <1>1, <1>3, <1>4, <1>8, <1>9, <2>1, <2>2 DEF RateInv, Past, Spread, Capacity
<1>11. CASE Len(window) <= Limit
  <2>. DEFINE more == Append(served, clock)
  <2>1. /\ more \in Seq(Nat) /\ Len(more) = n + 1
        /\ \A i \in 1..n : more[i] = served[i]
        /\ more[n + 1] = clock
    BY <1>4, AppendProperties DEF n
  <2>2. served' = more
    <3>1. ~(Len(window) > Limit)
      BY <1>1, <1>4, <1>11
    <3>. QED  BY <1>3, <3>1
  <2>. HIDE DEF more
  <2>3. ASSUME NEW i \in 1..(n + 1)
        PROVE  more[i] <= clock
    <3>1. CASE i \in 1..n
      BY <1>4, <2>1, <3>1
    <3>2. CASE i = n + 1
      BY <1>4, <2>1, <3>2
    <3>. QED  BY <1>4, <3>1, <3>2
  <2>4. ASSUME NEW i \in 1..(n + 1), NEW j \in 1..(n + 1), j >= i + Limit
        PROVE  more[j] > more[i] + Window
    <3>1. i \in 1..n
      BY <1>4, <2>4
    <3>2. CASE j \in 1..n
      BY <1>5, <2>1, <2>4, <3>1, <3>2
    <3>3. CASE j = n + 1
      <4>1. ASSUME clock - served[i] <= Window
            PROVE  FALSE
        <5>1. n - i + 1 < Len(window) /\ n - i + 1 >= Limit
          BY <1>4, <1>7, <2>4, <3>1, <3>3, <4>1
        <5>. QED  BY <1>1, <1>4, <1>11, <5>1
      <4>2. served[i] \in Nat
        BY <1>4, <3>1
      <4>. QED  BY <1>4, <2>1, <3>1, <3>3, <4>1, <4>2
    <3>. QED  BY <1>4, <3>2, <3>3
  <2>5. ASSUME NEW i \in 1..(n + 1), clock - more[i] <= Window
        PROVE  (n + 1) - i < Len(window) /\ window[Len(window) - ((n + 1) - i)] >= more[i]
    <3>1. CASE i \in 1..n
      <4>1. (n + 1) - i = n - i + 1 /\ more[i] = served[i]
        BY <1>4, <2>1, <3>1
      <4>. QED  BY <1>7, <2>5, <3>1, <4>1
    <3>2. CASE i = n + 1
      <4>1. 0 \in 0..(Len(window) - 1) /\ Len(window) - 0 = Len(window) /\ Len(all) - 0 = Len(all)
        BY <1>1, <1>2
      <4>2. window[Len(window)] = all[Len(all)]
        BY <1>1, <4>1
      <4>3. (n + 1) - i = 0 /\ more[i] = clock
        BY <1>4, <2>1, <3>2
      <4>4. Len(window) - ((n + 1) - i) = Len(window) /\ (n + 1) - i < Len(window)
        BY <1>1, <4>3
      <4>5. window[Len(window)] >= more[i]
        BY <1>2, <1>4, <4>2, <4>3
      <4>. QED  BY <4>4, <4>5
    <3>. QED  BY <1>4, <3>1, <3>2
  <2>6. Held'
    BY <1>3, <2>1, <2>2, <2>5 DEF Held, Recent
  <2>7. Spread'
    BY <2>1, <2>2, <2>4 DEF Spread
  <2>. QED  BY <1>1, <1>3, <1>4, <1>8, <1>9, <2>1, <2>2, <2>3, <2>6, <2>7 DEF RateInv, Past, Capacity
<1>. QED  BY <1>1, <1>4, <1>10, <1>11

\* Time that passes makes no hit recent.
LEMMA TickKeeps ==
  ASSUME RateInv, Tick
  PROVE  RateInv'
<1>1. clock' = clock + 1 /\ UNCHANGED <<hits, served>> /\ clock \in Nat /\ clock' \in Nat /\ Window \in Nat
  BY RateAssumption DEF Tick, RateInv
<1>2. /\ \A i \in 1..Len(hits) : hits[i] \in Nat /\ hits[i] <= clock
      /\ \A i \in 1..Len(served) : served[i] \in Nat /\ served[i] <= clock
  BY ElementOfSeq DEF RateInv, Past
<1>3. Past(hits)' /\ Past(served)'
  BY <1>1, <1>2 DEF Past
<1>4. Held'
  <2>1. \A i \in 1..Len(served) : Recent(served[i])' => Recent(served[i])
    BY <1>1, <1>2 DEF Recent
  <2>. QED  BY <1>1, <2>1 DEF RateInv, Held
<1>. QED  BY <1>1, <1>3, <1>4 DEF RateInv, Ascending, Spread, Capacity

\* The served requests in a window are in a row, and no more than the limit.
LEMMA WindowCounted ==
  ASSUME RateInv, NEW t \in Nat
  PROVE  Cardinality({i \in 1..Len(served) : served[i] \in t..(t + Window)}) <= Limit
<1>. DEFINE S == {i \in 1..Len(served) : served[i] \in t..(t + Window)}
            first == Min(S)
<1>1. Limit \in Nat /\ Limit >= 1 /\ Window \in Nat /\ Len(served) \in Nat /\ served \in Seq(Nat)
  BY RateAssumption, LenProperties DEF RateInv
<1>2. CASE S = {}
  <2>1. Cardinality({}) = 0
    BY FS_EmptySet
  <2>. HIDE DEF S
  <2>2. Cardinality(S) <= Limit
    BY <1>1, <1>2, <2>1
  <2>. QED  BY <2>2 DEF S
<1>3. CASE S # {}
  <2>1. first \in S /\ \A i \in S : first <= i
    <3>1. S \in SUBSET Nat
      OBVIOUS
    <3>. HIDE DEF S
    <3>. QED  BY <1>3, <3>1, LeastExists
  <2>. HIDE DEF first
  <2>2. first \in 1..Len(served) /\ served[first] \in t..(t + Window) /\ first \in Nat
    BY <1>1, <2>1
  <2>3. ASSUME NEW i \in S
        PROVE  i \in first..(first + Limit - 1)
    <3>1. i \in 1..Len(served) /\ served[i] \in t..(t + Window) /\ first <= i
      BY <2>1
    <3>2. ASSUME i >= first + Limit
          PROVE  FALSE
      <4>1. served[i] > served[first] + Window
        BY <2>2, <3>1, <3>2 DEF RateInv, Spread
      <4>2. served[i] \in Nat /\ served[first] \in Nat
        BY <1>1, <2>2, <3>1
      <4>. QED  BY <1>1, <2>2, <3>1, <4>1, <4>2
    <3>. QED  BY <1>1, <2>2, <3>1, <3>2
  <2>4. S \in SUBSET (first..(first + Limit - 1))
    BY <2>3
  <2>5. /\ IsFiniteSet(first..(first + Limit - 1))
        /\ Cardinality(first..(first + Limit - 1)) = Limit
    <3>1. first \in Int /\ first + Limit - 1 \in Int /\ ~(first > first + Limit - 1)
          /\ (first + Limit - 1) - first + 1 = Limit
      BY <1>1, <2>2
    <3>. QED  BY <3>1, FS_Interval
  <2>. HIDE DEF S
  <2>6. Cardinality(S) <= Limit
    BY <2>4, <2>5, FS_Subset
  <2>. QED  BY <2>6 DEF S
<1>. QED  BY <1>2, <1>3

\* In no window are more requests served than the limit, which is at least one: a
\* deque that holds none would let everything through.
THEOREM ServedWithinLimit == Limit > 0 /\ RateSpec => []AtMostLimitPerWindow
<1>1. Limit > 0 /\ RateInit => RateInv
  <2>. SUFFICES ASSUME Limit > 0, RateInit PROVE RateInv
    OBVIOUS
  <2>1. clock = 0 /\ hits = <<>> /\ served = <<>> /\ Limit \in Nat /\ <<>> \in Seq(Nat) /\ Len(<<>>) = 0
    BY RateAssumption DEF RateInit
  <2>2. Limit >= 1 /\ 0 <= Capacity
    BY <2>1 DEF Capacity
  <2>. QED  BY <2>1, <2>2 DEF RateInv, Ascending, Past, Spread, Held
<1>2. RateInv /\ [RateNext]_rateVars => RateInv'
  <2>. SUFFICES ASSUME RateInv, [RateNext]_rateVars PROVE RateInv'
    OBVIOUS
  <2>1. CASE Request429
    BY <2>1, RequestKeeps
  <2>2. CASE Tick
    BY <2>2, TickKeeps
  <2>3. CASE UNCHANGED rateVars
    BY <2>3 DEF rateVars, RateInv, Ascending, Past, Spread, Held, Recent, Capacity
  <2>. QED  BY <2>1, <2>2, <2>3 DEF RateNext
<1>3. RateInv => AtMostLimitPerWindow
  <2>1. 0..MaxClock \subseteq Nat
    BY RateAssumption
  <2>. QED  BY <2>1, WindowCounted DEF AtMostLimitPerWindow
<1>. QED  BY <1>1, <1>2, <1>3, PTL DEF RateSpec

-----------------------------------------------------------------------------
(* The settings of the providers *)

\* Rows, as they are stored, shown or sent.
Rows ==
  [enabled : BOOLEAN, priority : Int, url : Urls \cup {Absent, ""},
   secret : Secrets \cup {Absent, "", MASK}]

Puts == [op : {"none", "insert", "update"}, body : Rows, old : Rows]

\* Every variable has a value of its type.
SettingsTyped ==
  /\ setting \in Rows /\ exists \in BOOLEAN
  /\ shown \in [Operators -> Rows]
  /\ put \in [Operators -> Puts]
  /\ mixed \in BOOLEAN

\* A call that is under way without another has read the row as it still is.
ReadsAreFresh ==
  ~mixed =>
    \A o \in Operators : put[o] # NoPut =>
      /\ put[o].old = setting
      /\ put[o].op = (IF exists THEN "update" ELSE "insert")
      /\ \A p \in Operators \ {o} : put[p] = NoPut

\* The row of a provider that is on is stored, and its configuration is valid if
\* it has one.
StoredAreValid ==
  ~mixed => setting.secret = typed /\ (setting.enabled => exists /\ (HasConfig(setting) => Valid(setting)))

SettingsInv == SettingsTyped /\ ReadsAreFresh /\ StoredAreValid

-----------------------------------------------------------------------------
\* What is stored is what the property asks for.
LEMMA SettingsImplied ==
  ASSUME SettingsInv
  PROVE  SettingsHold
BY DEF SettingsInv, StoredAreValid, SettingsHold, Dispatched, HasConfig, Valid

\* The row and the call of nobody have their types.
LEMMA EmptyTyped == NoRow \in Rows /\ NoPut \in Puts
<1>1. NoRow \in Rows
  BY DEF NoRow, Row, Rows
<1>. QED  BY <1>1 DEF NoPut, Put, Puts

\* The initial states satisfy the invariant.
LEMMA SettingsStart == SettingsInit => SettingsInv
<1>. SUFFICES ASSUME SettingsInit PROVE SettingsInv
  OBVIOUS
<1>1. SettingsTyped
  BY EmptyTyped DEF SettingsInit, SettingsTyped
<1>2. ReadsAreFresh
  BY DEF SettingsInit, ReadsAreFresh
<1>3. StoredAreValid
  BY DEF SettingsInit, StoredAreValid, NoRow, Row
<1>. QED  BY <1>1, <1>2, <1>3 DEF SettingsInv

\* What is sent to the API is a row.
LEMMA BodyTyped ==
  ASSUME SettingsTyped, NEW o \in Operators, NEW body \in FromConsole(o) \cup FromScript
  PROVE  body \in Rows
<1>1. shown[o] \in Rows
  BY DEF SettingsTyped
<1>2. CASE body \in FromConsole(o)
  <2>1. PICK on \in BOOLEAN, rank \in Int :
          body = Row(on, rank, shown[o].url, shown[o].secret)
    BY <1>1, <1>2, SettingsAssumption DEF FromConsole, Rows
  <2>. QED  BY <1>1, <2>1 DEF Row, Rows
<1>3. CASE body \in FromScript
  BY <1>3, SettingsAssumption DEF FromScript, Rows
<1>. QED  BY <1>2, <1>3

\* A merge of two rows is a row.
LEMMA MergedTyped ==
  ASSUME NEW old \in Rows, NEW body \in Rows
  PROVE  /\ MergedRow(old, body) \in Rows
         /\ MergedRow(old, body).enabled = body.enabled
         /\ MergedRow(old, body).priority = body.priority
         /\ MergedRow(old, body).secret = Merged(old.secret, body.secret)
BY DEF MergedRow, Row, Rows, Merged

\* A call that nothing has overlapped stores all of the row it has merged.
LEMMA WriteIsWhole ==
  ASSUME SettingsInv, ~mixed, NEW o \in Operators, PutWrite(o)
  PROVE  setting' = MergedRow(setting, put[o].body)
<1>. DEFINE new == MergedRow(setting, put[o].body)
<1>1. put[o].old = setting /\ setting \in Rows /\ put[o].body \in Rows
  BY DEF SettingsInv, SettingsTyped, ReadsAreFresh, PutWrite, Puts
<1>2. new \in Rows
  BY <1>1, MergedTyped
<1>3. CASE put[o].op = "insert"
  BY <1>1, <1>3 DEF PutWrite
<1>4. CASE put[o].op # "insert"
  <2>1. setting' = Row(IF new.enabled # setting.enabled THEN new.enabled ELSE setting.enabled,
                       IF new.priority # setting.priority THEN new.priority ELSE setting.priority,
                       IF <<new.url, new.secret>> # <<setting.url, setting.secret>> THEN new.url ELSE setting.url,
                       IF <<new.url, new.secret>> # <<setting.url, setting.secret>> THEN new.secret ELSE setting.secret)
    BY <1>1, <1>4 DEF PutWrite
  <2>2. setting' = Row(new.enabled, new.priority, new.url, new.secret)
    <3>. HIDE DEF new
    <3>. QED  BY <2>1
  <2>3. new = Row(new.enabled, new.priority, new.url, new.secret)
    <3>. HIDE DEF new
    <3>. QED  BY <1>2 DEF Row, Rows
  <2>. QED  BY <2>2, <2>3
<1>. QED  BY <1>3, <1>4

\* Every step keeps the invariant.
LEMMA SettingsKept ==
  ASSUME SettingsInv, [SettingsNext]_settingVars
  PROVE  SettingsInv'
<1>. USE DEF SettingsInv
<1>1. CASE UNCHANGED settingVars
  BY <1>1 DEF settingVars, SettingsTyped, ReadsAreFresh, StoredAreValid, HasConfig, Valid
<1>2. ASSUME NEW o \in Operators, Show(o)
      PROVE  SettingsInv'
  <2>1. Masked(setting) \in Rows
    BY DEF SettingsTyped, Masked, Row, Rows
  <2>. QED  BY <1>2, <2>1 DEF Show, SettingsTyped, ReadsAreFresh, StoredAreValid, HasConfig, Valid
<1>3. ASSUME NEW o \in Operators, NEW body \in FromConsole(o) \cup FromScript, PutRead(o, body)
      PROVE  SettingsInv'
  <2>1. Put(IF exists THEN "update" ELSE "insert", body, setting) \in Puts
    BY BodyTyped DEF SettingsTyped, Put, Puts
  <2>2. SettingsTyped'
    BY <1>3, <2>1 DEF PutRead, SettingsTyped
  <2>3. ReadsAreFresh'
    BY <1>3, <2>1 DEF PutRead, SettingsTyped, ReadsAreFresh, Put
  <2>. QED  BY <1>3, <2>2, <2>3 DEF PutRead, StoredAreValid, HasConfig, Valid
<1>4. ASSUME NEW o \in Operators, PutWrite(o)
      PROVE  SettingsInv'
  <2>1. put[o] \in Puts /\ put[o].old \in Rows /\ put[o].body \in Rows /\ setting \in Rows
    BY DEF SettingsTyped, Puts
  <2>2. MergedRow(put[o].old, put[o].body) \in Rows
    BY <2>1, MergedTyped
  <2>3. setting' \in Rows
    <3>. DEFINE new == MergedRow(put[o].old, put[o].body)
    <3>1. CASE put[o].op = "insert"
      BY <1>4, <2>2, <3>1 DEF PutWrite
    <3>2. CASE put[o].op # "insert"
      <4>1. PICK config \in BOOLEAN :
              setting' = Row(IF new.enabled # put[o].old.enabled THEN new.enabled ELSE setting.enabled,
                             IF new.priority # put[o].old.priority THEN new.priority ELSE setting.priority,
                             IF config THEN new.url ELSE setting.url,
                             IF config THEN new.secret ELSE setting.secret)
        BY <1>4, <3>2 DEF PutWrite
      <4>. HIDE DEF new
      <4>2. new \in Rows
        BY <2>2 DEF new
      <4>3. /\ new.enabled \in BOOLEAN /\ new.priority \in Int /\ new.url \in Urls \cup {Absent, ""}
            /\ new.secret \in Secrets \cup {Absent, "", MASK}
        BY <4>2 DEF Rows
      <4>4. /\ setting.enabled \in BOOLEAN /\ setting.priority \in Int /\ setting.url \in Urls \cup {Absent, ""}
            /\ setting.secret \in Secrets \cup {Absent, "", MASK}
        BY <2>1 DEF Rows
      <4>5. PICK on \in BOOLEAN, rank \in Int, url \in Urls \cup {Absent, ""}, secret \in Secrets \cup {Absent, "", MASK} :
              setting' = Row(on, rank, url, secret)
        BY <4>1, <4>3, <4>4, Zenon
      <4>. QED  BY <4>5 DEF Row, Rows
    <3>. QED  BY <3>1, <3>2
  <2>4. SettingsTyped'
    BY <1>4, <2>3, EmptyTyped DEF PutWrite, SettingsTyped
  <2>5. ReadsAreFresh'
    BY <1>4 DEF PutWrite, SettingsTyped, ReadsAreFresh
  <2>6. ASSUME ~mixed'
        PROVE  /\ setting'.secret = typed' /\ exists'
               /\ setting'.enabled => (HasConfig(setting') => Valid(setting'))
    <3>1. ~mixed /\ put[o].old = setting /\ setting.secret = typed
      BY <1>4, <2>6 DEF PutWrite, ReadsAreFresh, StoredAreValid
    <3>2. setting' = MergedRow(setting, put[o].body)
      BY <1>4, <3>1, WriteIsWhole
    <3>3. Accepted(setting') /\ exists'
      BY <1>4, <3>1, <3>2 DEF PutWrite
    <3>4. setting'.secret = Merged(typed, put[o].body.secret)
      BY <2>1, <3>1, <3>2, MergedTyped
    <3>5. typed' = Merged(typed, put[o].body.secret)
      BY <1>4 DEF PutWrite, Merged
    <3>. QED  BY <3>3, <3>4, <3>5 DEF Accepted
  <2>. QED  BY <2>4, <2>5, <2>6 DEF StoredAreValid, HasConfig, Valid
<1>5. ASSUME NEW o \in Operators, PutRefused(o)
      PROVE  SettingsInv'
  BY <1>5, EmptyTyped DEF PutRefused, SettingsTyped, ReadsAreFresh, StoredAreValid, HasConfig, Valid
<1>. QED  BY <1>1, <1>2, <1>3, <1>4, <1>5 DEF SettingsNext

\* Unless two calls overlap, the secret that was last entered is the one that is
\* stored, and mailboxes come from a provider that is on exactly if it is configured.
THEOREM SecretsKept == SettingsSpec => []SettingsHold
<1>1. SettingsInv /\ [SettingsNext]_settingVars => SettingsInv'
  BY SettingsKept
<1>2. SettingsInv => SettingsHold
  BY SettingsImplied
<1>. QED  BY SettingsStart, <1>1, <1>2, PTL DEF SettingsSpec

-----------------------------------------------------------------------------
(* The services side by side *)

\* A step of one service leaves the others where they stand.
LEMMA OneMoves ==
  ASSUME [ServicesNext]_servicesVars
  PROVE  /\ [ParserNext]_parserVars /\ [DirectoryNext]_directoryVars /\ [EventNext]_busVars
         /\ [RateNext]_rateVars /\ [SettingsNext]_settingVars
BY DEF ServicesNext, ParserPart, DirectoryPart, EventPart, RatePart, SettingsPart, servicesVars

\* A behaviour of the services is one of each of them.
THEOREM EachIsItself ==
  ServicesSpec => ParserSpec /\ DirectorySpec /\ EventSpec /\ RateSpec /\ SettingsSpec
<1>1. ServicesInit => ParserInit /\ DirectoryInit /\ EventInit /\ RateInit /\ SettingsInit
  BY DEF ServicesInit
<1>. QED
  BY <1>1, OneMoves, PTL
     DEF ServicesSpec, ParserSpec, DirectorySpec, EventSpec, RateSpec, SettingsSpec

\* What holds of the services alone holds of them side by side, as the run checks them.
THEOREM ServicesAreSafe ==
  ServicesSpec =>
    /\ []ParserTypeOK /\ []BestRulesWin /\ []ResultsOfOneParse /\ []ResultOfTask /\ []RaisesBounded
    /\ []DirectoryTypeOK /\ []OneMailboxPerAddress /\ []NoOrphans /\ []CountersMatchRows /\ []ImportedAsCounted
    /\ []NoGap /\ (Limit > 0 => []AtMostLimitPerWindow) /\ []SettingsHold
BY EachIsItself, ParserTyping, LoopFinds, ResultsAreOfOneParse, ResultExists, RaisingCalls,
   DirectoryTyping, OneMailbox, ReferencesHold, CountersHold, ImportsCounted,
   ReplayMeetsQueue, ServedWithinLimit, SecretsKept, PTL
=============================================================================

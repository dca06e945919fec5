----------------------------- MODULE RateLimit -----------------------------
(***************************************************************************)
(* The sliding window of RateLimitMiddleware, for one address.  dispatch() *)
(* awaits nothing before it decides, so a request is one step.             *)
(***************************************************************************)
EXTENDS Integers, Sequences, FiniteSets, SequencesExt

CONSTANTS
  Limit,       \* limit_per_minute: 600
  Window,      \* the 60 seconds
  MaxClock,    \* the end of time in this instance
  MaxRequests  \* requests in this instance

ASSUME RateAssumption == {Limit, Window, MaxClock, MaxRequests} \subseteq Nat

VARIABLES
  clock,   \* time.monotonic()
  hits,    \* _hits[ip]: times of requests, at most Capacity of them
  served,  \* history: the times of the requests that were let through
  asked    \* history: all requests

rateVars == <<clock, hits, served, asked>>

RateInit == clock = 0 /\ hits = <<>> /\ served = <<>> /\ asked = 0

\* (mutant: a deque that holds no more than the limit)
Limited == Limit

\* deque(maxlen=limit_per_minute * 2)
Capacity == 2 * Limit

\* window.append(now): the deque drops its first element when it is full.
Appended ==
  LET all == Append(hits, clock) IN
  IF Len(all) > Capacity THEN Tail(all) ELSE all

Recent(t) == clock - t <= Window

\* window.popleft() while the first hit is not recent: those before the first that is.
Trimmed(all) ==
  LET first == SelectInSeq(all, Recent) IN
  IF first = 0 THEN <<>> ELSE SubSeq(all, first, Len(all))

\* A request is counted whether it is served or refused.
Request429 ==
  LET window == Trimmed(Appended) IN
  /\ asked < MaxRequests /\ asked' = asked + 1
  /\ hits' = window
  /\ served' = IF Len(window) > Limit THEN served ELSE Append(served, clock)
  /\ UNCHANGED clock

Tick ==
  /\ clock < MaxClock /\ clock' = clock + 1
  /\ UNCHANGED <<hits, served, asked>>

RateNext == Request429 \/ Tick

RateSpec == RateInit /\ [][RateNext]_rateVars

\* In no window of 60 seconds, wherever it begins, are more requests served than the
\* limit, although the deque forgets hits when it is full.
AtMostLimitPerWindow ==
  \A t \in 0..MaxClock :
    Cardinality({i \in 1..Len(served) : served[i] \in t..(t + Window)}) <= Limit
=============================================================================

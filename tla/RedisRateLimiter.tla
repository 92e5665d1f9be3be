--------------------------- MODULE RedisRateLimiter ---------------------------
(* RedisRateLimiter.check (rate_limiter.py), called by the handler threads *)
(* of several server processes that share one Redis.  Only INCR and EXPIRE *)
(* are atomic, each by itself: between reading the clock, INCR and EXPIRE  *)
(* other workers run, time passes, and a call may fail, before or after it *)
(* took effect, and take the check with it or be made again.  Redis drops  *)
(* a counter when its time has come.                                       *)
EXTENDS RateLimiter, FiniteSets

CONSTANTS
  Workers,    \* handler threads of all the server processes
  MaxFailures \* bound on the calls to Redis that fail or lose their reply

ASSUME FailuresAssumption == MaxFailures \in Nat

VARIABLES
  clock,    \* time.time()
  checking, \* the key of each worker inside check, or None
  read_at,  \* "current" of each worker
  call,     \* the call to Redis each worker makes next: "incr" or "expire"
  decision, \* the last decision each worker was given, or None
  counters, \* Redis: per key and window the count and when it is dropped
  admitted, \* history: per key the admissions, window and time of each
  failures  \* calls to Redis that failed or lost their reply

redis == <<clock, checking, read_at, call, decision, counters, admitted, failures>>

-----------------------------------------------------------------------------
WindowOf(time) == time \div Window
ResetAt(w) == (w + 1) * Window
Windows == {WindowOf(i) : i \in Instants}

\* Mutant: the counter lives exactly as long as its window.
BareLifetime == Window

Lifetime == (WindowSeconds + 1) * TicksPerSecond

\* Mutant: the expiry is set by the last request let through.
LastSetsExpiry(count) == count = Limit

SetsExpiry(count) == count = 1

\* Counts above Limit answer alike: they are kept at Limit + 1.
Increment(counter) ==
  IF counter = None THEN 1
  ELSE IF counter.count > Limit THEN Limit + 1 ELSE counter.count + 1

RedisInit ==
  /\ clock = 0
  /\ checking = [t \in Workers |-> None]
  /\ read_at = [t \in Workers |-> 0]
  /\ call = [t \in Workers |-> "incr"]
  /\ decision = [t \in Workers |-> None]
  /\ counters = [c \in Keys \X Windows |-> None]
  /\ admitted = [k \in Keys |-> <<>>]
  /\ failures = 0

Expired(c, time) ==
  counters[c] # None /\ counters[c].dropped # None /\ counters[c].dropped <= time

\* Time passes, and Redis drops the counters whose time has come.
Elapse(to) ==
  /\ to > clock
  /\ \A t \in Workers : checking[t] # None => to - read_at[t] <= MaxStale
  /\ clock' = to
  /\ counters' = [c \in Keys \X Windows |->
                    IF Expired(c, to) THEN None ELSE counters[c]]
  /\ UNCHANGED <<checking, read_at, call, decision, admitted, failures>>

BeginCheck(t, k) ==
  /\ checking[t] = None
  /\ checking' = [checking EXCEPT ![t] = k]
  /\ read_at' = [read_at EXCEPT ![t] = clock]
  /\ call' = [call EXCEPT ![t] = "incr"]
  /\ decision' = [decision EXCEPT ![t] = None]
  /\ UNCHANGED <<clock, counters, admitted, failures>>

\* The rest of check, from the count Redis answered: no more calls.
Decide(t, count) ==
  LET k == checking[t]
      w == WindowOf(read_at[t])
      allowed == count <= Limit
  IN /\ checking' = [checking EXCEPT ![t] = None]
     /\ decision' = [decision EXCEPT ![t] =
          [allowed |-> allowed, key |-> k, time |-> read_at[t],
           retry_after |-> IF allowed THEN 0
                           ELSE RetryAfter(ResetAt(w) - read_at[t])]]
     /\ admitted' = IF allowed
                    THEN [admitted EXCEPT ![k] = Append(@, [window |-> w, at |-> clock])]
                    ELSE admitted

\* The counter of a worker's request.
CounterOf(t) == <<checking[t], WindowOf(read_at[t])>>

\* INCR: a counter it creates has no expiry.
CountUp(c) ==
  counters' = [counters EXCEPT ![c] =
    [count |-> Increment(counters[c]),
     dropped |-> IF counters[c] = None THEN None ELSE counters[c].dropped]]

\* EXPIRE: nothing happens if the counter is gone.
SetExpiry(c) ==
  counters' = IF counters[c] = None THEN counters
              ELSE [counters EXCEPT ![c].dropped = clock + Lifetime]

Incr(t) ==
  LET count == Increment(counters[CounterOf(t)])
  IN /\ checking[t] # None /\ call[t] = "incr"
     /\ CountUp(CounterOf(t))
     /\ IF SetsExpiry(count)
        THEN /\ call' = [call EXCEPT ![t] = "expire"]
             /\ UNCHANGED <<checking, decision, admitted>>
        ELSE Decide(t, count) /\ UNCHANGED call
     /\ UNCHANGED <<clock, read_at, failures>>

Expire(t) ==
  /\ checking[t] # None /\ call[t] = "expire"
  /\ SetExpiry(CounterOf(t))
  /\ Decide(t, 1)
  /\ UNCHANGED <<clock, read_at, call, failures>>

\* The call raises: check does, and the request is not decided on.
Fail(t) ==
  /\ checking[t] # None /\ failures < MaxFailures
  /\ failures' = failures + 1
  /\ checking' = [checking EXCEPT ![t] = None]
  /\ UNCHANGED <<clock, read_at, call, decision, counters, admitted>>

\* The call takes effect and its reply is lost.  The client raises or, as
\* some versions do by themselves, makes the call again.
LoseReply(t) ==
  /\ checking[t] # None /\ failures < MaxFailures
  /\ failures' = failures + 1
  /\ IF call[t] = "incr" THEN CountUp(CounterOf(t)) ELSE SetExpiry(CounterOf(t))
  /\ checking' \in {checking, [checking EXCEPT ![t] = None]}
  /\ UNCHANGED <<clock, read_at, call, decision, admitted>>

RedisNext ==
  \/ \E i \in Instants : Elapse(i)
  \/ \E t \in Workers :
       \/ \E k \in Keys : BeginCheck(t, k)
       \/ Incr(t) \/ Expire(t) \/ Fail(t) \/ LoseReply(t)

RedisSpec == RedisInit /\ [][RedisNext]_redis

-----------------------------------------------------------------------------
Counter == [count : 1..Limit + 1, dropped : Nat \union {None}]
RedisDecision == [allowed : BOOLEAN, key : Keys, time : Nat, retry_after : Nat]

ASSUME CounterAssumption == None \notin Counter \union RedisDecision

(* The variables have their types, and a caller is told to wait if and     *)
(* only if it is turned away.                                              *)
RedisTypeOK ==
  /\ clock \in Instants
  /\ checking \in [Workers -> Keys \union {None}]
  /\ read_at \in [Workers -> Instants]
  /\ call \in [Workers -> {"incr", "expire"}]
  /\ decision \in [Workers -> RedisDecision \union {None}]
  /\ counters \in [Keys \X Windows -> Counter \union {None}]
  /\ admitted \in [Keys -> Seq([window : Windows, at : Instants])]
  /\ failures \in 0..MaxFailures
  /\ \A t \in Workers : decision[t] # None =>
       (decision[t].allowed <=> decision[t].retry_after = 0)

\* The admissions of key k that count against window w.
InWindow(k, w) == {i \in 1..Len(admitted[k]) : admitted[k][i].window = w}

(* No more than Limit requests of a key are let through in one clock       *)
(* window, whoever creates and drops the counter: the extra second a       *)
(* counter lives covers the checks that were late.                         *)
FixedWindowBound ==
  \A k \in Keys, w \in Windows : Cardinality(InWindow(k, w)) <= Limit

(* A denied caller that waits its retry_after and the millisecond that the *)
(* rounding may drop falls into a later window.                            *)
RetryLandsLater ==
  \A t, u \in Workers :
    decision[t] # None /\ checking[u] # None =>
      (/\ ~ decision[t].allowed /\ decision[t].key = checking[u]
       /\ Waited(decision[t].time, decision[t].retry_after, read_at[u])
       => WindowOf(read_at[u]) > WindowOf(decision[t].time))

\* Counters without an expiry that no worker is about to set.
Leaked == {c \in Keys \X Windows :
  /\ counters[c] # None /\ counters[c].dropped = None
  /\ \A t \in Workers :
       ~ (checking[t] = c[1] /\ call[t] = "expire" /\ WindowOf(read_at[t]) = c[2])}

(* INCR and EXPIRE are two calls, and only the request that counts 1 makes *)
(* the second: a call that fails, or an INCR whose reply is lost, may      *)
(* leave a counter in Redis for good, one for each such call and no other. *)
LeaksCostFailures == Cardinality(Leaked) <= failures
=============================================================================

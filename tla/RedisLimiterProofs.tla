------------------------- MODULE RedisLimiterProofs -------------------------
(* Theorems about the Redis limiter: for any number of workers and keys,   *)
(* any limit and window, and any calls that fail.                          *)
EXTENDS RedisRateLimiter, NumberLemmas, FiniteSetTheorems

-----------------------------------------------------------------------------
(* Clock windows.                                                          *)

\* What the assumptions say of the constants.
LEMMA RedisFacts ==
  /\ Limit \in Nat \ {0} /\ WindowSeconds \in Nat \ {0} /\ TicksPerSecond \in Nat \ {0}
  /\ MaxStale \in Nat /\ MaxFailures \in Nat
  /\ Instants \subseteq Nat /\ 0 \in Instants
  /\ None \notin Keys \union Nat /\ None \notin Counter \union RedisDecision
BY LimiterAssumption, FailuresAssumption, CounterAssumption

LEMMA WindowPositive == Window \in Nat \ {0} /\ Lifetime = Window + TicksPerSecond
BY RedisFacts DEF Window, Lifetime

\* A window ends with its reset.
LEMMA WindowFacts ==
  ASSUME NEW time \in Nat
  PROVE  /\ WindowOf(time) \in Nat
         /\ ResetAt(WindowOf(time)) \in Int
         /\ ResetAt(WindowOf(time)) - Window <= time
         /\ time < ResetAt(WindowOf(time))
<1> DEFINE w == WindowOf(time)
<1>1. w \in Int /\ Window * w <= time /\ time < Window * w + Window
  BY WindowPositive, DivBounds DEF WindowOf
<1> HIDE DEF w
<1>2. w >= 0
  <2> SUFFICES ASSUME w + 1 <= 0 PROVE FALSE
    BY <1>1
  <2>1. Window * (w + 1) <= 0
    BY <1>1, WindowPositive
  <2> QED BY <1>1, <2>1, WindowPositive
<1>3. ResetAt(w) = Window * w + Window
  BY <1>1, WindowPositive DEF ResetAt
<1>4. ResetAt(w) \in Int
  BY <1>1, <1>3, WindowPositive
<1> QED BY <1>1, <1>2, <1>3, <1>4, WindowPositive DEF w

\* An instant from the reset on is in a later window.
LEMMA AfterReset ==
  ASSUME NEW time \in Nat, NEW w \in Nat, time >= ResetAt(w)
  PROVE  WindowOf(time) > w
<1> DEFINE v == WindowOf(time)
<1>1. v \in Nat /\ Window \in Nat \ {0} /\ time < (v + 1) * Window
  BY WindowFacts, WindowPositive DEF ResetAt
<1>2. time >= (w + 1) * Window
  BY DEF ResetAt
<1> HIDE DEF v
<1> SUFFICES ASSUME v <= w PROVE FALSE
  BY <1>1 DEF v
<1>3. (v + 1) * Window <= (w + 1) * Window
  BY <1>1
<1>4. (w + 1) * Window \in Int /\ (v + 1) * Window \in Int
  BY <1>1
<1> QED BY <1>1, <1>2, <1>3, <1>4

LEMMA WindowInRange ==
  ASSUME NEW time \in Instants
  PROVE  WindowOf(time) \in Windows /\ time \in Nat
BY RedisFacts DEF Windows

LEMMA WindowType == ASSUME NEW w \in Windows PROVE w \in Nat
<1>1. PICK time \in Instants : w = WindowOf(time)
  BY DEF Windows
<1> QED BY <1>1, RedisFacts, WindowFacts

\* The wait is at least a second, and at most a millisecond too short.
LEMMA RetryAfterFacts ==
  ASSUME NEW wait \in Int
  PROVE  /\ RetryAfter(wait) \in Nat \ {0}
         /\ LongEnough(wait, RetryAfter(wait), TicksPerSecond)
<1>0. TicksPerSecond \in Nat \ {0}
  BY RedisFacts
<1>1. PICK q : q = (1000 * wait + 999 * TicksPerSecond) \div (1000 * TicksPerSecond)
  OBVIOUS
<1>2. q \in Int /\ 1000 * wait < TicksPerSecond * (1000 * q + 1)
  BY <1>0, <1>1, NearlyRoundedUp
<1>3. RetryAfter(wait) = IF q > 1 THEN q ELSE 1
  BY <1>1 DEF RetryAfter
<1>4. LongEnough(wait, IF q > 1 THEN q ELSE 1, TicksPerSecond)
  BY <1>0, <1>2, AtLeastASecond
<1> QED BY <1>2, <1>3, <1>4

-----------------------------------------------------------------------------
(* The variables.                                                          *)

Logged == [window : Windows, at : Instants]

LEMMA CountType ==
  ASSUME NEW c \in Counter \union {None}
  PROVE  /\ Increment(c) \in 1..Limit + 1
         /\ c = None => Increment(c) = 1
         /\ c # None => /\ Increment(c) # 1 /\ c.count \in 1..Limit + 1
                       /\ \/ Increment(c) = c.count + 1
                          \/ Increment(c) = c.count /\ c.count = Limit + 1
<1>1. Limit \in Nat \ {0}
  BY RedisFacts
<1>2. c # None => c.count \in 1..Limit + 1
  BY DEF Counter
<1> QED BY <1>1, <1>2 DEF Increment

\* What the end of a check does, given the count Redis answered.
LEMMA DecideFacts ==
  ASSUME RedisTypeOK, NEW t \in Workers, NEW k \in Keys, checking[t] = k,
         NEW count \in 1..Limit + 1, Decide(t, count)
  PROVE  /\ checking' = [checking EXCEPT ![t] = None]
         /\ checking' \in [Workers -> Keys \union {None}]
         /\ decision' \in [Workers -> RedisDecision \union {None}]
         /\ \A u \in Workers \ {t} : decision'[u] = decision[u]
         /\ decision'[t].allowed = (count <= Limit) /\ decision'[t].key = k
         /\ decision'[t].time = read_at[t]
         /\ decision'[t].allowed <=> decision'[t].retry_after = 0
         /\ ~ decision'[t].allowed =>
              decision'[t].retry_after = RetryAfter(ResetAt(WindowOf(read_at[t])) - read_at[t])
         /\ admitted' \in [Keys -> Seq(Logged)]
         /\ count > Limit => admitted' = admitted
         /\ count <= Limit =>
              /\ admitted'[k] = Append(admitted[k], [window |-> WindowOf(read_at[t]), at |-> clock])
              /\ \A j \in Keys \ {k} : admitted'[j] = admitted[j]
<1> DEFINE w == WindowOf(read_at[t])
           wait == RetryAfter(ResetAt(w) - read_at[t])
           allowed == count <= Limit
           answer == [allowed |-> allowed, key |-> k, time |-> read_at[t],
                      retry_after |-> IF allowed THEN 0 ELSE wait]
           entry == [window |-> w, at |-> clock]
<1>1. read_at[t] \in Instants /\ read_at[t] \in Nat /\ clock \in Instants
  BY RedisFacts DEF RedisTypeOK
<1>2. w \in Windows /\ ResetAt(w) - read_at[t] \in Int
  BY <1>1, WindowInRange, WindowFacts
<1>3. wait \in Nat \ {0}
  BY <1>2, RetryAfterFacts
<1>4. allowed \in BOOLEAN
  OBVIOUS
<1>5. /\ checking' = [checking EXCEPT ![t] = None] /\ decision' = [decision EXCEPT ![t] = answer]
      /\ admitted' = IF allowed THEN [admitted EXCEPT ![k] = Append(@, entry)] ELSE admitted
  BY DEF Decide
<1> HIDE DEF w, wait
<1>6. /\ answer \in RedisDecision
      /\ answer.allowed = allowed /\ answer.key = k /\ answer.time = read_at[t]
      /\ answer.allowed <=> answer.retry_after = 0
      /\ ~ answer.allowed => answer.retry_after = wait
  <2> HIDE DEF allowed
  <2> QED BY <1>1, <1>3, <1>4 DEF RedisDecision
<1>7. entry \in Logged
  BY <1>1, <1>2 DEF Logged
<1> HIDE DEF answer, entry
<1>8. /\ checking \in [Workers -> Keys \union {None}]
      /\ decision \in [Workers -> RedisDecision \union {None}]
      /\ admitted \in [Keys -> Seq(Logged)]
  BY DEF RedisTypeOK, Logged
<1>9. checking' \in [Workers -> Keys \union {None}]
  BY <1>5, <1>8
<1>10. /\ decision' \in [Workers -> RedisDecision \union {None}] /\ decision'[t] = answer
       /\ \A u \in Workers \ {t} : decision'[u] = decision[u]
  BY <1>5, <1>6, <1>8
<1>11. CASE count <= Limit
  <2>1. Append(admitted[k], entry) \in Seq(Logged)
    BY <1>7, <1>8
  <2>2. admitted' = [admitted EXCEPT ![k] = Append(admitted[k], entry)]
    BY <1>5, <1>11
  <2>3. /\ admitted' \in [Keys -> Seq(Logged)] /\ admitted'[k] = Append(admitted[k], entry)
        /\ \A j \in Keys \ {k} : admitted'[j] = admitted[j]
    BY <1>8, <2>1, <2>2
  <2>4. count \in Int /\ Limit \in Int
    BY RedisFacts
  <2> QED BY <1>5, <1>6, <1>9, <1>10, <1>11, <2>3, <2>4 DEF entry, w, wait
<1>12. CASE ~ (count <= Limit)
  <2>1. admitted' = admitted
    BY <1>5, <1>12
  <2> QED BY <1>5, <1>6, <1>8, <1>9, <1>10, <1>12, <2>1 DEF w, wait
<1> QED BY <1>11, <1>12

\* What INCR makes of the counter of a worker's request.
CountOf(t) == Increment(counters[CounterOf(t)])

CountedUp(c, count) ==
  /\ c \in Keys \X Windows /\ count \in 1..Limit + 1
  /\ counters' \in [Keys \X Windows -> Counter \union {None}]
  /\ counters'[c] # None /\ counters'[c].count = count
  /\ counters'[c].dropped = (IF counters[c] = None THEN None ELSE counters[c].dropped)
  /\ \A d \in (Keys \X Windows) \ {c} : counters'[d] = counters[d]

LEMMA CountUpFacts ==
  ASSUME RedisTypeOK, NEW t \in Workers, checking[t] \in Keys, CountUp(CounterOf(t))
  PROVE  CountedUp(CounterOf(t), CountOf(t))
<1> DEFINE c == CounterOf(t)
           count == CountOf(t)
           gone == IF counters[c] = None THEN None ELSE counters[c].dropped
           new == [count |-> count, dropped |-> gone]
<1>1. c \in Keys \X Windows
  <2>1. read_at[t] \in Instants
    BY DEF RedisTypeOK
  <2> QED BY <2>1, WindowInRange DEF CounterOf
<1>2. counters[c] \in Counter \union {None}
  BY <1>1 DEF RedisTypeOK
<1>3. count \in 1..Limit + 1
  BY <1>2, CountType DEF CountOf
<1>4. gone \in Nat \union {None}
  BY <1>2 DEF Counter
<1>5. counters' = [counters EXCEPT ![c] = new]
  BY DEF CountUp, CountOf
<1> HIDE DEF gone
<1>6. new \in Counter /\ new.count = count /\ new.dropped = gone
  BY <1>3, <1>4 DEF Counter
<1> HIDE DEF new
<1>7. new # None
  BY <1>6, RedisFacts
<1>8. /\ counters' \in [Keys \X Windows -> Counter \union {None}]
      /\ counters'[c] = new
      /\ \A d \in (Keys \X Windows) \ {c} : counters'[d] = counters[d]
  BY <1>1, <1>5, <1>6 DEF RedisTypeOK
<1> HIDE DEF c, count
<1> QED BY <1>1, <1>3, <1>6, <1>7, <1>8 DEF gone, c, count, CountedUp

\* The three outcomes of INCR: first, let through or turned away.
IncrOutcome(t, c, count) ==
  /\ CountedUp(c, count)
  /\ \/ /\ count = 1 /\ call' = [call EXCEPT ![t] = "expire"]
        /\ UNCHANGED <<checking, decision, admitted>>
     \/ count # 1 /\ Decide(t, count) /\ UNCHANGED call
  /\ UNCHANGED <<clock, read_at, failures>>

LEMMA IncrFacts ==
  ASSUME RedisTypeOK, NEW t \in Workers, checking[t] \in Keys, Incr(t)
  PROVE  IncrOutcome(t, CounterOf(t), CountOf(t))
<1>1. CountedUp(CounterOf(t), CountOf(t))
  BY CountUpFacts DEF Incr
<1> QED BY <1>1 DEF Incr, SetsExpiry, CountOf, IncrOutcome

\* EXPIRE, of a counter that may be gone.
ExpirySet(c) ==
  /\ c \in Keys \X Windows
  /\ counters' \in [Keys \X Windows -> Counter \union {None}]
  /\ counters'[c] = None <=> counters[c] = None
  /\ counters[c] # None => /\ counters'[c].count = counters[c].count
                          /\ counters'[c].dropped = clock + Lifetime
  /\ \A d \in (Keys \X Windows) \ {c} : counters'[d] = counters[d]

LEMMA SetExpiryFacts ==
  ASSUME RedisTypeOK, NEW t \in Workers, checking[t] \in Keys, SetExpiry(CounterOf(t))
  PROVE  ExpirySet(CounterOf(t))
<1> DEFINE c == CounterOf(t)
<1>1. c \in Keys \X Windows
  <2>1. read_at[t] \in Instants
    BY DEF RedisTypeOK
  <2> QED BY <2>1, WindowInRange DEF CounterOf
<1>3. CASE counters[c] = None
  BY <1>1, <1>3 DEF SetExpiry, RedisTypeOK, ExpirySet
<1>4. CASE counters[c] # None
  <2> DEFINE new == [counters[c] EXCEPT !.dropped = clock + Lifetime]
  <2>1. clock + Lifetime \in Nat
    BY WindowPositive, RedisFacts DEF RedisTypeOK
  <2>2. counters[c] \in Counter
    BY <1>1, <1>4 DEF RedisTypeOK
  <2>3. counters' = [counters EXCEPT ![c] = new]
    BY <1>4 DEF SetExpiry
  <2>4. new \in Counter /\ new.count = counters[c].count /\ new.dropped = clock + Lifetime
    BY <2>1, <2>2 DEF Counter
  <2> HIDE DEF new
  <2>5. new # None
    BY <2>4, RedisFacts
  <2>6. /\ counters' \in [Keys \X Windows -> Counter \union {None}]
        /\ counters'[c] = new
        /\ \A d \in (Keys \X Windows) \ {c} : counters'[d] = counters[d]
    BY <1>1, <2>3, <2>4 DEF RedisTypeOK
  <2> HIDE DEF c
  <2> QED BY <1>1, <1>4, <2>4, <2>5, <2>6 DEF ExpirySet, c
<1> QED BY <1>3, <1>4

ExpireOutcome(t, c) ==
  ExpirySet(c) /\ Decide(t, 1) /\ UNCHANGED <<clock, read_at, call, failures>>

LEMMA ExpireFacts ==
  ASSUME RedisTypeOK, NEW t \in Workers, checking[t] \in Keys, Expire(t)
  PROVE  ExpireOutcome(t, CounterOf(t))
<1>1. ExpirySet(CounterOf(t))
  BY SetExpiryFacts DEF Expire
<1> QED BY <1>1 DEF Expire, ExpireOutcome

\* A call whose reply is lost: the worker gives up or makes it again.
LostOutcome(t, c, count) ==
  /\ \/ call[t] = "incr" /\ CountedUp(c, count)
     \/ call[t] = "expire" /\ ExpirySet(c)
  /\ checking' \in {checking, [checking EXCEPT ![t] = None]}
  /\ failures < MaxFailures /\ failures' = failures + 1
  /\ UNCHANGED <<clock, read_at, call, decision, admitted>>

LEMMA LostFacts ==
  ASSUME RedisTypeOK, NEW t \in Workers, LoseReply(t)
  PROVE  checking[t] \in Keys /\ LostOutcome(t, CounterOf(t), CountOf(t))
<1>1. checking[t] \in Keys /\ call[t] \in {"incr", "expire"}
  BY DEF LoseReply, RedisTypeOK
<1>2. CASE call[t] = "incr"
  <2>1. CountedUp(CounterOf(t), CountOf(t))
    BY <1>1, <1>2, CountUpFacts DEF LoseReply
  <2> QED BY <1>1, <1>2, <2>1 DEF LoseReply, LostOutcome
<1>3. CASE call[t] = "expire"
  <2>1. ExpirySet(CounterOf(t))
    BY <1>1, <1>3, SetExpiryFacts DEF LoseReply
  <2> QED BY <1>1, <1>3, <2>1 DEF LoseReply, LostOutcome
<1> QED BY <1>1, <1>2, <1>3

LEMMA TypeInit == RedisInit => RedisTypeOK
BY RedisFacts DEF RedisInit, RedisTypeOK

LEMMA TypeNext == RedisTypeOK /\ [RedisNext]_redis => RedisTypeOK'
<1> SUFFICES ASSUME RedisTypeOK, [RedisNext]_redis PROVE RedisTypeOK'
  OBVIOUS
<1>1. ASSUME NEW to \in Instants, Elapse(to) PROVE RedisTypeOK'
  <2>1. /\ clock' = to
        /\ UNCHANGED <<checking, read_at, call, decision, admitted, failures>>
    BY <1>1, RedisFacts DEF Elapse
  <2>2. counters' \in [Keys \X Windows -> Counter \union {None}]
    BY <1>1 DEF Elapse, RedisTypeOK
  <2>3. clock' \in Instants
    BY <2>1 DEF RedisTypeOK
  <2> QED BY <2>1, <2>2, <2>3 DEF RedisTypeOK
<1>2. ASSUME NEW t \in Workers, NEW k \in Keys, BeginCheck(t, k) PROVE RedisTypeOK'
  BY <1>2 DEF BeginCheck, RedisTypeOK
<1>3. ASSUME NEW t \in Workers, Incr(t) PROVE RedisTypeOK'
  <2>1. checking[t] \in Keys
    BY <1>3 DEF Incr, RedisTypeOK
  <2>3. PICK count : count = CountOf(t)
    OBVIOUS
  <2>4. /\ count \in 1..Limit + 1
        /\ counters' \in [Keys \X Windows -> Counter \union {None}]
        /\ \/ /\ count = 1 /\ call' = [call EXCEPT ![t] = "expire"]
              /\ UNCHANGED <<checking, decision, admitted>>
           \/ count # 1 /\ Decide(t, count) /\ UNCHANGED call
        /\ UNCHANGED <<clock, read_at, failures>>
    BY <1>3, <2>1, <2>3, IncrFacts DEF IncrOutcome, CountedUp
  <2>5. CASE Decide(t, count) /\ UNCHANGED call
    <3>1. /\ checking' \in [Workers -> Keys \union {None}]
          /\ decision' \in [Workers -> RedisDecision \union {None}]
          /\ \A u \in Workers \ {t} : decision'[u] = decision[u]
          /\ decision'[t].allowed <=> decision'[t].retry_after = 0
          /\ admitted' \in [Keys -> Seq(Logged)]
      BY <2>1, <2>4, <2>5, DecideFacts
    <3>2. \A u \in Workers : decision'[u] # None =>
            (decision'[u].allowed <=> decision'[u].retry_after = 0)
      BY <3>1 DEF RedisTypeOK
    <3> QED BY <2>4, <2>5, <3>1, <3>2 DEF RedisTypeOK, Logged
  <2>6. CASE call' = [call EXCEPT ![t] = "expire"] /\ UNCHANGED <<checking, decision, admitted>>
    BY <2>4, <2>6 DEF RedisTypeOK
  <2> QED BY <2>4, <2>5, <2>6
<1>4. ASSUME NEW t \in Workers, Expire(t) PROVE RedisTypeOK'
  <2>1. checking[t] \in Keys
    BY <1>4 DEF Expire, RedisTypeOK
  <2>3. /\ counters' \in [Keys \X Windows -> Counter \union {None}]
        /\ Decide(t, 1) /\ UNCHANGED <<clock, read_at, call, failures>>
    BY <1>4, <2>1, ExpireFacts DEF ExpireOutcome, ExpirySet
  <2>4. 1 \in 1..Limit + 1
    BY RedisFacts
  <2>5. /\ checking' \in [Workers -> Keys \union {None}]
        /\ decision' \in [Workers -> RedisDecision \union {None}]
        /\ \A u \in Workers \ {t} : decision'[u] = decision[u]
        /\ decision'[t].allowed <=> decision'[t].retry_after = 0
        /\ admitted' \in [Keys -> Seq(Logged)]
    BY <2>1, <2>3, <2>4, DecideFacts
  <2>6. \A u \in Workers : decision'[u] # None =>
          (decision'[u].allowed <=> decision'[u].retry_after = 0)
    BY <2>5 DEF RedisTypeOK
  <2> QED BY <2>3, <2>5, <2>6 DEF RedisTypeOK, Logged
<1>5. ASSUME NEW t \in Workers, Fail(t) PROVE RedisTypeOK'
  <2>1. failures' \in 0..MaxFailures
    BY <1>5, RedisFacts DEF Fail, RedisTypeOK
  <2>2. checking' \in [Workers -> Keys \union {None}]
    BY <1>5 DEF Fail, RedisTypeOK
  <2> QED BY <1>5, <2>1, <2>2 DEF Fail, RedisTypeOK
<1>6. ASSUME NEW t \in Workers, LoseReply(t) PROVE RedisTypeOK'
  <2>1. LostOutcome(t, CounterOf(t), CountOf(t))
    BY <1>6, LostFacts
  <2>2. failures' \in 0..MaxFailures
    BY <2>1, RedisFacts DEF LostOutcome, RedisTypeOK
  <2>3. checking' \in [Workers -> Keys \union {None}]
    BY <2>1 DEF LostOutcome, RedisTypeOK
  <2>4. counters' \in [Keys \X Windows -> Counter \union {None}]
    BY <2>1 DEF LostOutcome, CountedUp, ExpirySet
  <2>5. UNCHANGED <<clock, read_at, call, decision, admitted>>
    BY <2>1 DEF LostOutcome
  <2> QED BY <2>2, <2>3, <2>4, <2>5 DEF RedisTypeOK
<1>7. CASE UNCHANGED redis
  BY <1>7 DEF redis, RedisTypeOK
<1> QED BY <1>1, <1>2, <1>3, <1>4, <1>5, <1>6, <1>7 DEF RedisNext

(* The variables of the Redis limiter have their types, and a caller waits *)
(* if and only if it is turned away.                                       *)
THEOREM RedisTypeCorrect == RedisSpec => []RedisTypeOK
BY TypeInit, TypeNext, PTL DEF RedisSpec

-----------------------------------------------------------------------------
(* The wait: a decision that denies keeps the wait it was computed with.   *)

WaitInv == \A t \in Workers :
  decision[t] # None /\ ~ decision[t].allowed =>
    decision[t].retry_after =
      RetryAfter(ResetAt(WindowOf(decision[t].time)) - decision[t].time)

LEMMA WaitNext == RedisTypeOK /\ WaitInv /\ [RedisNext]_redis => WaitInv'
<1> SUFFICES ASSUME RedisTypeOK, WaitInv, [RedisNext]_redis PROVE WaitInv'
  OBVIOUS
<1>1. ASSUME NEW to \in Instants, Elapse(to) PROVE WaitInv'
  BY <1>1 DEF Elapse, WaitInv
<1>2. ASSUME NEW t \in Workers, NEW k \in Keys, BeginCheck(t, k) PROVE WaitInv'
  BY <1>2 DEF BeginCheck, WaitInv, RedisTypeOK
<1>a. ASSUME NEW t \in Workers, checking[t] \in Keys, NEW count \in 1..Limit + 1,
             Decide(t, count)
      PROVE  WaitInv'
  <2>1. /\ \A u \in Workers \ {t} : decision'[u] = decision[u]
        /\ decision'[t].time = read_at[t]
        /\ ~ decision'[t].allowed =>
              decision'[t].retry_after = RetryAfter(ResetAt(WindowOf(read_at[t])) - read_at[t])
    BY <1>a, DecideFacts
  <2> QED BY <2>1 DEF WaitInv
<1>3. ASSUME NEW t \in Workers, Incr(t) PROVE WaitInv'
  <2>1. checking[t] \in Keys
    BY <1>3 DEF Incr, RedisTypeOK
  <2>2. PICK count \in 1..Limit + 1 : UNCHANGED decision \/ Decide(t, count)
    BY <1>3, <2>1, IncrFacts DEF IncrOutcome, CountedUp
  <2>3. CASE UNCHANGED decision
    BY <2>3 DEF WaitInv
  <2>4. CASE Decide(t, count)
    BY <1>a, <2>1, <2>4
  <2> QED BY <2>2, <2>3, <2>4
<1>4. ASSUME NEW t \in Workers, Expire(t) PROVE WaitInv'
  <2>1. checking[t] \in Keys /\ Decide(t, 1) /\ 1 \in 1..Limit + 1
    BY <1>4, RedisFacts DEF Expire, RedisTypeOK
  <2> QED BY <1>a, <2>1
<1>5. ASSUME NEW t \in Workers, Fail(t) PROVE WaitInv'
  BY <1>5 DEF Fail, WaitInv
<1>6. ASSUME NEW t \in Workers, LoseReply(t) PROVE WaitInv'
  BY <1>6 DEF LoseReply, WaitInv
<1>7. CASE UNCHANGED redis
  BY <1>7 DEF redis, WaitInv
<1> QED BY <1>1, <1>2, <1>3, <1>4, <1>5, <1>6, <1>7 DEF RedisNext

(* A denied caller that waits its retry_after and a millisecond falls into *)
(* a later window (rate_limiter.py:65-78), however fine the clock.         *)
THEOREM RetriesLandLater == RedisSpec => []RetryLandsLater
<1>1. RedisInit => WaitInv
  BY DEF RedisInit, WaitInv
<1>2. RedisTypeOK /\ WaitInv => RetryLandsLater
  <2> SUFFICES ASSUME RedisTypeOK, WaitInv, NEW t \in Workers, NEW u \in Workers,
                      decision[t] # None, checking[u] # None, ~ decision[t].allowed,
                      Waited(decision[t].time, decision[t].retry_after, read_at[u])
               PROVE  WindowOf(read_at[u]) > WindowOf(decision[t].time)
    BY DEF RetryLandsLater
  <2> DEFINE w == WindowOf(decision[t].time)
  <2>1. decision[t].time \in Nat /\ read_at[u] \in Nat
    BY RedisFacts DEF RedisTypeOK, RedisDecision
  <2>2. w \in Nat /\ ResetAt(w) \in Int
    BY <2>1, WindowFacts
  <2>3. decision[t].retry_after = RetryAfter(ResetAt(w) - decision[t].time)
    BY DEF WaitInv
  <2> HIDE DEF w
  <2>4. PICK wait, spent \in Int, seconds \in Nat :
          /\ wait = ResetAt(w) - decision[t].time
          /\ spent = read_at[u] - decision[t].time
          /\ seconds = decision[t].retry_after
    <3>1. ResetAt(w) - decision[t].time \in Int /\ read_at[u] - decision[t].time \in Int
      BY <2>1, <2>2
    <3>2. RetryAfter(ResetAt(w) - decision[t].time) \in Nat
      BY <3>1, RetryAfterFacts
    <3> QED BY <2>3, <3>1, <3>2
  <2>5. LongEnough(wait, seconds, TicksPerSecond)
    BY <2>3, <2>4, RetryAfterFacts
  <2>6. 1000 * spent >= TicksPerSecond * (1000 * seconds + 1)
    BY <2>4 DEF Waited
  <2>7. wait <= spent
    <3>1. TicksPerSecond \in Nat
      BY RedisFacts
    <3> QED BY <2>5, <2>6, <3>1, LongEnoughElapsed
  <2>8. read_at[u] >= ResetAt(w)
    BY <2>1, <2>2, <2>4, <2>7
  <2>9. WindowOf(read_at[u]) > w
    BY <2>1, <2>2, <2>8, AfterReset
  <2> QED BY <2>9 DEF w
<1> QED BY <1>1, <1>2, TypeInit, TypeNext, WaitNext, PTL DEF RedisSpec

-----------------------------------------------------------------------------
(* The bound.  While a counter lives it is at least the admissions of its  *)
(* window, the one its creator still has to make included.  It is gone     *)
(* only before its first use, or a second after its window: and then the   *)
(* checks that began in the window have all been decided.                  *)

Admitted(k, w) == Cardinality(InWindow(k, w))

\* The worker that created the counter and has not set its expiry yet.
Creates(t, k, w) == checking[t] = k /\ call[t] = "expire" /\ WindowOf(read_at[t]) = w

Over(w) == ResetAt(w) + TicksPerSecond <= clock

Unused(k, w) == Admitted(k, w) = 0 /\ \A t \in Workers : ~ Creates(t, k, w)

Counts(k, w, c) ==
  /\ Admitted(k, w) <= c.count
  /\ c.dropped # None => ResetAt(w) + TicksPerSecond <= c.dropped
  /\ \A t \in Workers : Creates(t, k, w) =>
       Admitted(k, w) + 1 <= c.count /\ Admitted(k, w) + 1 <= Limit

CounterInv(k, w) ==
  /\ Admitted(k, w) <= Limit
  /\ IF counters[<<k, w>>] = None THEN Over(w) \/ Unused(k, w)
     ELSE Counts(k, w, counters[<<k, w>>])
  /\ \A t, u \in Workers : Creates(t, k, w) /\ Creates(u, k, w) => t = u

WorkerInv(t) ==
  checking[t] # None => read_at[t] <= clock /\ clock - read_at[t] <= MaxStale

RedisInv ==
  /\ RedisTypeOK
  /\ \A t \in Workers : WorkerInv(t)
  /\ \A k \in Keys, w \in Windows : CounterInv(k, w)

LEMMA AdmittedType ==
  ASSUME RedisTypeOK, NEW k \in Keys, NEW w
  PROVE  IsFiniteSet(InWindow(k, w)) /\ Admitted(k, w) \in Nat
<1>1. admitted[k] \in Seq(Logged)
  BY DEF RedisTypeOK, Logged
<1>2. Len(admitted[k]) \in Nat /\ IsFiniteSet(1..Len(admitted[k]))
  BY <1>1, FS_Interval
<1>3. IsFiniteSet(InWindow(k, w))
  BY <1>2, FS_Subset DEF InWindow
<1> QED BY <1>3, FS_CardinalityType DEF Admitted

\* One more request of the window was let through, and none of another.
LEMMA AdmittedGrows ==
  ASSUME RedisTypeOK, NEW k \in Keys, NEW w, NEW v, NEW at,
         admitted'[k] = Append(admitted[k], [window |-> v, at |-> at])
  PROVE  Admitted(k, w)' = IF v = w THEN Admitted(k, w) + 1 ELSE Admitted(k, w)
<1> DEFINE n == Len(admitted[k]) + 1
           e == [window |-> v, at |-> at]
<1>1. admitted[k] \in Seq(Logged) /\ n \in Nat /\ n \notin 1..Len(admitted[k])
  <2>1. admitted[k] \in Seq(Logged)
    BY DEF RedisTypeOK, Logged
  <2>2. Len(admitted[k]) \in Nat
    BY <2>1
  <2> QED BY <2>1, <2>2
<1>2. e.window = v
  OBVIOUS
<1> HIDE DEF e
<1>3. /\ Len(admitted'[k]) = n /\ admitted'[k][n] = e
      /\ \A i \in 1..Len(admitted[k]) : admitted'[k][i] = admitted[k][i]
  <2>1. admitted'[k] = Append(admitted[k], e)
    BY DEF e
  <2> QED BY <1>1, <2>1
<1>4. 1..n = (1..Len(admitted[k])) \union {n}
  BY <1>1
<1> HIDE DEF n
<1>5. CASE v = w
  <2>1. InWindow(k, w)' = InWindow(k, w) \union {n} /\ n \notin InWindow(k, w)
    BY <1>1, <1>2, <1>3, <1>4, <1>5 DEF InWindow
  <2> QED BY <1>5, <2>1, AdmittedType, FS_AddElement DEF Admitted
<1>6. CASE v # w
  <2>1. InWindow(k, w)' = InWindow(k, w)
    BY <1>1, <1>2, <1>3, <1>4, <1>6 DEF InWindow
  <2> QED BY <1>6, <2>1 DEF Admitted
<1> QED BY <1>5, <1>6

LEMMA RedisStarts == RedisInit => RedisInv
<1> SUFFICES ASSUME RedisInit PROVE RedisInv
  OBVIOUS
<1>1. RedisTypeOK
  BY TypeInit
<1>2. \A t \in Workers : checking[t] = None
  BY DEF RedisInit
<1>3. ASSUME NEW k \in Keys, NEW w \in Windows PROVE CounterInv(k, w)
  <2>1. InWindow(k, w) = {}
    BY DEF RedisInit, InWindow
  <2>2. Admitted(k, w) = 0
    BY <2>1, FS_EmptySet DEF Admitted
  <2>3. \A t \in Workers : ~ Creates(t, k, w)
    BY <1>2, RedisFacts DEF Creates
  <2>4. counters[<<k, w>>] = None
    BY DEF RedisInit
  <2> QED BY <2>2, <2>3, <2>4, RedisFacts DEF CounterInv, Unused
<1> QED BY <1>1, <1>2, <1>3 DEF RedisInv, WorkerInv

\* The clocks of the workers, which only Elapse and BeginCheck disturb.
LEMMA WorkersNext == RedisInv /\ [RedisNext]_redis => \A t \in Workers : WorkerInv(t)'
<1> SUFFICES ASSUME RedisInv, [RedisNext]_redis, NEW u \in Workers PROVE WorkerInv(u)'
  OBVIOUS
<1>0. /\ read_at[u] \in Instants /\ clock \in Instants /\ MaxStale \in Nat
      /\ checking \in [Workers -> Keys \union {None}] /\ read_at \in [Workers -> Instants]
      /\ read_at[u] \in Nat /\ clock \in Nat /\ RedisTypeOK /\ WorkerInv(u)
  BY RedisFacts DEF RedisInv, RedisTypeOK
<1>1. ASSUME NEW to \in Instants, Elapse(to) PROVE WorkerInv(u)'
  <2>1. /\ to \in Nat /\ to > clock /\ clock' = to
        /\ checking[u] # None => to - read_at[u] <= MaxStale
        /\ UNCHANGED <<checking, read_at>>
    BY <1>1, RedisFacts DEF Elapse
  <2> QED BY <1>0, <2>1 DEF WorkerInv
<1>2. ASSUME NEW t \in Workers, NEW k \in Keys, BeginCheck(t, k) PROVE WorkerInv(u)'
  <2>1. CASE u = t
    <3>1. read_at'[u] = clock /\ clock' = clock
      BY <1>0, <1>2, <2>1 DEF BeginCheck
    <3> QED BY <1>0, <3>1 DEF WorkerInv
  <2>2. CASE u # t
    <3>1. read_at'[u] = read_at[u] /\ checking'[u] = checking[u] /\ clock' = clock
      BY <1>0, <1>2, <2>2 DEF BeginCheck
    <3> QED BY <1>0, <3>1 DEF WorkerInv
  <2> QED BY <2>1, <2>2
<1>a. ASSUME NEW t \in Workers, UNCHANGED <<clock, read_at>>,
             UNCHANGED checking \/ checking' = [checking EXCEPT ![t] = None]
      PROVE  WorkerInv(u)'
  BY <1>0, <1>a DEF WorkerInv
<1>3. ASSUME NEW t \in Workers, Incr(t) PROVE WorkerInv(u)'
  BY <1>3, <1>a DEF Incr, Decide
<1>4. ASSUME NEW t \in Workers, Expire(t) PROVE WorkerInv(u)'
  BY <1>4, <1>a DEF Expire, Decide
<1>5. ASSUME NEW t \in Workers, Fail(t) PROVE WorkerInv(u)'
  BY <1>5, <1>a DEF Fail
<1>6. ASSUME NEW t \in Workers, LoseReply(t) PROVE WorkerInv(u)'
  BY <1>6, <1>a DEF LoseReply
<1>7. CASE UNCHANGED redis
  BY <1>0, <1>7 DEF redis, WorkerInv
<1> QED BY <1>1, <1>2, <1>3, <1>4, <1>5, <1>6, <1>7 DEF RedisNext

\* A window that has been over for a second has no checks under way: this is
\* what the extra second of a counter's life is for.
LEMMA NoneLate ==
  ASSUME RedisInv, MaxStale <= TicksPerSecond, NEW t \in Workers, checking[t] # None
  PROVE  ~ Over(WindowOf(read_at[t]))
<1>1. /\ read_at[t] \in Nat /\ clock \in Nat /\ MaxStale \in Nat /\ TicksPerSecond \in Nat
      /\ clock - read_at[t] <= MaxStale
  BY RedisFacts DEF RedisInv, RedisTypeOK, WorkerInv
<1>2. read_at[t] < ResetAt(WindowOf(read_at[t])) /\ ResetAt(WindowOf(read_at[t])) \in Int
  BY <1>1, WindowFacts
<1> QED BY <1>1, <1>2 DEF Over

\* An expiry set now lies a second after the window of the check at least.
LEMMA OutlivesWindow ==
  ASSUME RedisInv, NEW t \in Workers, checking[t] # None
  PROVE  ResetAt(WindowOf(read_at[t])) + TicksPerSecond <= clock + Lifetime
<1>1. /\ read_at[t] \in Nat /\ clock \in Nat /\ read_at[t] <= clock
      /\ TicksPerSecond \in Nat /\ Window \in Nat /\ Lifetime = Window + TicksPerSecond
  BY WindowPositive, RedisFacts DEF RedisInv, RedisTypeOK, WorkerInv
<1>2. /\ ResetAt(WindowOf(read_at[t])) \in Int
      /\ ResetAt(WindowOf(read_at[t])) - Window <= read_at[t]
  BY <1>1, WindowFacts
<1> QED BY <1>1, <1>2

\* Windows stay over.
LEMMA OverStays ==
  ASSUME NEW w \in Windows, Over(w), clock \in Nat, clock' \in Nat, clock <= clock'
  PROVE  Over(w)'
<1>1. w \in Nat /\ Window \in Nat
  BY WindowPositive, WindowType
<1>2. ResetAt(w) \in Int
  BY <1>1 DEF ResetAt
<1> QED BY <1>2, RedisFacts DEF Over

\* Time passes, and with it counters.
LEMMA ElapseKeepsCounters ==
  ASSUME RedisInv, NEW to \in Instants, Elapse(to), NEW k \in Keys, NEW w \in Windows
  PROVE  CounterInv(k, w)'
<1>1. /\ clock' = to /\ clock \in Nat /\ clock' \in Nat /\ clock <= clock'
      /\ UNCHANGED <<checking, read_at, call, decision, admitted, failures>>
  <2>1. to \in Nat /\ clock \in Nat /\ to > clock
    BY RedisFacts DEF Elapse, RedisInv, RedisTypeOK
  <2> QED BY <2>1 DEF Elapse
<1>2. /\ Admitted(k, w)' = Admitted(k, w)
      /\ \A t \in Workers : Creates(t, k, w)' <=> Creates(t, k, w)
  BY <1>1 DEF Admitted, InWindow, Creates
<1>3. CounterInv(k, w)
  BY DEF RedisInv
<1> DEFINE c == <<k, w>>
<1>4. c \in Keys \X Windows /\ counters[c] \in Counter \union {None}
  BY DEF RedisInv, RedisTypeOK
<1>5. counters'[c] = IF Expired(c, to) THEN None ELSE counters[c]
  BY <1>4 DEF Elapse
<1>6. CASE Expired(c, to)
  <2>1. counters[c] # None /\ counters[c].dropped # None /\ counters[c].dropped <= clock'
    BY <1>1, <1>6 DEF Expired
  <2>2. ResetAt(w) + TicksPerSecond <= counters[c].dropped
    BY <1>3, <2>1 DEF CounterInv, Counts
  <2>3. counters[c].dropped \in Nat /\ ResetAt(w) + TicksPerSecond \in Int
    <3>1. counters[c].dropped \in Nat
      BY <1>4, <2>1 DEF Counter
    <3>2. w \in Nat /\ Window \in Nat /\ TicksPerSecond \in Nat
      BY WindowPositive, RedisFacts, WindowType
    <3> QED BY <3>1, <3>2 DEF ResetAt
  <2>4. Over(w)'
    <3>1. (ResetAt(w) + TicksPerSecond)' = ResetAt(w) + TicksPerSecond
      BY DEF ResetAt
    <3> QED BY <1>1, <2>1, <2>2, <2>3, <3>1 DEF Over
  <2>5. counters'[c] = None
    BY <1>5, <1>6
  <2> QED BY <1>2, <1>3, <2>4, <2>5 DEF CounterInv
<1>7. CASE ~ Expired(c, to)
  <2>1. counters'[c] = counters[c]
    BY <1>5, <1>7
  <2>2. Over(w) => Over(w)'
    BY <1>1, OverStays
  <2>3. CASE counters[c] = None
    BY <1>2, <1>3, <2>1, <2>2, <2>3 DEF CounterInv, Unused
  <2>4. CASE counters[c] # None
    <3>1. Counts(k, w, counters[c])
      BY <1>3, <2>4 DEF CounterInv
    <3>2. ResetAt(w)' = ResetAt(w)
      BY DEF ResetAt
    <3>3. Counts(k, w, counters[c])'
      BY <1>2, <2>1, <3>1, <3>2 DEF Counts
    <3> QED BY <1>2, <1>3, <2>1, <2>4, <3>3 DEF CounterInv
  <2> QED BY <2>3, <2>4
<1> QED BY <1>6, <1>7

\* A step that touches neither the counter nor the admissions.
LEMMA OtherCounters ==
  ASSUME RedisInv, NEW k \in Keys, NEW w \in Windows, UNCHANGED clock,
         counters'[<<k, w>>] = counters[<<k, w>>],
         Admitted(k, w)' = Admitted(k, w),
         \A u \in Workers : Creates(u, k, w)' => Creates(u, k, w)
  PROVE  CounterInv(k, w)'
<1>1. CounterInv(k, w)
  BY DEF RedisInv
<1>2. Over(w)' <=> Over(w)
  BY DEF Over, ResetAt
<1>3. CASE counters[<<k, w>>] = None
  BY <1>1, <1>2, <1>3 DEF CounterInv, Unused
<1>4. CASE counters[<<k, w>>] # None
  <2>1. Counts(k, w, counters[<<k, w>>])
    BY <1>1, <1>4 DEF CounterInv
  <2>2. Counts(k, w, counters[<<k, w>>])'
    <3>1. ResetAt(w)' = ResetAt(w)
      BY DEF ResetAt
    <3> QED BY <2>1, <3>1 DEF Counts
  <2> QED BY <1>1, <1>4, <2>2 DEF CounterInv
<1> QED BY <1>3, <1>4

\* What a decision leaves of the other keys and windows.
LEMMA DecideElsewhere ==
  ASSUME RedisInv, NEW t \in Workers, checking[t] \in Keys, NEW count \in 1..Limit + 1,
         Decide(t, count), UNCHANGED <<clock, read_at, call>>,
         NEW k \in Keys, NEW w \in Windows, <<k, w>> # CounterOf(t),
         counters'[<<k, w>>] = counters[<<k, w>>]
  PROVE  CounterInv(k, w)'
<1>1. RedisTypeOK /\ checking \in [Workers -> Keys \union {None}]
  BY DEF RedisInv, RedisTypeOK
<1>2. /\ checking' = [checking EXCEPT ![t] = None]
      /\ count > Limit => admitted' = admitted
      /\ count <= Limit =>
           /\ admitted'[checking[t]] = Append(admitted[checking[t]], [window |-> WindowOf(read_at[t]), at |-> clock])
           /\ \A j \in Keys \ {checking[t]} : admitted'[j] = admitted[j]
  BY <1>1, DecideFacts
<1>3. Admitted(k, w)' = Admitted(k, w)
  <2>1. CASE count > Limit
    BY <1>2, <2>1 DEF Admitted, InWindow
  <2>2. CASE count <= Limit /\ k # checking[t]
    BY <1>2, <2>2 DEF Admitted, InWindow
  <2>3. CASE count <= Limit /\ k = checking[t]
    <3>1. WindowOf(read_at[t]) # w
      BY <2>3 DEF CounterOf
    <3> QED BY <1>1, <1>2, <2>3, <3>1, AdmittedGrows
  <2>4. count \in Int /\ Limit \in Int
    BY RedisFacts
  <2> QED BY <2>1, <2>2, <2>3, <2>4
<1>4. \A u \in Workers : Creates(u, k, w)' => Creates(u, k, w)
  <2>1. None \notin Keys
    BY RedisFacts
  <2>2. \A u \in Workers : checking'[u] = IF u = t THEN None ELSE checking[u]
    BY <1>1, <1>2
  <2>3. \A u \in Workers : WindowOf(read_at[u])' = WindowOf(read_at[u])
    BY DEF WindowOf
  <2> QED BY <2>1, <2>2, <2>3 DEF Creates
<1> QED BY <1>3, <1>4, OtherCounters

\* The counter that is counted up: it was created by this request or before.
LEMMA IncrKeepsItsCounter ==
  ASSUME RedisInv, MaxStale <= TicksPerSecond, NEW t \in Workers, checking[t] \in Keys,
         Incr(t), NEW k \in Keys, NEW w \in Windows, <<k, w>> = CounterOf(t)
  PROVE  CounterInv(k, w)'
<1> DEFINE c == counters[<<k, w>>]
           n == CountOf(t)
<1>1. /\ RedisTypeOK /\ CounterInv(k, w) /\ checking[t] = k /\ WindowOf(read_at[t]) = w
      /\ checking[t] # None /\ call[t] = "incr" /\ Limit \in Nat \ {0}
      /\ checking \in [Workers -> Keys \union {None}]
      /\ call \in [Workers -> {"incr", "expire"}]
  BY RedisFacts DEF RedisInv, RedisTypeOK, CounterOf, Incr
<1>2. ~ Over(w)
  BY <1>1, NoneLate
<1>3. /\ n \in 1..Limit + 1 /\ UNCHANGED <<clock, read_at>>
      /\ c' # None /\ c'.count = n /\ c'.dropped = (IF c = None THEN None ELSE c.dropped)
      /\ \/ n = 1 /\ call' = [call EXCEPT ![t] = "expire"] /\ UNCHANGED <<checking, decision, admitted>>
         \/ n # 1 /\ Decide(t, n) /\ UNCHANGED call
  BY <1>1, IncrFacts DEF IncrOutcome, CountedUp
<1>4. c \in Counter \union {None} /\ n = Increment(c)
  <2>1. <<k, w>> \in Keys \X Windows
    OBVIOUS
  <2> QED BY <1>1, <2>1 DEF RedisTypeOK, CountOf
<1>5. Admitted(k, w) \in Nat
  BY <1>1, AdmittedType
<1>w. \A u \in Workers : WindowOf(read_at[u])' = WindowOf(read_at[u])
  BY <1>3 DEF WindowOf
<1>r. ResetAt(w)' = ResetAt(w)
  BY DEF ResetAt
<1> HIDE DEF c, n
<1>6. CASE c = None
  <2>1. Admitted(k, w) = 0 /\ \A u \in Workers : ~ Creates(u, k, w)
    BY <1>1, <1>2, <1>6 DEF CounterInv, Unused, c
  <2>2. n = 1
    BY <1>4, <1>6, CountType
  <2>3. call' = [call EXCEPT ![t] = "expire"] /\ UNCHANGED <<checking, admitted>>
    BY <1>3, <2>2
  <2>4. Admitted(k, w)' = 0
    BY <2>1, <2>3 DEF Admitted, InWindow
  <2>5. \A u \in Workers : Creates(u, k, w)' => u = t
    BY <1>1, <1>w, <2>1, <2>3 DEF Creates
  <2>6. c'.dropped = None /\ c'.count = 1
    BY <1>3, <1>6, <2>2
  <2>7. Counts(k, w, c)'
    BY <1>1, <2>4, <2>6 DEF Counts
  <2> QED BY <1>1, <1>3, <2>4, <2>5, <2>7 DEF CounterInv, c
<1>7. CASE c # None
  <2>1. Counts(k, w, c)
    BY <1>1, <1>7 DEF CounterInv, c
  <2>2. /\ n # 1 /\ c.count \in 1..Limit + 1
        /\ n = c.count + 1 \/ (n = c.count /\ c.count = Limit + 1)
    <3>1. /\ Increment(c) # 1 /\ c.count \in 1..Limit + 1
          /\ \/ Increment(c) = c.count + 1
             \/ Increment(c) = c.count /\ c.count = Limit + 1
      BY <1>1, <1>4, <1>7 DEF Increment, Counter
    <3> QED BY <1>4, <3>1
  <2>3. Decide(t, n) /\ UNCHANGED call
    BY <1>3, <2>2
  <2>4. /\ checking' = [checking EXCEPT ![t] = None]
        /\ n > Limit => admitted' = admitted
        /\ n <= Limit => admitted'[k] = Append(admitted[k], [window |-> w, at |-> clock])
    <3>1. /\ checking' = [checking EXCEPT ![t] = None]
          /\ n > Limit => admitted' = admitted
          /\ n <= Limit =>
               admitted'[k] = Append(admitted[k], [window |-> WindowOf(read_at[t]), at |-> clock])
      <4>1. RedisTypeOK /\ checking[t] = k /\ n \in 1..Limit + 1 /\ Decide(t, n)
        BY <1>1, <1>3, <2>3
      <4> QED BY <4>1, DecideFacts
    <3> QED BY <1>1, <3>1
  <2>5. \A u \in Workers : Creates(u, k, w)' => Creates(u, k, w)
    <3>1. \A u \in Workers : checking'[u] = IF u = t THEN None ELSE checking[u]
      BY <1>1, <2>4
    <3>2. None \notin Keys
      BY RedisFacts
    <3> QED BY <1>w, <2>3, <3>1, <3>2 DEF Creates
  <2>6. c'.dropped = c.dropped /\ c'.count = n
    BY <1>3, <1>7
  <2>7. CASE n <= Limit
    <3>1. Admitted(k, w)' = Admitted(k, w) + 1
      BY <1>1, <2>4, <2>7, AdmittedGrows
    <3>2. n = c.count + 1
      BY <1>1, <2>2, <2>7
    <3>3. Admitted(k, w) <= c.count
      BY <2>1 DEF Counts
    <3>4. Admitted(k, w)' <= Limit /\ Admitted(k, w)' <= n
      BY <1>1, <1>5, <2>2, <2>7, <3>1, <3>2, <3>3
    <3>5. \A u \in Workers : Creates(u, k, w)' =>
            Admitted(k, w)' + 1 <= n /\ Admitted(k, w)' + 1 <= Limit
      <4>1. \A u \in Workers : Creates(u, k, w)' => Admitted(k, w) + 1 <= c.count
        BY <2>1, <2>5 DEF Counts
      <4> QED BY <1>1, <1>5, <2>2, <2>7, <3>1, <3>2, <4>1
    <3>6. Counts(k, w, c)'
      BY <1>r, <1>3, <2>1, <2>6, <3>4, <3>5, RedisFacts DEF Counts
    <3> QED BY <1>1, <1>3, <2>5, <3>4, <3>6 DEF CounterInv, c
  <2>8. CASE ~ (n <= Limit)
    <3>1. Admitted(k, w)' = Admitted(k, w)
      <4>1. n > Limit
        BY <1>1, <1>3, <2>8
      <4> QED BY <2>4, <4>1 DEF Admitted, InWindow
    <3>2. c.count <= n
      BY <2>2
    <3>3. Admitted(k, w) <= c.count /\ Admitted(k, w) <= Limit
      BY <1>1, <2>1 DEF Counts, CounterInv
    <3>4. Admitted(k, w)' <= n
      BY <1>3, <1>5, <2>2, <3>1, <3>2, <3>3
    <3>5. \A u \in Workers : Creates(u, k, w)' =>
            Admitted(k, w)' + 1 <= n /\ Admitted(k, w)' + 1 <= Limit
      <4>1. \A u \in Workers : Creates(u, k, w)' =>
              Admitted(k, w) + 1 <= c.count /\ Admitted(k, w) + 1 <= Limit
        BY <2>1, <2>5 DEF Counts
      <4> QED BY <1>3, <1>5, <2>2, <3>1, <3>2, <4>1
    <3>6. Counts(k, w, c)'
      BY <1>r, <1>3, <2>1, <2>6, <3>4, <3>5, RedisFacts DEF Counts
    <3> QED BY <1>1, <1>3, <2>5, <3>1, <3>3, <3>6 DEF CounterInv, c
  <2> QED BY <2>7, <2>8
<1> QED BY <1>6, <1>7

\* The creator makes the admission the counter has counted already.
LEMMA ExpireKeepsItsCounter ==
  ASSUME RedisInv, MaxStale <= TicksPerSecond, NEW t \in Workers, checking[t] \in Keys,
         Expire(t), NEW k \in Keys, NEW w \in Windows, <<k, w>> = CounterOf(t)
  PROVE  CounterInv(k, w)'
<1> DEFINE c == counters[<<k, w>>]
<1>1. /\ RedisTypeOK /\ CounterInv(k, w) /\ checking[t] = k /\ WindowOf(read_at[t]) = w
      /\ checking[t] # None /\ Limit \in Nat \ {0} /\ Creates(t, k, w)
      /\ checking \in [Workers -> Keys \union {None}]
  BY RedisFacts DEF RedisInv, RedisTypeOK, CounterOf, Expire, Creates
<1>2. ~ Over(w)
  BY <1>1, NoneLate
<1>3. c # None /\ Counts(k, w, c)
  BY <1>1, <1>2 DEF CounterInv, Unused
<1>4. /\ c' # None /\ c'.count = c.count /\ c'.dropped = clock + Lifetime
      /\ Decide(t, 1) /\ UNCHANGED <<clock, read_at, call>>
  BY <1>1, <1>3, ExpireFacts DEF ExpireOutcome, ExpirySet
<1> HIDE DEF c
<1>5. Admitted(k, w) \in Nat /\ Admitted(k, w) + 1 <= c.count /\ Admitted(k, w) + 1 <= Limit
  BY <1>1, <1>3, AdmittedType DEF Counts
<1>6. /\ checking' = [checking EXCEPT ![t] = None]
      /\ admitted'[k] = Append(admitted[k], [window |-> w, at |-> clock])
  <2>1. 1 \in 1..Limit + 1 /\ 1 <= Limit
    BY <1>1
  <2> QED BY <1>1, <1>4, <2>1, DecideFacts
<1>7. Admitted(k, w)' = Admitted(k, w) + 1
  BY <1>1, <1>6, AdmittedGrows
<1>8. \A u \in Workers : ~ Creates(u, k, w)'
  <2>1. \A u \in Workers : checking'[u] = IF u = t THEN None ELSE checking[u]
    BY <1>1, <1>6
  <2>2. \A u \in Workers : WindowOf(read_at[u])' = WindowOf(read_at[u])
    BY <1>4 DEF WindowOf
  <2>3. \A u \in Workers : Creates(u, k, w) => u = t
    BY <1>1 DEF CounterInv
  <2>4. None \notin Keys
    BY RedisFacts
  <2>5. \A u \in Workers : Creates(u, k, w)' => u # t /\ Creates(u, k, w)
    BY <1>4, <2>1, <2>2, <2>4 DEF Creates
  <2> QED BY <2>3, <2>5
<1>9. ResetAt(w) + TicksPerSecond <= clock + Lifetime
  BY <1>1, OutlivesWindow
<1>10. Counts(k, w, c)'
  <2>1. (ResetAt(w) + TicksPerSecond)' = ResetAt(w) + TicksPerSecond
    BY DEF ResetAt
  <2>2. Admitted(k, w)' <= c'.count
    BY <1>4, <1>5, <1>7
  <2> QED BY <1>4, <1>8, <1>9, <2>1, <2>2 DEF Counts
<1>11. Admitted(k, w)' <= Limit
  BY <1>5, <1>7
<1> QED BY <1>4, <1>8, <1>10, <1>11 DEF CounterInv, c

\* A reply that is lost: a counter may be counted up for nothing, or get its
\* expiry before its creator knows.
LEMMA LostKeepsCounters ==
  ASSUME RedisInv, MaxStale <= TicksPerSecond, NEW t \in Workers, LoseReply(t),
         NEW k \in Keys, NEW w \in Windows
  PROVE  CounterInv(k, w)'
<1> DEFINE c == counters[<<k, w>>]
           n == CountOf(t)
<1>1. /\ RedisTypeOK /\ CounterInv(k, w) /\ checking[t] \in Keys /\ Limit \in Nat \ {0}
      /\ checking \in [Workers -> Keys \union {None}] /\ checking[t] # None
      /\ LostOutcome(t, CounterOf(t), n)
  BY LostFacts, RedisFacts DEF RedisInv, RedisTypeOK, LoseReply
<1>2. UNCHANGED <<clock, read_at, call, decision, admitted>>
  BY <1>1 DEF LostOutcome
<1>3. \A u \in Workers : Creates(u, k, w)' => Creates(u, k, w)
  <2>1. \A u \in Workers : checking'[u] = checking[u] \/ checking'[u] = None
    BY <1>1 DEF LostOutcome
  <2>2. None \notin Keys
    BY RedisFacts
  <2>3. \A u \in Workers : WindowOf(read_at[u])' = WindowOf(read_at[u])
    BY <1>2 DEF WindowOf
  <2> QED BY <1>2, <2>1, <2>2, <2>3 DEF Creates
<1>4. Admitted(k, w)' = Admitted(k, w) /\ Admitted(k, w) \in Nat
  BY <1>1, <1>2, AdmittedType DEF Admitted, InWindow
<1>r. ResetAt(w)' = ResetAt(w)
  BY DEF ResetAt
<1>5. CASE <<k, w>> # CounterOf(t)
  <2>1. counters'[<<k, w>>] = counters[<<k, w>>]
    BY <1>1, <1>5 DEF LostOutcome, CountedUp, ExpirySet
  <2> QED BY <1>2, <1>3, <1>4, <2>1, OtherCounters
<1>6. CASE <<k, w>> = CounterOf(t)
  <2>0. checking[t] = k /\ WindowOf(read_at[t]) = w
    BY <1>6 DEF CounterOf
  <2>1. ~ Over(w)
    BY <1>1, <2>0, NoneLate
  <2>2. CASE call[t] = "incr"
    <3>1. /\ n \in 1..Limit + 1 /\ c' # None /\ c'.count = n
          /\ c'.dropped = (IF c = None THEN None ELSE c.dropped)
      BY <1>1, <1>6, <2>2 DEF LostOutcome, CountedUp
    <3>2. c \in Counter \union {None} /\ n = Increment(c)
      <4>1. <<k, w>> \in Keys \X Windows
        OBVIOUS
      <4> QED BY <1>1, <1>6, <4>1 DEF RedisTypeOK, CountOf
    <3> HIDE DEF n, c
    <3>3. CASE c = None
      <4>1. Admitted(k, w) = 0 /\ \A u \in Workers : ~ Creates(u, k, w)
        BY <1>1, <2>1, <3>3 DEF CounterInv, Unused, c
      <4>2. Counts(k, w, c)'
        BY <1>1, <1>3, <1>4, <3>1, <3>3, <4>1 DEF Counts
      <4> QED BY <1>1, <1>3, <1>4, <3>1, <4>1, <4>2 DEF CounterInv, c
    <3>4. CASE c # None
      <4>1. Counts(k, w, c) /\ Admitted(k, w) <= Limit
        BY <1>1, <3>4 DEF CounterInv, c
      <4>2. /\ c.count \in 1..Limit + 1
            /\ n = c.count + 1 \/ (n = c.count /\ c.count = Limit + 1)
        BY <3>2, <3>4, CountType
      <4>3. c'.dropped = c.dropped /\ c.count <= n /\ c.count \in Nat /\ n \in Nat
        BY <1>1, <3>1, <3>4, <4>2
      <4>4. Admitted(k, w)' <= c'.count
        BY <1>4, <3>1, <4>1, <4>3 DEF Counts
      <4>5. \A u \in Workers : Creates(u, k, w)' =>
              Admitted(k, w)' + 1 <= c'.count /\ Admitted(k, w)' + 1 <= Limit
        <5>1. \A u \in Workers : Creates(u, k, w)' =>
                Admitted(k, w) + 1 <= c.count /\ Admitted(k, w) + 1 <= Limit
          BY <1>3, <4>1 DEF Counts
        <5> QED BY <1>4, <3>1, <4>3, <5>1
      <4>6. Counts(k, w, c)'
        BY <1>r, <4>1, <4>3, <4>4, <4>5, RedisFacts DEF Counts
      <4> QED BY <1>1, <1>3, <1>4, <3>1, <4>1, <4>6 DEF CounterInv, c
    <3> QED BY <3>3, <3>4
  <2>3. CASE call[t] = "expire"
    <3>1. c # None /\ Counts(k, w, c)
      <4>1. Creates(t, k, w)
        BY <2>0, <2>3 DEF Creates
      <4> QED BY <1>1, <2>1, <4>1 DEF CounterInv, Unused
    <3>2. c' # None /\ c'.count = c.count /\ c'.dropped = clock + Lifetime
      BY <1>1, <1>6, <2>3, <3>1 DEF LostOutcome, ExpirySet
    <3> HIDE DEF c
    <3>3. ResetAt(w) + TicksPerSecond <= clock + Lifetime
      BY <1>1, <2>0, OutlivesWindow
    <3>4. Counts(k, w, c)'
      <4>1. (ResetAt(w) + TicksPerSecond)' = ResetAt(w) + TicksPerSecond
        BY DEF ResetAt
      <4> QED BY <1>3, <1>4, <3>1, <3>2, <3>3, <4>1 DEF Counts
    <3> QED BY <1>1, <1>3, <1>4, <3>2, <3>4 DEF CounterInv, c
  <2>4. call[t] \in {"incr", "expire"}
    BY <1>1 DEF RedisTypeOK
  <2> QED BY <2>2, <2>3, <2>4
<1> QED BY <1>5, <1>6

LEMMA CountersNext ==
  ASSUME RedisInv, MaxStale <= TicksPerSecond, [RedisNext]_redis,
         NEW k \in Keys, NEW w \in Windows
  PROVE  CounterInv(k, w)'
<1>0. /\ RedisTypeOK /\ checking \in [Workers -> Keys \union {None}]
      /\ call \in [Workers -> {"incr", "expire"}]
      /\ <<k, w>> \in Keys \X Windows
  BY DEF RedisInv, RedisTypeOK
<1>1. ASSUME NEW to \in Instants, Elapse(to) PROVE CounterInv(k, w)'
  BY <1>1, ElapseKeepsCounters
<1>2. ASSUME NEW t \in Workers, NEW j \in Keys, BeginCheck(t, j) PROVE CounterInv(k, w)'
  <2>1. UNCHANGED <<clock, counters, admitted>>
    BY <1>2 DEF BeginCheck
  <2>2. ASSUME NEW u \in Workers, Creates(u, k, w)' PROVE Creates(u, k, w)
    <3>1. u # t
      BY <1>0, <1>2, <2>2 DEF BeginCheck, Creates
    <3>2. checking'[u] = checking[u] /\ read_at'[u] = read_at[u] /\ call'[u] = call[u]
      BY <1>0, <1>2, <3>1 DEF BeginCheck, RedisTypeOK
    <3>3. WindowOf(read_at[u])' = WindowOf(read_at[u])
      BY <3>2 DEF WindowOf
    <3> QED BY <2>2, <3>2, <3>3 DEF Creates
  <2> QED BY <2>1, <2>2, OtherCounters DEF Admitted, InWindow
<1>3. ASSUME NEW t \in Workers, Incr(t) PROVE CounterInv(k, w)'
  <2>1. checking[t] \in Keys
    BY <1>0, <1>3 DEF Incr
  <2>2. CASE <<k, w>> = CounterOf(t)
    BY <1>3, <2>1, <2>2, IncrKeepsItsCounter
  <2>3. CASE <<k, w>> # CounterOf(t)
    <3>1. PICK n \in 1..Limit + 1 :
            /\ counters'[<<k, w>>] = counters[<<k, w>>] /\ UNCHANGED <<clock, read_at>>
            /\ \/ call' = [call EXCEPT ![t] = "expire"] /\ UNCHANGED <<checking, admitted>>
               \/ Decide(t, n) /\ UNCHANGED call
      BY <1>0, <1>3, <2>1, <2>3, IncrFacts DEF IncrOutcome, CountedUp
    <3>2. CASE Decide(t, n) /\ UNCHANGED call
      BY <2>1, <2>3, <3>1, <3>2, DecideElsewhere
    <3>3. CASE call' = [call EXCEPT ![t] = "expire"] /\ UNCHANGED <<checking, admitted>>
      <4>1. \A u \in Workers : Creates(u, k, w)' => Creates(u, k, w)
        <5>1. \A u \in Workers : WindowOf(read_at[u])' = WindowOf(read_at[u])
          BY <3>1 DEF WindowOf
        <5>2. \A u \in Workers : u # t => call'[u] = call[u]
          BY <1>0, <3>3
        <5>3. ~ (checking[t] = k /\ WindowOf(read_at[t]) = w)
          BY <2>3 DEF CounterOf
        <5> QED BY <3>3, <5>1, <5>2, <5>3 DEF Creates
      <4> QED BY <3>1, <3>3, <4>1, OtherCounters DEF Admitted, InWindow
    <3> QED BY <3>1, <3>2, <3>3
  <2> QED BY <2>2, <2>3
<1>4. ASSUME NEW t \in Workers, Expire(t) PROVE CounterInv(k, w)'
  <2>1. checking[t] \in Keys
    BY <1>0, <1>4 DEF Expire
  <2>2. CASE <<k, w>> = CounterOf(t)
    BY <1>4, <2>1, <2>2, ExpireKeepsItsCounter
  <2>3. CASE <<k, w>> # CounterOf(t)
    <3>1. /\ counters'[<<k, w>>] = counters[<<k, w>>]
          /\ Decide(t, 1) /\ UNCHANGED <<clock, read_at, call>>
      BY <1>0, <1>4, <2>1, <2>3, ExpireFacts DEF ExpireOutcome, ExpirySet
    <3>2. 1 \in 1..Limit + 1
      BY RedisFacts
    <3> QED BY <2>1, <2>3, <3>1, <3>2, DecideElsewhere
  <2> QED BY <2>2, <2>3
<1>5. ASSUME NEW t \in Workers, Fail(t) PROVE CounterInv(k, w)'
  <2>1. UNCHANGED <<clock, counters, admitted, read_at, call>>
    BY <1>5 DEF Fail
  <2>2. ASSUME NEW u \in Workers, Creates(u, k, w)' PROVE Creates(u, k, w)
    <3>1. checking'[u] = IF u = t THEN None ELSE checking[u]
      BY <1>0, <1>5 DEF Fail
    <3>2. WindowOf(read_at[u])' = WindowOf(read_at[u])
      BY <2>1 DEF WindowOf
    <3> QED BY <2>1, <2>2, <3>1, <3>2, RedisFacts DEF Creates
  <2> QED BY <2>1, <2>2, OtherCounters DEF Admitted, InWindow
<1>6. ASSUME NEW t \in Workers, LoseReply(t) PROVE CounterInv(k, w)'
  BY <1>6, LostKeepsCounters
<1>7. CASE UNCHANGED redis
  <2>1. UNCHANGED <<clock, counters, admitted, read_at, call, checking>>
    BY <1>7 DEF redis
  <2>2. \A u \in Workers : Creates(u, k, w)' => Creates(u, k, w)
    BY <2>1 DEF Creates, WindowOf
  <2> QED BY <2>1, <2>2, OtherCounters DEF Admitted, InWindow
<1> QED BY <1>1, <1>2, <1>3, <1>4, <1>5, <1>6, <1>7 DEF RedisNext

(* No more than Limit requests of a key are let through in one clock       *)
(* window (rate_limiter.py:63-83), whatever fails, if no check takes       *)
(* longer than the second a counter outlives its window by.                *)
THEOREM FixedWindowBoundHolds ==
  ASSUME MaxStale <= TicksPerSecond
  PROVE  RedisSpec => []FixedWindowBound
<1>1. RedisInv /\ [RedisNext]_redis => RedisInv'
  <2> SUFFICES ASSUME RedisInv, [RedisNext]_redis PROVE RedisInv'
    OBVIOUS
  <2>1. RedisTypeOK'
    BY TypeNext DEF RedisInv
  <2>2. \A t \in Workers : WorkerInv(t)'
    BY WorkersNext
  <2>3. \A k \in Keys, w \in Windows : CounterInv(k, w)'
    BY CountersNext
  <2>4. Windows' = Windows
    BY DEF Windows, Window, WindowOf
  <2> QED BY <2>1, <2>2, <2>3, <2>4 DEF RedisInv
<1>2. RedisInv => FixedWindowBound
  BY DEF RedisInv, CounterInv, Admitted, FixedWindowBound
<1> QED BY <1>1, <1>2, RedisStarts, PTL DEF RedisSpec

-----------------------------------------------------------------------------
(* Leaked counters.  Only a call that fails adds one: INCR leaves a new    *)
(* counter to its creator, and the creator is the only one to leave it.    *)

WillExpire(t, c) == checking[t] = c[1] /\ call[t] = "expire" /\ WindowOf(read_at[t]) = c[2]

LEMMA LeakedIs ==
  Leaked = {c \in Keys \X Windows :
              /\ counters[c] # None /\ counters[c].dropped = None
              /\ \A t \in Workers : ~ WillExpire(t, c)}
BY DEF Leaked, WillExpire

\* What makes a counter a leaked one: it has been one, or lost its creator.
LEMMA LeakedGrows ==
  ASSUME NEW t \in Workers, NEW d,
         \A c \in Keys \X Windows : c # d /\ counters'[c] # None =>
           counters[c] # None /\ (counters'[c].dropped = None => counters[c].dropped = None),
         \A c \in Keys \X Windows : \A u \in Workers :
           c # d /\ WillExpire(u, c) => WillExpire(u, c)'
  PROVE  Leaked' \subseteq Leaked \union {d}
<1>1. Leaked' = {c \in Keys \X Windows :
              /\ counters'[c] # None /\ counters'[c].dropped = None
              /\ \A u \in Workers : ~ WillExpire(u, c)'}
  BY DEF Leaked, WillExpire, Windows, Window, WindowOf
<1> QED BY <1>1, LeakedIs

\* A worker that gives up leaves no counter but its own without a creator.
LEMMA OthersExpire ==
  ASSUME RedisTypeOK, NEW t \in Workers, UNCHANGED <<call, read_at>>,
         checking' \in {checking, [checking EXCEPT ![t] = None]}
  PROVE  \A c \in Keys \X Windows : \A u \in Workers :
           c # CounterOf(t) /\ WillExpire(u, c) => WillExpire(u, c)'
<1> SUFFICES ASSUME NEW c \in Keys \X Windows, NEW u \in Workers,
                    c # CounterOf(t), WillExpire(u, c)
             PROVE  WillExpire(u, c)'
  OBVIOUS
<1>1. u # t
  BY DEF WillExpire, CounterOf
<1>2. checking'[u] = checking[u]
  BY <1>1 DEF RedisTypeOK
<1> QED BY <1>2 DEF WillExpire, WindowOf

LeakInv == IsFiniteSet(Leaked) /\ LeaksCostFailures

LEMMA LeakNext == RedisTypeOK /\ LeakInv /\ [RedisNext]_redis => LeakInv'
<1> SUFFICES ASSUME RedisTypeOK, LeakInv, [RedisNext]_redis PROVE LeakInv'
  OBVIOUS
<1>0. /\ checking \in [Workers -> Keys \union {None}] /\ failures \in Nat
      /\ call \in [Workers -> {"incr", "expire"}] /\ None \notin Keys
      /\ Cardinality(Leaked) \in Nat /\ IsFiniteSet(Leaked)
      /\ Cardinality(Leaked) <= failures
  BY FS_CardinalityType, RedisFacts DEF RedisTypeOK, LeakInv, LeaksCostFailures
<1>a. ASSUME Leaked' \subseteq Leaked, UNCHANGED failures PROVE LeakInv'
  <2>1. IsFiniteSet(Leaked') /\ Cardinality(Leaked') <= Cardinality(Leaked)
    BY <1>0, <1>a, FS_Subset
  <2>2. Cardinality(Leaked') \in Nat
    BY <2>1, FS_CardinalityType
  <2> QED BY <1>0, <1>a, <2>1, <2>2 DEF LeakInv, LeaksCostFailures
<1>b. ASSUME NEW c, Leaked' \subseteq Leaked \union {c}, failures' = failures + 1
      PROVE  LeakInv'
  <2>1. /\ IsFiniteSet(Leaked \union {c})
        /\ Cardinality(Leaked \union {c}) <= Cardinality(Leaked) + 1
    BY <1>0, FS_AddElement
  <2>2. /\ IsFiniteSet(Leaked') /\ Cardinality(Leaked') <= Cardinality(Leaked \union {c})
        /\ Cardinality(Leaked') \in Nat /\ Cardinality(Leaked \union {c}) \in Nat
    BY <1>b, <2>1, FS_Subset, FS_CardinalityType
  <2>3. Cardinality(Leaked') <= failures'
    BY <1>0, <1>b, <2>1, <2>2
  <2> QED BY <2>2, <2>3 DEF LeakInv, LeaksCostFailures
<1>1. ASSUME NEW to \in Instants, Elapse(to) PROVE LeakInv'
  <2>1. /\ \A c \in Keys \X Windows : counters'[c] # None => counters'[c] = counters[c]
        /\ UNCHANGED <<checking, read_at, call, failures>>
    BY <1>1 DEF Elapse
  <2>2. Leaked' \subseteq Leaked
    BY <2>1 DEF Leaked, Windows, Window, WindowOf
  <2> QED BY <1>a, <2>1, <2>2
<1>2. ASSUME NEW t \in Workers, NEW k \in Keys, BeginCheck(t, k) PROVE LeakInv'
  <2>1. checking[t] = None /\ UNCHANGED <<counters, failures>>
    BY <1>2 DEF BeginCheck
  <2>2. \A c \in Keys \X Windows : \A u \in Workers :
          WillExpire(u, c) => WillExpire(u, c)'
    <3> SUFFICES ASSUME NEW c \in Keys \X Windows, NEW u \in Workers, WillExpire(u, c)
                 PROVE  WillExpire(u, c)'
      OBVIOUS
    <3>1. u # t
      BY <1>0, <2>1 DEF WillExpire
    <3>2. checking'[u] = checking[u] /\ call'[u] = call[u] /\ read_at'[u] = read_at[u]
      BY <1>0, <1>2, <3>1 DEF BeginCheck, RedisTypeOK
    <3> QED BY <3>2 DEF WillExpire, WindowOf
  <2>3. Leaked' \subseteq Leaked
    BY <2>1, <2>2, LeakedIs DEF Leaked, WillExpire, Windows, Window, WindowOf
  <2> QED BY <1>a, <2>1, <2>3
<1>3. ASSUME NEW t \in Workers, Incr(t) PROVE LeakInv'
  <2>0. PICK c0 : c0 = CounterOf(t)
    OBVIOUS
  <2>1. checking[t] \in Keys /\ call[t] = "incr"
    BY <1>0, <1>3 DEF Incr
  <2>2. PICK n \in 1..Limit + 1 :
          /\ c0 \in Keys \X Windows /\ n = CountOf(t)
          /\ counters'[c0].dropped = (IF counters[c0] = None THEN None ELSE counters[c0].dropped)
          /\ \A c \in (Keys \X Windows) \ {c0} : counters'[c] = counters[c]
          /\ \/ n = 1 /\ call' = [call EXCEPT ![t] = "expire"] /\ UNCHANGED checking
             \/ n # 1 /\ checking' = [checking EXCEPT ![t] = None] /\ UNCHANGED call
          /\ UNCHANGED <<read_at, failures>>
    BY <1>3, <2>0, <2>1, IncrFacts DEF IncrOutcome, CountedUp, Decide
  <2>3. ASSUME NEW c \in Keys \X Windows, NEW u \in Workers, WillExpire(u, c)
        PROVE  WillExpire(u, c)'
    <3>1. u # t
      BY <2>1, <2>3 DEF WillExpire
    <3>2. checking'[u] = checking[u] /\ call'[u] = call[u] /\ read_at'[u] = read_at[u]
      BY <1>0, <2>2, <3>1
    <3> QED BY <2>3, <3>2 DEF WillExpire, WindowOf
  <2>4. Leaked' \subseteq Leaked \union {c0}
    <3>1. \A c \in Keys \X Windows : c # c0 /\ counters'[c] # None =>
            counters[c] # None /\ (counters'[c].dropped = None => counters[c].dropped = None)
      BY <2>2
    <3> QED BY <2>3, <3>1, LeakedGrows
  <2>5. c0 \in Leaked' => c0 \in Leaked
    <3>1. CASE counters[c0] = None
      <4>1. n = 1
        BY <2>0, <2>2, <3>1, CountType DEF CountOf
      <4>2. checking'[t] = c0[1] /\ call'[t] = "expire" /\ WindowOf(read_at[t])' = c0[2]
        BY <1>0, <2>0, <2>1, <2>2, <4>1 DEF CounterOf, WindowOf
      <4> QED BY <4>2 DEF Leaked
    <3>2. CASE counters[c0] # None
      <4> SUFFICES ASSUME c0 \in Leaked' PROVE c0 \in Leaked
        OBVIOUS
      <4>1. c0 \in Keys \X Windows /\ counters'[c0].dropped = counters[c0].dropped
        BY <2>2, <3>2
      <4>2. counters'[c0].dropped = None /\ \A u \in Workers : ~ WillExpire(u, c0)'
        BY DEF Leaked, WillExpire
      <4>3. \A u \in Workers : ~ WillExpire(u, c0)
        <5> SUFFICES ASSUME NEW u \in Workers, WillExpire(u, c0) PROVE FALSE
          OBVIOUS
        <5>1. WillExpire(u, c0)'
          BY ONLY <2>3, <4>1, WillExpire(u, c0)
        <5> QED BY ONLY <4>2, <5>1
      <4> QED BY ONLY <3>2, <4>1, <4>2, <4>3, LeakedIs
    <3> QED BY <3>1, <3>2
  <2>6. Leaked' \subseteq Leaked
    BY <2>4, <2>5
  <2> QED BY <1>a, <2>2, <2>6
<1>4. ASSUME NEW t \in Workers, Expire(t) PROVE LeakInv'
  <2> DEFINE c0 == CounterOf(t)
  <2>1. checking[t] \in Keys
    BY <1>0, <1>4 DEF Expire
  <2>2. /\ c0 \in Keys \X Windows
        /\ counters'[c0] = None <=> counters[c0] = None
        /\ counters[c0] # None => counters'[c0].dropped = clock + Lifetime
        /\ \A c \in (Keys \X Windows) \ {c0} : counters'[c] = counters[c]
        /\ checking' = [checking EXCEPT ![t] = None] /\ UNCHANGED <<call, read_at, failures>>
    BY <1>4, <2>1, ExpireFacts DEF ExpireOutcome, ExpirySet, Decide
  <2>3. ASSUME NEW c \in Keys \X Windows, NEW u \in Workers, c # c0, WillExpire(u, c)
        PROVE  WillExpire(u, c)'
    <3>1. u # t
      BY <2>3 DEF WillExpire, CounterOf
    <3>2. checking'[u] = checking[u] /\ call'[u] = call[u] /\ read_at'[u] = read_at[u]
      BY <1>0, <2>2, <3>1
    <3> QED BY <2>3, <3>2 DEF WillExpire, WindowOf
  <2>4. Leaked' \subseteq Leaked \union {c0}
    <3>1. \A c \in Keys \X Windows : c # c0 /\ counters'[c] # None =>
            counters[c] # None /\ (counters'[c].dropped = None => counters[c].dropped = None)
      BY <2>2
    <3> HIDE DEF c0
    <3> QED BY <2>3, <3>1, LeakedGrows
  <2>5. c0 \notin Leaked'
    <3>1. clock + Lifetime \in Nat
      BY WindowPositive, RedisFacts DEF RedisTypeOK
    <3>2. clock + Lifetime # None
      BY <3>1, RedisFacts
    <3> QED BY <2>2, <3>2 DEF Leaked
  <2>6. Leaked' \subseteq Leaked
    BY <2>4, <2>5
  <2> QED BY <1>a, <2>2, <2>6
<1>5. ASSUME NEW t \in Workers, Fail(t) PROVE LeakInv'
  <2> DEFINE c0 == CounterOf(t)
  <2>1. /\ failures' = failures + 1 /\ checking' = [checking EXCEPT ![t] = None]
        /\ UNCHANGED <<counters, call, read_at>>
    BY <1>5 DEF Fail
  <2>2. \A c \in Keys \X Windows : \A u \in Workers :
          c # c0 /\ WillExpire(u, c) => WillExpire(u, c)'
    BY <2>1, OthersExpire
  <2>3. Leaked' \subseteq Leaked \union {c0}
    <3> HIDE DEF c0
    <3> QED BY <2>1, <2>2, LeakedGrows
  <2> QED BY <1>b, <2>1, <2>3
<1>6. ASSUME NEW t \in Workers, LoseReply(t) PROVE LeakInv'
  <2> DEFINE c0 == CounterOf(t)
  <2>1. LostOutcome(t, c0, CountOf(t))
    BY <1>6, LostFacts
  <2>2. /\ failures' = failures + 1 /\ checking' \in {checking, [checking EXCEPT ![t] = None]}
        /\ UNCHANGED <<call, read_at>>
    BY <2>1 DEF LostOutcome
  <2>3. \A c \in Keys \X Windows : \A u \in Workers :
          c # c0 /\ WillExpire(u, c) => WillExpire(u, c)'
    BY <2>2, OthersExpire
  <2>4. \A c \in Keys \X Windows : c # c0 => counters'[c] = counters[c]
    BY <2>1 DEF LostOutcome, CountedUp, ExpirySet
  <2>5. Leaked' \subseteq Leaked \union {c0}
    <3> HIDE DEF c0
    <3> QED BY <2>3, <2>4, LeakedGrows
  <2> QED BY <1>b, <2>2, <2>5
<1>7. CASE UNCHANGED redis
  <2>1. Leaked' = Leaked /\ UNCHANGED failures
    BY <1>7 DEF redis, Leaked, Windows, Window, WindowOf
  <2> QED BY <1>a, <2>1
<1> QED BY <1>1, <1>2, <1>3, <1>4, <1>5, <1>6, <1>7 DEF RedisNext

(* A call to Redis that fails leaves at most one counter behind for good,  *)
(* and nothing else does (rate_limiter.py:67-70).                          *)
THEOREM LeaksAreFailures == RedisSpec => []LeaksCostFailures
<1>1. RedisInit => LeakInv
  <2> SUFFICES ASSUME RedisInit PROVE LeakInv
    OBVIOUS
  <2>1. Leaked = {}
    BY DEF RedisInit, Leaked
  <2>2. failures = 0
    BY DEF RedisInit
  <2> QED BY <2>1, <2>2, FS_EmptySet DEF LeakInv, LeaksCostFailures
<1>2. LeakInv => LeaksCostFailures
  BY DEF LeakInv
<1> QED BY <1>1, <1>2, LeakNext, TypeInit, TypeNext, PTL DEF RedisSpec
=============================================================================

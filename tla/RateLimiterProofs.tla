-------------------------- MODULE RateLimiterProofs --------------------------
(* The in-memory limiter keeps its promises for every limit, window, number*)
(* of threads and lateness.  The invariant relates the deque, which pops   *)
(* from its head only and is not sorted, to the history of admissions.     *)
EXTENDS InMemoryRateLimiter, NumberLemmas

-----------------------------------------------------------------------------
\* The popleft loop stops somewhere: at the first entry after the cutoff.
LEMMA FirstLiveExists ==
  ASSUME NEW s \in Seq(Nat), NEW cutoff \in Int
  PROVE  /\ FirstLive(s, cutoff) \in 1..Len(s) + 1
         /\ \A j \in 1..FirstLive(s, cutoff) - 1 : s[j] <= cutoff
         /\ FirstLive(s, cutoff) <= Len(s) => s[FirstLive(s, cutoff)] > cutoff
<1> DEFINE live == {i \in 1..Len(s) + 1 : i <= Len(s) => s[i] > cutoff}
<1>1. live \in SUBSET Nat /\ Len(s) + 1 \in live
  OBVIOUS
<1> HIDE DEF live
<1>2. PICK m \in live : \A n \in live : m <= n
  BY <1>1, LeastNatural
<1>3. m \in 1..Len(s) + 1 /\ (m <= Len(s) => s[m] > cutoff)
  BY <1>2 DEF live
<1>4. ASSUME NEW j \in 1..m - 1 PROVE s[j] <= cutoff
  <2>1. j \notin live /\ j \in 1..Len(s)
    BY <1>2, <1>3, <1>4
  <2>2. s[j] \in Nat
    BY <2>1
  <2> QED BY <2>1, <2>2 DEF live
<1> QED BY <1>3, <1>4 DEF FirstLive

\* What is left of the deque: a suffix whose head is after the cutoff.
LEMMA ExpireSuffix ==
  ASSUME NEW s \in Seq(Nat), NEW cutoff \in Int
  PROVE  /\ PopExpired(s, cutoff) \in Seq(Nat)
         /\ Len(PopExpired(s, cutoff)) <= Len(s)
         /\ \A i \in 1..Len(PopExpired(s, cutoff)) :
              PopExpired(s, cutoff)[i] = s[Len(s) - Len(PopExpired(s, cutoff)) + i]
         /\ \A j \in 1..Len(s) - Len(PopExpired(s, cutoff)) : s[j] <= cutoff
         /\ Len(PopExpired(s, cutoff)) > 0 => PopExpired(s, cutoff)[1] > cutoff
<1> DEFINE f == FirstLive(s, cutoff)
<1>1. /\ f \in 1..Len(s) + 1
      /\ \A j \in 1..f - 1 : s[j] <= cutoff
      /\ f <= Len(s) => s[f] > cutoff
  BY FirstLiveExists
<1> HIDE DEF f
<1>2. PopExpired(s, cutoff) = SubSeq(s, f, Len(s))
  BY DEF PopExpired, f
<1>3. /\ SubSeq(s, f, Len(s)) \in Seq(Nat)
      /\ Len(SubSeq(s, f, Len(s))) = Len(s) - f + 1
      /\ \A i \in 1..Len(s) - f + 1 : SubSeq(s, f, Len(s))[i] = s[f + i - 1]
  BY <1>1
<1> QED BY <1>1, <1>2, <1>3

\* What the assumptions say of the constants.
LEMMA LimiterFacts ==
  /\ Limit \in Nat \ {0} /\ Window \in Nat \ {0}
  /\ TicksPerSecond \in Nat \ {0} /\ MaxStale \in Nat
  /\ Instants \subseteq Nat /\ 0 \in Instants
  /\ None \notin Keys /\ None \notin Decision
BY LimiterAssumption, DecisionAssumption DEF Window

\* A retry_after is a number of seconds, at most a millisecond too short.
LEMMA RoundingUp ==
  ASSUME NEW wait \in Int
  PROVE  /\ RetryAfter(wait) \in Nat \ {0}
         /\ LongEnough(wait, RetryAfter(wait), TicksPerSecond)
<1>0. TicksPerSecond \in Nat \ {0}
  BY LimiterFacts
<1>1. PICK q : q = (1000 * wait + 999 * TicksPerSecond) \div (1000 * TicksPerSecond)
  OBVIOUS
<1>2. q \in Int /\ 1000 * wait < TicksPerSecond * (1000 * q + 1)
  BY <1>0, <1>1, NearlyRoundedUp
<1>3. RetryAfter(wait) = IF q > 1 THEN q ELSE 1
  BY <1>1 DEF RetryAfter
<1>4. LongEnough(wait, IF q > 1 THEN q ELSE 1, TicksPerSecond)
  BY <1>0, <1>2, AtLeastASecond
<1> QED BY <1>2, <1>3, <1>4

-----------------------------------------------------------------------------
(* The deque of a key is a suffix of its admissions, everything before the *)
(* suffix is old, and times are recorded at most MaxStale late.            *)
Gone(k) == Len(log[k]) - Len(events[k])

Suffix(k) ==
  /\ Len(events[k]) <= Len(log[k])
  /\ \A i \in 1..Len(events[k]) : events[k][i] = log[k][Gone(k) + i].time

GoneIsOld(k) == \A i \in 1..Gone(k) : log[k][i].at <= now - (Window - MaxStale)

Timely(k) ==
  \A i \in 1..Len(log[k]) :
    /\ log[k][i].time <= log[k][i].at /\ log[k][i].at <= log[k][i].time + MaxStale
    /\ log[k][i].at <= now
    /\ \A j \in 1..i : log[k][j].at <= log[k][i].at

Bounded(k) ==
  \A i \in 1..Len(log[k]) - Limit :
    log[k][i + Limit].at - log[k][i].at >= Window - MaxStale

\* Nothing was admitted since t was turned away: either the deque has shrunk
\* or its head leaves the window within the seconds t was told.
Promise(t) ==
  verdict[t] # None =>
    LET k == verdict[t].key
    IN /\ verdict[t].seen <= Len(log[k])
       /\ ~ verdict[t].allowed /\ Len(log[k]) = verdict[t].seen
            /\ Len(events[k]) = Limit
          => LongEnough(events[k][1] + Window - verdict[t].time,
                        verdict[t].retry_after, TicksPerSecond)

WindowInv ==
  /\ MemoryTypeOK
  /\ \A k \in Keys : Suffix(k) /\ GoneIsOld(k) /\ Timely(k) /\ Bounded(k)

LEMMA WindowInit == MemoryInit => WindowInv
BY LimiterFacts
   DEF MemoryInit, WindowInv, MemoryTypeOK, Suffix, Gone, GoneIsOld, Timely, Bounded

\* The invariant of one key, its sequences and their lengths unfolded.
LEMMA KeyFacts ==
  ASSUME WindowInv, NEW k \in Keys
  PROVE  /\ events[k] \in Seq(Nat) /\ log[k] \in Seq(Admission)
         /\ Len(events[k]) \in Nat /\ Len(log[k]) \in Nat
         /\ Len(events[k]) <= Limit /\ Len(events[k]) <= Len(log[k])
         /\ Gone(k) \in Nat /\ Gone(k) = Len(log[k]) - Len(events[k])
         /\ \A i \in 1..Len(events[k]) : events[k][i] \in Nat
         /\ \A i \in 1..Len(log[k]) :
              log[k][i].time \in Nat /\ log[k][i].at \in Nat
         /\ Suffix(k) /\ GoneIsOld(k) /\ Timely(k) /\ Bounded(k)
<1>1. /\ events[k] \in Seq(Nat) /\ log[k] \in Seq(Admission)
      /\ Suffix(k) /\ GoneIsOld(k) /\ Timely(k) /\ Bounded(k)
      /\ Len(events[k]) <= Limit
  BY DEF WindowInv, MemoryTypeOK
<1>2. /\ Len(events[k]) \in Nat /\ Len(log[k]) \in Nat
      /\ \A i \in 1..Len(events[k]) : events[k][i] \in Nat
  BY <1>1
<1>3. \A i \in 1..Len(log[k]) : log[k][i] \in Admission
  BY <1>1
<1>4. Len(events[k]) <= Len(log[k])
  BY <1>1 DEF Suffix
<1>5. \A i \in 1..Len(log[k]) : log[k][i].time \in Nat /\ log[k][i].at \in Nat
  BY <1>3 DEF Admission
<1> QED BY <1>1, <1>2, <1>4, <1>5 DEF Gone

LEMMA PassKeeps == ASSUME WindowInv, NEW to \in Instants, Pass(to) PROVE WindowInv'
<1>1. now' = to /\ to \in Nat /\ to > now
      /\ UNCHANGED <<asked, current, verdict, events, log>>
  BY LimiterFacts DEF Pass
<1>2. MemoryTypeOK'
  BY <1>1 DEF WindowInv, MemoryTypeOK, Pass
<1>3. ASSUME NEW k \in Keys
      PROVE  Suffix(k)' /\ GoneIsOld(k)' /\ Timely(k)' /\ Bounded(k)'
  <2>1. /\ now \in Nat /\ Window - MaxStale \in Int
        /\ \A i \in 1..Len(log[k]) : log[k][i].at \in Nat
        /\ Gone(k) \in Nat /\ Len(log[k]) \in Nat /\ Gone(k) <= Len(log[k])
        /\ GoneIsOld(k) /\ Timely(k) /\ Suffix(k) /\ Bounded(k)
    BY KeyFacts, LimiterFacts DEF WindowInv, MemoryTypeOK
  <2>2. ASSUME NEW i \in 1..Gone(k)
        PROVE  log[k][i].at <= to - (Window - MaxStale)
    <3>1. log[k][i].at <= now - (Window - MaxStale) /\ log[k][i].at \in Nat
      BY <2>1 DEF GoneIsOld
    <3> QED BY <1>1, <2>1, <3>1, SMTT(30)
  <2>3. GoneIsOld(k)'
    <3>1. Gone(k)' = Gone(k) /\ log' = log /\ now' = to
      BY <1>1 DEF Gone
    <3>2. ASSUME NEW i \in 1..Gone(k)'
          PROVE  log'[k][i].at <= now' - (Window - MaxStale)
      BY <1>1, <2>1, <2>2, <3>1
    <3> QED BY <3>2 DEF GoneIsOld
  <2>4. ASSUME NEW i \in 1..Len(log[k]) PROVE log[k][i].at <= to
    <3>1. log[k][i].at <= now /\ log[k][i].at \in Nat
      BY <2>1 DEF Timely
    <3> QED BY <1>1, <2>1, <3>1
  <2>5. Timely(k)'
    BY <1>1, <2>1, <2>4 DEF Timely
  <2> QED BY <1>1, <2>1, <2>3, <2>5 DEF Suffix, Gone, Bounded
<1> QED BY <1>2, <1>3 DEF WindowInv

LEMMA ReadClockKeeps ==
  ASSUME WindowInv, NEW t \in Threads, NEW k \in Keys, ReadClock(t, k)
  PROVE  WindowInv'
<1>1. MemoryTypeOK'
  BY LimiterFacts DEF WindowInv, MemoryTypeOK, ReadClock
<1>2. \A q \in Keys : Suffix(q)' /\ GoneIsOld(q)' /\ Timely(q)' /\ Bounded(q)'
  BY DEF WindowInv, ReadClock, Suffix, Gone, GoneIsOld, Timely, Bounded
<1> QED BY <1>1, <1>2 DEF WindowInv

\* What a check sees: the live suffix, of which at most Limit entries are
\* left, and whose predecessors were admitted a window ago.
LEMMA CheckSees ==
  ASSUME WindowInv, NEW t \in Threads, asked[t] # None, NEW live,
         live = PopExpired(events[asked[t]], current[t] - Window)
  PROVE  /\ asked[t] \in Keys
         /\ live \in Seq(Nat) /\ Len(live) <= Len(events[asked[t]])
         /\ Len(live) <= Limit /\ Len(live) <= Len(log[asked[t]])
         /\ \A i \in 1..Len(live) :
              live[i] = log[asked[t]][Len(log[asked[t]]) - Len(live) + i].time
         /\ \A i \in 1..Len(log[asked[t]]) - Len(live) :
              log[asked[t]][i].at <= now - (Window - MaxStale)
         /\ Len(live) > 0 => live[1] > current[t] - Window
<1>1. PICK k \in Keys : asked[t] = k
  BY DEF WindowInv, MemoryTypeOK
<1>2. /\ events[k] \in Seq(Nat) /\ current[t] \in Nat /\ now \in Nat
      /\ log[k] \in Seq(Admission)
      /\ Len(events[k]) <= Limit /\ Suffix(k) /\ GoneIsOld(k) /\ Timely(k)
      /\ current[t] <= now
      /\ Limit \in Nat /\ Window \in Nat /\ MaxStale \in Nat
  BY <1>1, LimiterFacts DEF WindowInv, MemoryTypeOK
<1>3. /\ live \in Seq(Nat) /\ Len(live) <= Len(events[k])
      /\ \A i \in 1..Len(live) : live[i] = events[k][Len(events[k]) - Len(live) + i]
      /\ \A j \in 1..Len(events[k]) - Len(live) : events[k][j] <= current[t] - Window
      /\ Len(live) > 0 => live[1] > current[t] - Window
  <2>1. current[t] - Window \in Int
    BY <1>2
  <2> QED BY <1>1, <1>2, <2>1, ExpireSuffix
<1> DEFINE l == Len(live)
           e == Len(events[k])
           g == Len(log[k])
<1>4. /\ l \in Nat /\ e \in Nat /\ g \in Nat /\ l <= e /\ e <= g
      /\ Gone(k) = g - e
  <2>1. Len(live) \in Nat
    BY <1>3
  <2>2. /\ Len(events[k]) \in Nat /\ Len(log[k]) \in Nat
        /\ Len(events[k]) <= Len(log[k]) /\ Gone(k) = Len(log[k]) - Len(events[k])
    BY KeyFacts
  <2> QED BY <1>3, <2>1, <2>2
<1>5. /\ \A i \in 1..l : live[i] = events[k][e - l + i]
      /\ \A j \in 1..e - l : events[k][j] <= current[t] - Window
  BY <1>3
<1>6. /\ \A i \in 1..e : events[k][i] = log[k][g - e + i].time
      /\ \A i \in 1..g - e : log[k][i].at <= now - (Window - MaxStale)
  BY <1>2, <1>4 DEF Suffix, GoneIsOld
<1>7. \A i \in 1..g : /\ log[k][i].time \in Nat /\ log[k][i].at \in Nat
                     /\ log[k][i].at <= log[k][i].time + MaxStale
  BY <1>2, KeyFacts DEF Timely
<1> HIDE DEF l, e, g
<1>8. ASSUME NEW i \in 1..l PROVE live[i] = log[k][g - l + i].time
  <2>1. e - l + i \in 1..e /\ g - e + (e - l + i) = g - l + i
    BY <1>4
  <2>2. live[i] = events[k][e - l + i]
    BY <1>5
  <2>3. events[k][e - l + i] = log[k][g - e + (e - l + i)].time
    BY <1>6, <2>1
  <2> QED BY <2>1, <2>2, <2>3
<1>9. ASSUME NEW i \in 1..g - l PROVE log[k][i].at <= now - (Window - MaxStale)
  <2>1. CASE i \in 1..g - e
    BY <1>6, <2>1
  <2>2. CASE i \notin 1..g - e
    <3>1. i - (g - e) \in 1..e - l /\ i - (g - e) \in 1..e /\ i \in 1..g
          /\ g - e + (i - (g - e)) = i
      BY <1>4, <2>2
    <3>2. log[k][i].time <= current[t] - Window
      BY <1>5, <1>6, <3>1
    <3>3. /\ log[k][i].at <= log[k][i].time + MaxStale
          /\ log[k][i].time \in Nat /\ log[k][i].at \in Nat
      BY <1>7, <3>1
    <3>4. /\ current[t] \in Nat /\ now \in Nat /\ current[t] <= now
          /\ Window \in Nat /\ MaxStale \in Nat
      BY <1>2
    <3> QED BY <3>2, <3>3, <3>4
  <2> QED BY <2>1, <2>2
<1>10. l <= Limit
  BY <1>2, <1>4 DEF e
<1>11. /\ live \in Seq(Nat) /\ Len(live) <= Len(events[asked[t]])
       /\ Len(live) > 0 => live[1] > current[t] - Window
  BY <1>1, <1>3
<1>12. Len(live) <= Len(log[asked[t]])
  <2>1. l <= g
    BY <1>4
  <2> QED BY <1>1, <2>1 DEF l, g
<1>13. Len(live) <= Limit
  BY <1>10 DEF l
<1>14. \A i \in 1..Len(live) :
         live[i] = log[asked[t]][Len(log[asked[t]]) - Len(live) + i].time
  BY <1>1, <1>8 DEF l, g
<1>15. \A i \in 1..Len(log[asked[t]]) - Len(live) :
         log[asked[t]][i].at <= now - (Window - MaxStale)
  BY <1>1, <1>9 DEF l, g
<1> QED BY <1>1, <1>11, <1>12, <1>13, <1>14, <1>15

\* The two outcomes of a check, with what is left of the deque named.
CheckOutcome(t, k, live) ==
  /\ asked' = [asked EXCEPT ![t] = None]
  /\ UNCHANGED <<now, current>>
  /\ \A q \in Keys \ {k} : events'[q] = events[q] /\ log'[q] = log[q]
  /\ DOMAIN events' = Keys /\ DOMAIN log' = Keys
  /\ Len(live) >= Limit =>
       /\ events'[k] = live /\ log'[k] = log[k]
       /\ verdict' = [verdict EXCEPT ![t] =
            [allowed |-> FALSE, key |-> k, time |-> current[t],
             retry_after |-> RetryAfter(live[1] + Window - current[t]),
             seen |-> Len(log[k])]]
  /\ ~ (Len(live) >= Limit) =>
       /\ events'[k] = Append(live, current[t])
       /\ log'[k] = Append(log[k], [time |-> current[t], at |-> now])
       /\ verdict' = [verdict EXCEPT ![t] =
            [allowed |-> TRUE, key |-> k, time |-> current[t],
             retry_after |-> 0, seen |-> Len(log[k])]]

LEMMA CheckCases ==
  ASSUME WindowInv, NEW t \in Threads, NEW k \in Keys, asked[t] = k, Check(t),
         NEW live, live = PopExpired(events[k], current[t] - Window)
  PROVE  CheckOutcome(t, k, live)
<1>1. DOMAIN events = Keys /\ DOMAIN log = Keys
  BY DEF WindowInv, MemoryTypeOK
<1> QED BY <1>1 DEF Check, Full, CheckOutcome

LEMMA DenyKeepsKey ==
  ASSUME WindowInv, NEW t \in Threads, NEW k \in Keys, asked[t] = k,
         UNCHANGED now, log'[k] = log[k],
         events'[k] = PopExpired(events[k], current[t] - Window)
  PROVE  /\ events'[k] \in Seq(Nat) /\ Len(events'[k]) <= Limit
         /\ Suffix(k)' /\ GoneIsOld(k)' /\ Timely(k)' /\ Bounded(k)'
<1> DEFINE live == PopExpired(events[k], current[t] - Window)
<1>1. asked[t] # None
  BY LimiterFacts
<1>2. /\ live \in Seq(Nat) /\ Len(live) <= Limit /\ Len(live) <= Len(log[k])
      /\ \A i \in 1..Len(live) : live[i] = log[k][Len(log[k]) - Len(live) + i].time
      /\ \A i \in 1..Len(log[k]) - Len(live) :
           log[k][i].at <= now - (Window - MaxStale)
  BY <1>1, CheckSees
<1>3. events'[k] = live /\ log'[k] = log[k] /\ now' = now
  OBVIOUS
<1> HIDE DEF live
<1>4. Suffix(k)' /\ GoneIsOld(k)'
  BY <1>2, <1>3 DEF Suffix, GoneIsOld, Gone
<1>5. Timely(k)' /\ Bounded(k)'
  BY <1>3, KeyFacts DEF Timely, Bounded
<1> QED BY <1>2, <1>3, <1>4, <1>5

\* n admissions lg, of which the last l are live, and the admission of
\* "time" at this moment that makes them lg2 and ev2.
Grown(lg, live, lg2, ev2, n, l, time) ==
  /\ l <= n /\ l < Limit
  /\ time <= now /\ now <= time + MaxStale
  /\ Len(ev2) = l + 1 /\ Len(lg2) = n + 1
  /\ \A i \in 1..l : ev2[i] = live[i]
  /\ ev2[l + 1] = time
  /\ \A i \in 1..n : lg2[i] = lg[i]
  /\ lg2[n + 1].time = time /\ lg2[n + 1].at = now
  /\ \A i \in 1..n : lg[i].time \in Nat /\ lg[i].at \in Nat
  /\ \A i \in 1..l : live[i] = lg[n - l + i].time
  /\ \A i \in 1..n - l : lg[i].at <= now - (Window - MaxStale)
  /\ \A i \in 1..n : /\ lg[i].time <= lg[i].at
                     /\ lg[i].at <= lg[i].time + MaxStale
                     /\ lg[i].at <= now
  /\ \A i \in 1..n : \A j \in 1..i : lg[j].at <= lg[i].at
  /\ \A i \in 1..n - Limit : lg[i + Limit].at - lg[i].at >= Window - MaxStale

\* A key whose admissions and deque have grown by one keeps its invariant.
LEMMA GrownKeepsKey ==
  ASSUME NEW k, NEW n \in Nat, NEW l \in Nat, NEW time \in Nat,
         NEW lg, NEW live, NEW lg2, NEW ev2,
         Grown(lg, live, lg2, ev2, n, l, time),
         lg2 = log'[k], ev2 = events'[k], now' = now, now \in Nat
  PROVE  Suffix(k)' /\ GoneIsOld(k)' /\ Timely(k)' /\ Bounded(k)'
<1>0. Limit \in Nat \ {0} /\ Window \in Nat /\ MaxStale \in Nat
  BY LimiterFacts
<1>1. Len(lg2) - Len(ev2) = n - l /\ Len(ev2) <= Len(lg2)
  BY DEF Grown
<1>2. ASSUME NEW i \in 1..l + 1 PROVE ev2[i] = lg2[n - l + i].time
  <2>1. CASE i \in 1..l
    <3>1. n - l + i \in 1..n
      BY <2>1 DEF Grown
    <3>2. lg2[n - l + i] = lg[n - l + i]
      BY <3>1 DEF Grown
    <3> QED BY <2>1, <3>2 DEF Grown
  <2>2. CASE i = l + 1
    <3>1. n - l + i = n + 1
      BY <2>2
    <3> QED BY <2>2, <3>1 DEF Grown
  <2> QED BY <2>1, <2>2
<1>3. ASSUME NEW i \in 1..n - l PROVE lg2[i].at <= now - (Window - MaxStale)
  <2>1. i \in 1..n
    OBVIOUS
  <2> QED BY <2>1 DEF Grown
<1>4. ASSUME NEW i \in 1..n + 1, NEW j \in 1..i PROVE lg2[j].at <= lg2[i].at
  <2>1. CASE i \in 1..n
    <3>1. j \in 1..n /\ lg2[j] = lg[j] /\ lg2[i] = lg[i]
      BY <2>1 DEF Grown
    <3> QED BY <2>1, <3>1 DEF Grown
  <2>2. CASE i = n + 1
    <3>1. CASE j \in 1..n
      BY <2>2, <3>1 DEF Grown
    <3>2. CASE j = n + 1
      BY <2>2, <3>2 DEF Grown
    <3> QED BY <2>2, <3>1, <3>2
  <2> QED BY <2>1, <2>2
<1>5. ASSUME NEW i \in 1..n + 1
      PROVE  /\ lg2[i].time <= lg2[i].at /\ lg2[i].at <= lg2[i].time + MaxStale
             /\ lg2[i].at <= now
  <2>1. CASE i \in 1..n
    BY <2>1 DEF Grown
  <2>2. CASE i = n + 1
    BY <2>2 DEF Grown
  <2> QED BY <2>1, <2>2
<1>6. ASSUME NEW i \in 1..n + 1 - Limit
      PROVE  lg2[i + Limit].at - lg2[i].at >= Window - MaxStale
  <2>1. i \in 1..n /\ lg2[i] = lg[i] /\ lg[i].at \in Nat
    BY <1>0, SMTT(30) DEF Grown
  <2>2. CASE i \in 1..n - Limit
    <3>1. i + Limit \in 1..n
      BY <1>0, <2>2
    <3>2. lg2[i + Limit] = lg[i + Limit]
      BY <3>1 DEF Grown
    <3>3. lg[i + Limit].at - lg[i].at >= Window - MaxStale
      BY <2>2 DEF Grown
    <3> QED BY <2>1, <3>2, <3>3
  <2>3. CASE i = n + 1 - Limit
    <3>1. i \in 1..n - l /\ i + Limit = n + 1
      BY <1>0, <2>3 DEF Grown
    <3>2. lg[i].at <= now - (Window - MaxStale)
      BY <3>1 DEF Grown
    <3>3. lg2[i + Limit].at = now
      BY <3>1 DEF Grown
    <3> QED BY <1>0, <2>1, <3>2, <3>3
  <2> QED BY <1>0, <2>2, <2>3
<1>7. Len(lg2) = n + 1 /\ Len(ev2) = l + 1
  BY DEF Grown
<1>8. Suffix(k)'
  BY <1>1, <1>2, <1>7 DEF Suffix, Gone
<1>9. GoneIsOld(k)'
  BY <1>1, <1>3 DEF GoneIsOld, Gone
<1>10. Timely(k)'
  BY <1>4, <1>5, <1>7 DEF Timely
<1>11. Bounded(k)'
  <2>1. Len(log'[k]) - Limit = n + 1 - Limit
    BY <1>0, <1>7, SMT
  <2>2. \A i \in 1..n + 1 - Limit :
          log'[k][i + Limit].at - log'[k][i].at >= Window - MaxStale
    BY <1>6
  <2> QED BY <2>1, <2>2 DEF Bounded
<1> QED BY <1>8, <1>9, <1>10, <1>11

LEMMA AdmitKeepsKey ==
  ASSUME WindowInv, NEW t \in Threads, NEW k \in Keys, asked[t] = k,
         now' = now,
         ~ (Len(PopExpired(events[k], current[t] - Window)) >= Limit),
         events'[k] = Append(PopExpired(events[k], current[t] - Window), current[t]),
         log'[k] = Append(log[k], [time |-> current[t], at |-> now])
  PROVE  /\ events'[k] \in Seq(Nat) /\ Len(events'[k]) <= Limit
         /\ log'[k] \in Seq(Admission)
         /\ Suffix(k)' /\ GoneIsOld(k)' /\ Timely(k)' /\ Bounded(k)'
<1>0. PICK live, lg, lg2, ev2, new :
        /\ live = PopExpired(events[k], current[t] - Window)
        /\ lg = log[k] /\ lg2 = log'[k] /\ ev2 = events'[k]
        /\ new = [time |-> current[t], at |-> now]
  OBVIOUS
<1>1. asked[t] # None
  BY LimiterFacts
<1>2. /\ current[t] \in Nat /\ now \in Nat /\ current[t] <= now
      /\ now <= current[t] + MaxStale
      /\ Limit \in Nat \ {0} /\ Window \in Nat /\ MaxStale \in Nat
  BY <1>1, LimiterFacts DEF WindowInv, MemoryTypeOK
<1>3. lg \in Seq(Admission)
  BY <1>0, KeyFacts
<1>4. live \in Seq(Nat)
  BY <1>0, <1>1, CheckSees
<1>5. PICK n \in Nat : n = Len(lg)
  BY <1>3
<1>6. PICK l \in Nat : l = Len(live)
  BY <1>4
<1>7. /\ l <= n
      /\ \A i \in 1..l : live[i] = lg[n - l + i].time
      /\ \A i \in 1..n - l : lg[i].at <= now - (Window - MaxStale)
  BY <1>0, <1>1, <1>5, <1>6, CheckSees, ZenonT(30)
<1>8. l < Limit
  BY <1>0, <1>2, <1>6
<1>9. \A i \in 1..n : lg[i].time \in Nat /\ lg[i].at \in Nat
  BY <1>0, <1>5, KeyFacts
<1>10. new \in Admission /\ new.time = current[t] /\ new.at = now
  BY <1>0, <1>2 DEF Admission
<1>11. /\ ev2 \in Seq(Nat) /\ Len(ev2) = l + 1
       /\ \A i \in 1..l : ev2[i] = live[i]
       /\ ev2[l + 1] = current[t]
  BY <1>0, <1>2, <1>4, <1>6
<1>12. /\ lg2 \in Seq(Admission) /\ Len(lg2) = n + 1
       /\ \A i \in 1..n : lg2[i] = lg[i]
       /\ lg2[n + 1] = new
  <2>1. lg2 = Append(lg, new)
    BY <1>0
  <2> QED BY <1>3, <1>5, <1>10, <2>1
<1>13. /\ \A i \in 1..n : /\ lg[i].time <= lg[i].at
                          /\ lg[i].at <= lg[i].time + MaxStale
                          /\ lg[i].at <= now
       /\ \A i \in 1..n : \A j \in 1..i : lg[j].at <= lg[i].at
       /\ \A i \in 1..n - Limit : lg[i + Limit].at - lg[i].at >= Window - MaxStale
  BY <1>0, <1>5, KeyFacts DEF Timely, Bounded
<1>14. lg2[n + 1].time = current[t] /\ lg2[n + 1].at = now
  BY <1>10, <1>12
<1>15. Suffix(k)' /\ GoneIsOld(k)' /\ Timely(k)' /\ Bounded(k)'
  <2>1. Grown(lg, live, lg2, ev2, n, l, current[t])
    BY <1>2, <1>7, <1>8, <1>9, <1>11, <1>12, <1>13, <1>14 DEF Grown
  <2> QED BY <1>0, <1>2, <2>1, GrownKeepsKey
<1>16. Len(ev2) <= Limit
  BY <1>2, <1>8, <1>11
<1> QED BY <1>0, <1>11, <1>12, <1>15, <1>16

LEMMA CheckKeeps ==
  ASSUME WindowInv, NEW t \in Threads, Check(t)
  PROVE  WindowInv'
<1>1. PICK k \in Keys : asked[t] = k
  BY DEF WindowInv, MemoryTypeOK, Check
<1>2. asked[t] # None
  BY <1>1, LimiterFacts
<1>3. PICK live : live = PopExpired(events[k], current[t] - Window)
  OBVIOUS
<1>3a. CheckOutcome(t, k, live)
  BY <1>1, <1>3, CheckCases
<1>4. /\ asked' = [asked EXCEPT ![t] = None] /\ UNCHANGED <<now, current>>
      /\ \A q \in Keys \ {k} : events'[q] = events[q] /\ log'[q] = log[q]
      /\ DOMAIN events' = Keys /\ DOMAIN log' = Keys
  BY <1>3a DEF CheckOutcome
<1>5. /\ events'[k] \in Seq(Nat) /\ Len(events'[k]) <= Limit
      /\ log'[k] \in Seq(Admission)
      /\ Suffix(k)' /\ GoneIsOld(k)' /\ Timely(k)' /\ Bounded(k)'
  <2>1. CASE events'[k] = live /\ log'[k] = log[k]
    <3>1. log[k] \in Seq(Admission)
      BY KeyFacts
    <3> QED BY <1>1, <1>3, <1>4, <2>1, <3>1, DenyKeepsKey
  <2>2. CASE /\ ~ (Len(live) >= Limit)
             /\ events'[k] = Append(live, current[t])
             /\ log'[k] = Append(log[k], [time |-> current[t], at |-> now])
    <3>1. now' = now
      BY <1>4
    <3> QED BY <1>1, <1>3, <2>2, <3>1, AdmitKeepsKey, Zenon
  <2>3. \/ events'[k] = live /\ log'[k] = log[k]
        \/ /\ ~ (Len(live) >= Limit)
           /\ events'[k] = Append(live, current[t])
           /\ log'[k] = Append(log[k], [time |-> current[t], at |-> now])
    BY <1>3a DEF CheckOutcome
  <2> QED BY <2>1, <2>2, <2>3
<1>6. ASSUME NEW q \in Keys \ {k}
      PROVE  /\ events'[q] \in Seq(Nat) /\ Len(events'[q]) <= Limit
             /\ log'[q] \in Seq(Admission)
             /\ Suffix(q)' /\ GoneIsOld(q)' /\ Timely(q)' /\ Bounded(q)'
  <2>1. events'[q] = events[q] /\ log'[q] = log[q] /\ now' = now
    BY <1>4
  <2>2. /\ events[q] \in Seq(Nat) /\ log[q] \in Seq(Admission)
        /\ Len(events[q]) <= Limit
        /\ Suffix(q) /\ GoneIsOld(q) /\ Timely(q) /\ Bounded(q)
    BY KeyFacts
  <2> QED BY <2>1, <2>2 DEF Suffix, GoneIsOld, Gone, Timely, Bounded
<1>7. verdict' \in [Threads -> Decision \union {None}]
  <2>1. /\ Len(log[k]) \in Nat /\ current[t] \in Nat
        /\ verdict \in [Threads -> Decision \union {None}]
    BY KeyFacts DEF WindowInv, MemoryTypeOK
  <2>2. CASE Len(live) >= Limit
    <3>1. live[1] \in Nat
      <4>1. live \in Seq(Nat)
        BY <1>1, <1>2, <1>3, CheckSees
      <4> QED BY <2>2, <4>1, LimiterFacts
    <3>2. RetryAfter(live[1] + Window - current[t]) \in Nat
      <4>1. live[1] + Window - current[t] \in Int
        BY <2>1, <3>1, LimiterFacts
      <4> QED BY <4>1, RoundingUp
    <3>3. [allowed |-> FALSE, key |-> k, time |-> current[t],
           retry_after |-> RetryAfter(live[1] + Window - current[t]),
           seen |-> Len(log[k])] \in Decision
      BY <2>1, <3>2 DEF Decision
    <3>4. verdict' = [verdict EXCEPT ![t] =
            [allowed |-> FALSE, key |-> k, time |-> current[t],
             retry_after |-> RetryAfter(live[1] + Window - current[t]),
             seen |-> Len(log[k])]]
      BY <1>3a, <2>2 DEF CheckOutcome
    <3> QED BY <2>1, <3>3, <3>4
  <2>3. CASE ~ (Len(live) >= Limit)
    <3>1. [allowed |-> TRUE, key |-> k, time |-> current[t],
           retry_after |-> 0, seen |-> Len(log[k])] \in Decision
      BY <2>1 DEF Decision
    <3>2. verdict' = [verdict EXCEPT ![t] =
            [allowed |-> TRUE, key |-> k, time |-> current[t],
             retry_after |-> 0, seen |-> Len(log[k])]]
      BY <1>3a, <2>3 DEF CheckOutcome
    <3> QED BY <2>1, <3>1, <3>2
  <2> QED BY <2>2, <2>3
<1>8. /\ now' \in Nat /\ current' \in [Threads -> Nat]
      /\ asked' \in [Threads -> Keys \union {None}]
      /\ \A u \in Threads : /\ current'[u] <= now'
                            /\ asked'[u] # None => now' - current'[u] <= MaxStale
  BY <1>4 DEF WindowInv, MemoryTypeOK
<1>9. events' \in [Keys -> Seq(Nat)] /\ log' \in [Keys -> Seq(Admission)]
  <2>1. /\ \A q \in Keys : events'[q] \in Seq(Nat) /\ log'[q] \in Seq(Admission)
        /\ events' = [q \in Keys |-> events'[q]] /\ log' = [q \in Keys |-> log'[q]]
    <3>1. events' = [q \in Keys |-> events'[q]] /\ log' = [q \in Keys |-> log'[q]]
      BY DEF WindowInv, MemoryTypeOK, Check
    <3> QED BY <1>5, <1>6, <3>1
  <2> QED BY <2>1
<1>10. MemoryTypeOK'
  BY <1>5, <1>6, <1>7, <1>8, <1>9 DEF MemoryTypeOK
<1> QED BY <1>5, <1>6, <1>10 DEF WindowInv

-----------------------------------------------------------------------------
(* The invariant of the limiter.                                           *)
THEOREM WindowSafe == MemorySpec => []WindowInv
<1>1. WindowInv /\ [MemoryNext]_memory => WindowInv'
  <2> SUFFICES ASSUME WindowInv, [MemoryNext]_memory PROVE WindowInv'
    OBVIOUS
  <2>1. ASSUME NEW i \in Instants, Pass(i) PROVE WindowInv'
    BY <2>1, PassKeeps
  <2>2. ASSUME NEW t \in Threads, Check(t) PROVE WindowInv'
    BY <2>2, CheckKeeps
  <2>3. ASSUME NEW t \in Threads, NEW k \in Keys, ReadClock(t, k) PROVE WindowInv'
    BY <2>3, ReadClockKeeps
  <2>4. CASE UNCHANGED memory
    BY <2>4 DEF memory, WindowInv, MemoryTypeOK, Suffix, Gone, GoneIsOld, Timely, Bounded
  <2> QED BY <2>1, <2>2, <2>3, <2>4 DEF MemoryNext
<1> QED BY <1>1, WindowInit, PTL DEF MemorySpec

(* Types, and no deque holds more than Limit entries.                      *)
THEOREM LimiterTypeCorrect == MemorySpec => []MemoryTypeOK
<1>1. WindowInv => MemoryTypeOK
  BY DEF WindowInv
<1> QED BY <1>1, WindowSafe, PTL

(* No more than Limit requests of a key in Window - MaxStale: the promise  *)
(* of InMemoryRateLimiter.check, for every number of handler threads.      *)
THEOREM WindowBoundHolds == MemorySpec => []WindowBound
<1>1. WindowInv => WindowBound
  BY DEF WindowInv, WindowBound, Bounded
<1> QED BY <1>1, WindowSafe, PTL

-----------------------------------------------------------------------------
\* If what is left of a deque is full, nothing has left it.
LEMMA FullUnmoved ==
  ASSUME WindowInv, NEW k \in Keys, NEW cutoff \in Int,
         Len(PopExpired(events[k], cutoff)) >= Limit
  PROVE  /\ Len(events[k]) = Limit /\ Len(PopExpired(events[k], cutoff)) = Limit
         /\ PopExpired(events[k], cutoff)[1] = events[k][1]
         /\ events[k][1] > cutoff
<1> DEFINE live == PopExpired(events[k], cutoff)
<1>1. /\ events[k] \in Seq(Nat) /\ Len(events[k]) <= Limit /\ Len(events[k]) \in Nat
      /\ Limit \in Nat \ {0}
  BY KeyFacts, LimiterFacts
<1>2. /\ live \in Seq(Nat) /\ Len(live) <= Len(events[k])
      /\ \A i \in 1..Len(live) : live[i] = events[k][Len(events[k]) - Len(live) + i]
      /\ Len(live) > 0 => live[1] > cutoff
  BY <1>1, ExpireSuffix
<1>3. Len(live) \in Nat
  BY <1>2
<1>4. Len(live) = Limit /\ Len(events[k]) = Limit
  BY <1>1, <1>2, <1>3
<1> HIDE DEF live
<1>5. 1 \in 1..Len(live) /\ Len(events[k]) - Len(live) + 1 = 1 /\ Len(live) > 0
  BY <1>1, <1>4
<1>6. live[1] = events[k][1] /\ live[1] > cutoff
  BY <1>2, <1>5
<1> QED BY <1>4, <1>6 DEF live

LEMMA PromiseInit == MemoryInit => \A t \in Threads : Promise(t)
BY DEF MemoryInit, Promise

LEMMA PromiseIdle ==
  ASSUME WindowInv, \A t \in Threads : Promise(t),
         UNCHANGED <<events, log>>,
         \A t \in Threads : verdict'[t] = verdict[t] \/ verdict'[t] = None
  PROVE  \A t \in Threads : Promise(t)'
BY DEF Promise

LEMMA PromiseCheck ==
  ASSUME WindowInv, \A t \in Threads : Promise(t),
         NEW t \in Threads, Check(t)
  PROVE  \A u \in Threads : Promise(u)'
<1>1. PICK k \in Keys : asked[t] = k
  BY DEF WindowInv, MemoryTypeOK, Check
<1>2. /\ current[t] \in Nat /\ Window \in Nat /\ Limit \in Nat \ {0}
      /\ Len(log[k]) \in Nat /\ events[k] \in Seq(Nat) /\ log[k] \in Seq(Admission)
      /\ verdict \in [Threads -> Decision \union {None}]
      /\ \A u \in Threads : verdict[u] # None => verdict[u].seen \in Nat
                                                 /\ verdict[u].key \in Keys
  <2>1. verdict \in [Threads -> Decision \union {None}] /\ current[t] \in Nat
    BY DEF WindowInv, MemoryTypeOK
  <2> QED BY <2>1, KeyFacts, LimiterFacts DEF Decision
<1>3. PICK live : live = PopExpired(events[k], current[t] - Window)
  OBVIOUS
<1>3a. CheckOutcome(t, k, live)
  BY <1>1, <1>3, CheckCases
<1>4. \A q \in Keys \ {k} : events'[q] = events[q] /\ log'[q] = log[q]
  BY <1>3a DEF CheckOutcome
<1>5. CASE Len(live) >= Limit
  <2>1. /\ events'[k] = live /\ log'[k] = log[k]
        /\ verdict' = [verdict EXCEPT ![t] =
             [allowed |-> FALSE, key |-> k, time |-> current[t],
              retry_after |-> RetryAfter(live[1] + Window - current[t]),
              seen |-> Len(log[k])]]
    BY <1>3a, <1>5 DEF CheckOutcome
  <2>2. /\ Len(events[k]) = Limit /\ Len(live) = Limit
        /\ live[1] = events[k][1]
    <3>1. current[t] - Window \in Int
      BY <1>2
    <3> QED BY <1>3, <1>5, <3>1, FullUnmoved
  <2>3. live[1] \in Nat
    BY <1>2, <2>2
  <2>4. LongEnough(live[1] + Window - current[t],
                    RetryAfter(live[1] + Window - current[t]), TicksPerSecond)
    <3>1. live[1] + Window - current[t] \in Int
      BY <1>2, <2>3
    <3> QED BY <3>1, RoundingUp
  <2>5. Promise(t)'
    <3>1. /\ verdict'[t].key = k /\ verdict'[t].seen = Len(log[k])
          /\ verdict'[t].time = current[t]
          /\ verdict'[t].retry_after = RetryAfter(live[1] + Window - current[t])
      BY <1>2, <2>1
    <3> QED BY <1>2, <2>1, <2>4, <3>1 DEF Promise
  <2>6. ASSUME NEW u \in Threads \ {t} PROVE Promise(u)'
    <3>1. verdict'[u] = verdict[u] /\ Promise(u)
      BY <1>2, <2>1
    <3>2. CASE verdict[u] # None /\ verdict[u].key = k
      BY <2>1, <2>2, <3>1, <3>2 DEF Promise
    <3>3. CASE verdict[u] # None /\ verdict[u].key # k
      <4>1. verdict[u].key \in Keys \ {k}
        BY <1>2, <3>3
      <4> QED BY <1>4, <3>1, <3>3, <4>1 DEF Promise
    <3> QED BY <3>1, <3>2, <3>3 DEF Promise
  <2> QED BY <2>5, <2>6
<1>6. CASE ~ (Len(live) >= Limit)
  <2>1. /\ log'[k] = Append(log[k], [time |-> current[t], at |-> now])
        /\ verdict' = [verdict EXCEPT ![t] =
             [allowed |-> TRUE, key |-> k, time |-> current[t],
              retry_after |-> 0, seen |-> Len(log[k])]]
    BY <1>3a, <1>6 DEF CheckOutcome
  <2>2. Len(log'[k]) = Len(log[k]) + 1
    BY <1>2, <2>1
  <2>3. Promise(t)'
    <3>1. /\ verdict'[t].key = k /\ verdict'[t].seen = Len(log[k])
          /\ verdict'[t].allowed
      BY <1>2, <2>1
    <3> QED BY <1>2, <2>2, <3>1 DEF Promise
  <2>4. ASSUME NEW u \in Threads \ {t} PROVE Promise(u)'
    <3>1. verdict'[u] = verdict[u] /\ Promise(u)
      BY <1>2, <2>1
    <3>2. CASE verdict[u] # None /\ verdict[u].key = k
      <4>1. verdict[u].seen \in Nat /\ verdict[u].seen <= Len(log[k])
        BY <1>2, <3>1, <3>2 DEF Promise
      <4>2. verdict[u].seen <= Len(log'[k]) /\ Len(log'[k]) # verdict[u].seen
        BY <1>2, <2>2, <4>1
      <4> QED BY <3>1, <3>2, <4>2 DEF Promise
    <3>3. CASE verdict[u] # None /\ verdict[u].key # k
      <4>1. verdict[u].key \in Keys \ {k}
        BY <1>2, <3>3
      <4> QED BY <1>4, <3>1, <3>3, <4>1 DEF Promise
    <3> QED BY <3>1, <3>2, <3>3 DEF Promise
  <2> QED BY <2>3, <2>4
<1> QED BY <1>5, <1>6

(* A caller that waits the seconds it was told and a millisecond is let    *)
(* through, when nobody of its key was in the meantime: rate_limiter.py:39 *)
(* rounds up to within a millisecond, however fine the clock.              *)
THEOREM RetryAfterHolds == MemorySpec => []RetryAfterHonoured
<1> DEFINE Kept == \A t \in Threads : Promise(t)
<1>1. MemoryInit => Kept
  BY PromiseInit
<1>2. WindowInv /\ Kept /\ [MemoryNext]_memory => Kept'
  <2> SUFFICES ASSUME WindowInv, \A t \in Threads : Promise(t), [MemoryNext]_memory
               PROVE  \A t \in Threads : Promise(t)'
    OBVIOUS
  <2>1. ASSUME NEW i \in Instants, Pass(i) PROVE \A t \in Threads : Promise(t)'
    <3>1. UNCHANGED <<events, log, verdict>>
      BY <2>1 DEF Pass
    <3> QED BY <3>1, PromiseIdle
  <2>2. ASSUME NEW t \in Threads, Check(t) PROVE \A u \in Threads : Promise(u)'
    BY <2>2, PromiseCheck
  <2>3. ASSUME NEW t \in Threads, NEW k \in Keys, ReadClock(t, k)
        PROVE  \A u \in Threads : Promise(u)'
    <3>1. \A u \in Threads : verdict'[u] = verdict[u] \/ verdict'[u] = None
      BY <2>3 DEF ReadClock, WindowInv, MemoryTypeOK
    <3>2. UNCHANGED <<events, log>>
      BY <2>3 DEF ReadClock
    <3> QED BY <3>1, <3>2, PromiseIdle
  <2>4. CASE UNCHANGED memory
    <3>1. UNCHANGED <<events, log, verdict>>
      BY <2>4 DEF memory
    <3> QED BY <3>1, PromiseIdle
  <2> QED BY <2>1, <2>2, <2>3, <2>4 DEF MemoryNext
<1>3. WindowInv /\ Kept => RetryAfterHonoured
  <2> SUFFICES ASSUME WindowInv, \A t \in Threads : Promise(t),
                      NEW t \in Threads, NEW u \in Threads,
                      verdict[t] # None, asked[u] # None,
                      ~ verdict[t].allowed, verdict[t].key = asked[u],
                      Len(log[asked[u]]) = verdict[t].seen,
                      Waited(verdict[t].time, verdict[t].retry_after, current[u]),
                      Len(PopExpired(events[asked[u]], current[u] - Window)) >= Limit
               PROVE  FALSE
    BY DEF RetryAfterHonoured, Full
  <2>1. /\ asked[u] \in Keys /\ current[u] \in Nat /\ Window \in Nat
        /\ verdict[t] \in Decision /\ TicksPerSecond \in Nat
    BY LimiterFacts DEF WindowInv, MemoryTypeOK
  <2>2. current[u] - Window \in Int
    BY <2>1
  <2>3. Len(events[asked[u]]) = Limit /\ events[asked[u]][1] > current[u] - Window
    BY <2>1, <2>2, FullUnmoved
  <2>4. LongEnough(events[asked[u]][1] + Window - verdict[t].time,
                  verdict[t].retry_after, TicksPerSecond)
    BY <2>3 DEF Promise
  <2>5. events[asked[u]][1] \in Nat
    <3>1. events[asked[u]] \in Seq(Nat) /\ Limit \in Nat \ {0}
      BY <2>1, KeyFacts, LimiterFacts
    <3> QED BY <2>3, <3>1
  <2>6. verdict[t].time \in Nat /\ verdict[t].retry_after \in Nat
    BY <2>1 DEF Decision
  <2>7. events[asked[u]][1] + Window - verdict[t].time <= current[u] - verdict[t].time
    <3>1. PICK wait, spent \in Int, seconds \in Nat :
            /\ wait = events[asked[u]][1] + Window - verdict[t].time
            /\ spent = current[u] - verdict[t].time
            /\ seconds = verdict[t].retry_after
      BY <2>1, <2>5, <2>6
    <3>2. 1000 * spent >= TicksPerSecond * (1000 * seconds + 1)
      BY <3>1 DEF Waited
    <3>3. LongEnough(wait, seconds, TicksPerSecond)
      BY <2>4, <3>1
    <3>4. TicksPerSecond \in Nat
      BY <2>1
    <3>5. wait <= spent
      BY <3>2, <3>3, <3>4, LongEnoughElapsed
    <3> QED BY <3>1, <3>5
  <2> QED BY <2>1, <2>3, <2>5, <2>6, <2>7
<1> QED BY <1>1, <1>2, <1>3, WindowSafe, PTL DEF MemorySpec

-----------------------------------------------------------------------------
\* The instants of admission, as the abstract limiter records them.
AdmittedAt(k) == [i \in 1..Len(log[k]) |-> log[k][i].at]

\* An admission with room in the deque is one the abstract limiter allows.
LEMMA AdmitAllowed ==
  ASSUME WindowInv, NEW t \in Threads, NEW k \in Keys, asked[t] = k,
         NEW live, live = PopExpired(events[k], current[t] - Window),
         ~ (Len(live) >= Limit), Len(log[k]) >= Limit
  PROVE  log[k][Len(log[k]) - Limit + 1].at <= now - (Window - MaxStale)
<1>1. asked[t] # None
  BY LimiterFacts
<1>2. /\ live \in Seq(Nat) /\ Len(live) <= Len(log[k])
      /\ \A i \in 1..Len(log[k]) - Len(live) :
           log[k][i].at <= now - (Window - MaxStale)
  BY <1>1, CheckSees
<1>3. Len(live) \in Nat /\ Len(log[k]) \in Nat /\ Limit \in Nat \ {0}
  BY <1>2, KeyFacts, LimiterFacts
<1>4. \A n, l, m \in Nat : ~ (l >= m) /\ n >= m => n - m + 1 \in 1..n - l
  OBVIOUS
<1>5. Len(log[k]) - Limit + 1 \in 1..Len(log[k]) - Len(live)
  BY <1>3, <1>4
<1> QED BY <1>2, <1>5

\* A full window, and nothing older than it, is one the abstract limiter sees.
LEMMA DenyAllowed ==
  ASSUME WindowInv, NEW t \in Threads, NEW k \in Keys, asked[t] = k,
         NEW live, live = PopExpired(events[k], current[t] - Window),
         Len(live) >= Limit
  PROVE  /\ Len(log[k]) >= Limit
         /\ log[k][Len(log[k]) - Limit + 1].at > now - (Window + MaxStale)
<1>1. asked[t] # None
  BY LimiterFacts
<1>2. /\ live \in Seq(Nat) /\ Len(live) <= Len(log[k]) /\ Len(live) <= Limit
      /\ \A i \in 1..Len(live) : live[i] = log[k][Len(log[k]) - Len(live) + i].time
  <2>1. live \in Seq(Nat) /\ Len(live) <= Len(log[k]) /\ Len(live) <= Limit
    BY <1>1, CheckSees
  <2>2. \A i \in 1..Len(live) : live[i] = log[k][Len(log[k]) - Len(live) + i].time
    BY <1>1, CheckSees, ZenonT(30)
  <2> QED BY <2>1, <2>2
<1>2a. Len(live) > 0 => live[1] > current[t] - Window
  BY <1>1, CheckSees
<1>3. Len(live) \in Nat /\ Len(log[k]) \in Nat /\ Limit \in Nat \ {0}
  BY <1>2, KeyFacts, LimiterFacts
<1>4. Len(live) = Limit /\ Len(live) > 0 /\ 1 \in 1..Len(live)
      /\ Len(log[k]) - Limit + 1 \in 1..Len(log[k])
  BY <1>2, <1>3
<1>5. PICK i \in 1..Len(log[k]) : i = Len(log[k]) - Limit + 1
  BY <1>4
<1>6. live[1] = log[k][i].time /\ live[1] > current[t] - Window
  BY <1>2, <1>2a, <1>4, <1>5
<1>7. /\ log[k][i].time \in Nat /\ log[k][i].at \in Nat
      /\ log[k][i].time <= log[k][i].at
  BY KeyFacts DEF Timely
<1>8. /\ current[t] \in Nat /\ now \in Nat /\ Window \in Nat /\ MaxStale \in Nat
      /\ now - current[t] <= MaxStale
  BY <1>1, LimiterFacts DEF WindowInv, MemoryTypeOK
<1>9. log[k][i].at > now - (Window + MaxStale)
  <2>1. \A h, a, c, n, w, m \in Int :
          h <= a /\ h > c - w /\ n - c <= m => a > n - (w + m)
    OBVIOUS
  <2>2. log[k][i].time > current[t] - Window
    BY <1>6
  <2>3. PICK h, a \in Nat : h = log[k][i].time /\ a = log[k][i].at
    BY <1>7
  <2>4. h <= a /\ h > current[t] - Window
    BY <1>7, <2>2, <2>3
  <2>5. a > now - (Window + MaxStale)
    BY <1>8, <2>1, <2>4
  <2> QED BY <2>3, <2>5
<1> QED BY <1>2, <1>3, <1>4, <1>5, <1>9

LEMMA AdmittedAtGrows ==
  ASSUME WindowInv, NEW k \in Keys, NEW t,
         now \in Nat, log'[k] = Append(log[k], [time |-> current[t], at |-> now])
  PROVE  AdmittedAt(k)' = Append(AdmittedAt(k), now)
<1> PICK lg : lg = log[k]
  OBVIOUS
<1>1. lg \in Seq(Admission) /\ Len(lg) \in Nat
  BY KeyFacts
<1>2. PICK lg2 : lg2 = Append(lg, [time |-> current[t], at |-> now])
  OBVIOUS
<1>3. /\ Len(lg2) = Len(lg) + 1
      /\ \A i \in 1..Len(lg) : lg2[i] = lg[i]
      /\ lg2[Len(lg) + 1].at = now
  BY <1>1, <1>2
<1>4. /\ [i \in 1..Len(lg) |-> lg[i].at] \in Seq(Nat)
      /\ Len([i \in 1..Len(lg) |-> lg[i].at]) = Len(lg)
  <2>1. \A i \in 1..Len(lg) : lg[i].at \in Nat
    BY KeyFacts
  <2> QED BY <1>1, <2>1
<1>5. [i \in 1..Len(lg2) |-> lg2[i].at] = Append([i \in 1..Len(lg) |-> lg[i].at], now)
  BY <1>1, <1>3, <1>4
<1> QED BY <1>2, <1>5 DEF AdmittedAt

(* The deque-based limiter implements the abstract sliding window with the *)
(* lateness of its clock reading as slack: it lets through and turns away  *)
(* what the window over true admission times does, up to that lateness.    *)
THEOREM LimiterImplements == MemorySpec => ImplementsSlidingWindow
<1> DEFINE av == [t \in Threads |-> IF verdict[t] = None THEN None
                    ELSE IF verdict[t].allowed THEN "allow" ELSE "deny"]
           al == [k \in Keys |-> AdmittedAt(k)]
<1>1. MemoryInit => Abstract!Init
  BY DEF MemoryInit, Abstract!Init
<1>2. WindowInv /\ [MemoryNext]_memory => [Abstract!Next]_Abstract!vars
  <2> SUFFICES ASSUME WindowInv, [MemoryNext]_memory
               PROVE  [Abstract!Next]_Abstract!vars
    OBVIOUS
  <2>1. ASSUME NEW i \in Instants, Pass(i) PROVE Abstract!Pass
    BY <2>1, LimiterFacts DEF WindowInv, MemoryTypeOK, Pass, Abstract!Pass
  <2>2. ASSUME NEW t \in Threads, NEW k \in Keys, ReadClock(t, k)
        PROVE  Abstract!Ask(t, k)
    BY <2>2 DEF WindowInv, MemoryTypeOK, ReadClock, Abstract!Ask
  <2>3. ASSUME NEW t \in Threads, Check(t)
        PROVE  Abstract!Admit(t) \/ Abstract!Deny(t)
    <3>1. PICK k \in Keys : asked[t] = k
      BY <2>3 DEF WindowInv, MemoryTypeOK, Check
    <3>2. PICK live : live = PopExpired(events[k], current[t] - Window)
      OBVIOUS
    <3>3. CheckOutcome(t, k, live)
      BY <2>3, <3>1, <3>2, CheckCases
    <3>4. k # None /\ now' = now /\ asked' = [asked EXCEPT ![t] = None]
      BY <3>3, LimiterFacts DEF CheckOutcome
    <3>5. /\ verdict \in [Threads -> Decision \union {None}]
          /\ current[t] \in Nat /\ now \in Nat /\ Len(log[k]) \in Nat
          /\ Limit \in Nat \ {0} /\ log \in [Keys -> Seq(Admission)]
      BY KeyFacts, LimiterFacts DEF WindowInv, MemoryTypeOK
    <3>6. /\ al[k] = AdmittedAt(k) /\ Len(AdmittedAt(k)) = Len(log[k])
          /\ Len(log[k]) >= Limit =>
               AdmittedAt(k)[Len(log[k]) - Limit + 1] = log[k][Len(log[k]) - Limit + 1].at
      BY <3>5 DEF AdmittedAt
    <3>7. CASE Len(live) >= Limit
      <4>1. UNCHANGED al
        BY <3>3, <3>7 DEF CheckOutcome, AdmittedAt
      <4>2. av' = [av EXCEPT ![t] = "deny"]
        <5>1. PICK d : verdict' = [verdict EXCEPT ![t] = d] /\ ~ d.allowed
                       /\ d \in Decision
          <6>1. live[1] \in Nat
            <7>1. live \in Seq(Nat)
              BY <3>1, <3>2, <3>4, CheckSees
            <7> QED BY <3>5, <3>7, <7>1
          <6>2. RetryAfter(live[1] + Window - current[t]) \in Nat
            <7>1. live[1] + Window - current[t] \in Int
              BY <3>5, <6>1, LimiterFacts
            <7> QED BY <7>1, RoundingUp
          <6>3. [allowed |-> FALSE, key |-> k, time |-> current[t],
                 retry_after |-> RetryAfter(live[1] + Window - current[t]),
                 seen |-> Len(log[k])] \in Decision
            BY <3>5, <6>2 DEF Decision
          <6> QED BY <3>3, <3>7, <6>3 DEF CheckOutcome
        <5> QED BY <3>5, <5>1, LimiterFacts
      <4>3. /\ Len(al[k]) >= Limit
            /\ al[k][Len(al[k]) - Limit + 1] > now - (Window + MaxStale)
        BY <3>1, <3>2, <3>6, <3>7, DenyAllowed
      <4> QED BY <3>1, <3>4, <4>1, <4>2, <4>3
              DEF Abstract!Deny, Abstract!Decide, Abstract!Oldest, AdmittedAt
    <3>8. CASE ~ (Len(live) >= Limit)
      <4>1. al' = [al EXCEPT ![k] = Append(@, now)]
        <5>1. AdmittedAt(k)' = Append(AdmittedAt(k), now)
          BY <3>3, <3>5, <3>8, AdmittedAtGrows DEF CheckOutcome
        <5>2. \A q \in Keys \ {k} : AdmittedAt(q)' = AdmittedAt(q)
          BY <3>3 DEF CheckOutcome, AdmittedAt
        <5> QED BY <5>1, <5>2
      <4>2. av' = [av EXCEPT ![t] = "allow"]
        <5>1. PICK d : verdict' = [verdict EXCEPT ![t] = d] /\ d.allowed
                       /\ d \in Decision
          <6>1. [allowed |-> TRUE, key |-> k, time |-> current[t],
                 retry_after |-> 0, seen |-> Len(log[k])] \in Decision
            BY <3>5 DEF Decision
          <6> QED BY <3>3, <3>8, <6>1 DEF CheckOutcome
        <5> QED BY <3>5, <5>1, LimiterFacts
      <4>3. Len(al[k]) >= Limit =>
              al[k][Len(al[k]) - Limit + 1] <= now - (Window - MaxStale)
        BY <3>1, <3>2, <3>6, <3>8, AdmitAllowed
      <4> QED BY <3>1, <3>4, <4>1, <4>2, <4>3
              DEF Abstract!Admit, Abstract!Decide, Abstract!Oldest, AdmittedAt
    <3> QED BY <3>7, <3>8
  <2>4. CASE UNCHANGED memory
    BY <2>4 DEF memory, Abstract!vars
  <2> QED BY <2>1, <2>2, <2>3, <2>4 DEF MemoryNext, Abstract!Next
<1> QED BY <1>1, <1>2, WindowSafe, PTL DEF MemorySpec, ImplementsSlidingWindow, Abstract!Spec
=============================================================================

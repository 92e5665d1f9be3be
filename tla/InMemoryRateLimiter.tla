------------------------- MODULE InMemoryRateLimiter -------------------------
(* InMemoryRateLimiter.check (rate_limiter.py), called by every handler    *)
(* thread of the server.  The clock is read before the lock is taken, so a *)
(* decision is made on a time that may be past, and two requests may be    *)
(* recorded in the opposite order of their times.  Under the lock a check  *)
(* is one step.                                                            *)
EXTENDS RateLimiter

CONSTANT Threads \* handler threads

Admission == [time : Nat, at : Nat]
Decision == [allowed : BOOLEAN, key : Keys, time : Nat, retry_after : Nat,
             seen : Nat]

ASSUME DecisionAssumption == None \notin Decision

VARIABLES
  now,     \* time.time()
  asked,   \* the key of each thread between reading the clock and deciding
  current, \* "current" of each such thread
  verdict, \* the last RateLimitDecision each thread was given, or None
  events,  \* InMemoryRateLimiter._events
  log      \* history: per key, every admission, its "current" and its time

memory == <<now, asked, current, verdict, events, log>>

-----------------------------------------------------------------------------
\* The deque after popleft while its head is not after the cutoff.
FirstLive(s, cutoff) ==
  CHOOSE i \in 1..Len(s) + 1 :
    /\ \A j \in 1..i - 1 : s[j] <= cutoff
    /\ i <= Len(s) => s[i] > cutoff

PopExpired(s, cutoff) == SubSeq(s, FirstLive(s, cutoff), Len(s))

MemoryInit ==
  /\ now = 0
  /\ asked = [t \in Threads |-> None]
  /\ current = [t \in Threads |-> 0]
  /\ verdict = [t \in Threads |-> None]
  /\ events = [k \in Keys |-> <<>>]
  /\ log = [k \in Keys |-> <<>>]

\* MaxStale is an assumption about the scheduler, not a guard of the code.
Pass(to) ==
  /\ to > now
  /\ \A t \in Threads : asked[t] # None => to - current[t] <= MaxStale
  /\ now' = to
  /\ UNCHANGED <<asked, current, verdict, events, log>>

ReadClock(t, k) ==
  /\ asked[t] = None
  /\ asked' = [asked EXCEPT ![t] = k]
  /\ current' = [current EXCEPT ![t] = now]
  /\ verdict' = [verdict EXCEPT ![t] = None]
  /\ UNCHANGED <<now, events, log>>

\* Mutant: one request too many.
OverFull(live) == Len(live) > Limit

\* Mutant: one request too few.
AlmostFull(live) == Len(live) + 1 >= Limit

Full(live) == Len(live) >= Limit

\* The locked part of check.  "seen" is history: the admissions so far.
Check(t) ==
  LET k == asked[t]
      live == PopExpired(events[k], current[t] - Window)
  IN /\ k # None
     /\ asked' = [asked EXCEPT ![t] = None]
     /\ \/ /\ Full(live)
           /\ events' = [events EXCEPT ![k] = live]
           /\ verdict' = [verdict EXCEPT ![t] =
                [allowed |-> FALSE, key |-> k, time |-> current[t],
                 retry_after |-> RetryAfter(live[1] + Window - current[t]),
                 seen |-> Len(log[k])]]
           /\ UNCHANGED log
        \/ /\ ~ Full(live)
           /\ events' = [events EXCEPT ![k] = Append(live, current[t])]
           /\ verdict' = [verdict EXCEPT ![t] =
                [allowed |-> TRUE, key |-> k, time |-> current[t],
                 retry_after |-> 0, seen |-> Len(log[k])]]
           /\ log' = [log EXCEPT ![k] =
                Append(@, [time |-> current[t], at |-> now])]
     /\ UNCHANGED <<now, current>>

MemoryNext ==
  \/ \E i \in Instants : Pass(i)
  \/ \E t \in Threads : Check(t) \/ \E k \in Keys : ReadClock(t, k)

MemorySpec == MemoryInit /\ [][MemoryNext]_memory

-----------------------------------------------------------------------------
(* The variables of the limiter have their types, a deque never holds more *)
(* than Limit entries, and a pending check is at most MaxStale late.       *)
MemoryTypeOK ==
  /\ now \in Nat
  /\ asked \in [Threads -> Keys \union {None}]
  /\ current \in [Threads -> Nat]
  /\ verdict \in [Threads -> Decision \union {None}]
  /\ events \in [Keys -> Seq(Nat)]
  /\ log \in [Keys -> Seq(Admission)]
  /\ \A k \in Keys : Len(events[k]) <= Limit
  /\ \A t \in Threads : /\ current[t] <= now
                        /\ asked[t] # None => now - current[t] <= MaxStale

(* No more than Limit requests of a key are let through in any stretch of  *)
(* Window - MaxStale: late decisions may squeeze a window, by no more than *)
(* the lateness, although entries are recorded and expired out of order.   *)
WindowBound ==
  \A k \in Keys : \A i \in 1..Len(log[k]) - Limit :
    log[k][i + Limit].at - log[k][i].at >= Window - MaxStale

(* retry_after is a promise: a caller that was turned away and reads the   *)
(* clock again that many seconds and a millisecond later is let through,   *)
(* unless others of its key were let through in the meantime.  Without the *)
(* millisecond it may be denied again, as rounding up is not exact.        *)
RetryAfterHonoured ==
  \A t, u \in Threads :
    /\ verdict[t] # None /\ asked[u] # None
    => (/\ ~ verdict[t].allowed /\ verdict[t].key = asked[u]
        /\ Len(log[asked[u]]) = verdict[t].seen
        /\ Waited(verdict[t].time, verdict[t].retry_after, current[u])
        => ~ Full(PopExpired(events[asked[u]], current[u] - Window)))

(* The detailed limiter implements the abstract one with the lateness of a *)
(* decision as its slack.                                                  *)
Abstract == INSTANCE SlidingWindow WITH
  Slack <- MaxStale,
  verdict <- [t \in Threads |-> IF verdict[t] = None THEN None
                                ELSE IF verdict[t].allowed THEN "allow" ELSE "deny"],
  log <- [k \in Keys |-> [i \in 1..Len(log[k]) |-> log[k][i].at]]

ImplementsSlidingWindow == Abstract!Spec
=============================================================================

----------------------------- MODULE RateLimiter -----------------------------
(* What the two limiters of rate_limiter.py have in common: their settings, *)
(* the clock, and the wait they tell a caller that is turned away.          *)
(*                                                                          *)
(* Time is counted in ticks as fine as one likes: time.time() is finer than *)
(* the milliseconds the wait is rounded by.  The clock never goes back.     *)
EXTENDS Integers, Sequences, PythonNone

CONSTANTS
  Keys,           \* client keys: an API key or an address
  Limit,          \* max(1, limit)
  WindowSeconds,  \* max(1, window_seconds)
  TicksPerSecond,
  Instants,       \* bound: the readings of the clock
  MaxStale        \* the longest a check takes after it read the clock

Window == WindowSeconds * TicksPerSecond

ASSUME LimiterAssumption ==
  /\ Limit \in Nat \ {0} /\ WindowSeconds \in Nat \ {0}
  /\ TicksPerSecond \in Nat \ {0} /\ MaxStale \in Nat
  /\ Instants \subseteq Nat /\ 0 \in Instants
  /\ None \notin Keys \union Nat

\* Mutant: the wait is rounded down.
RetryAfterRoundedDown(wait) ==
  LET seconds == wait \div TicksPerSecond IN IF seconds > 1 THEN seconds ELSE 1

\* max(1, int(wait + 0.999)), in seconds: up to a millisecond too short.
RetryAfter(wait) ==
  LET seconds == (1000 * wait + 999 * TicksPerSecond) \div (1000 * TicksPerSecond)
  IN IF seconds > 1 THEN seconds ELSE 1

\* A caller waited its retry_after, and the millisecond the rounding may drop.
Waited(since, retry_after, until) ==
  1000 * (until - since) >= TicksPerSecond * (1000 * retry_after + 1)
=============================================================================

---------------------------- MODULE SlidingWindow ----------------------------
(* What a sliding-window rate limiter promises, whatever it stores: of the *)
(* requests of one key, no more than Limit are let through in any Window,  *)
(* and none is turned away unless Limit were let through in a Window.      *)
(* Both hold up to Slack, the time between a request reading the clock and *)
(* the limiter deciding on it.                                             *)
EXTENDS Integers, Sequences

CONSTANTS Threads, Keys, Limit, Window, Slack, None

VARIABLES
  now,     \* real time
  asked,   \* the key each thread waits for a decision on, or None
  verdict, \* the last decision each thread was given, or None
  log      \* per key, the instants at which requests were let through

vars == <<now, asked, verdict, log>>

Init ==
  /\ now \in Nat
  /\ asked = [t \in Threads |-> None]
  /\ verdict = [t \in Threads |-> None]
  /\ log = [k \in Keys |-> <<>>]

Pass ==
  /\ now' \in Nat /\ now' > now
  /\ UNCHANGED <<asked, verdict, log>>

Ask(t, k) ==
  /\ asked[t] = None
  /\ asked' = [asked EXCEPT ![t] = k]
  /\ verdict' = [verdict EXCEPT ![t] = None]
  /\ UNCHANGED <<now, log>>

Decide(t, v) ==
  /\ asked' = [asked EXCEPT ![t] = None]
  /\ verdict' = [verdict EXCEPT ![t] = v]

\* The Limit-th last admission of a key, which a full window must not reach.
Oldest(k) == log[k][Len(log[k]) - Limit + 1]

Admit(t) ==
  LET k == asked[t]
  IN /\ k # None
     /\ Len(log[k]) >= Limit => Oldest(k) <= now - (Window - Slack)
     /\ log' = [log EXCEPT ![k] = Append(@, now)]
     /\ Decide(t, "allow") /\ UNCHANGED now

Deny(t) ==
  LET k == asked[t]
  IN /\ k # None
     /\ Len(log[k]) >= Limit /\ Oldest(k) > now - (Window + Slack)
     /\ Decide(t, "deny") /\ UNCHANGED <<now, log>>

Next ==
  \/ Pass
  \/ \E t \in Threads : Admit(t) \/ Deny(t) \/ \E k \in Keys : Ask(t, k)

Spec == Init /\ [][Next]_vars
=============================================================================

------------------------------- MODULE MCService -------------------------------
(* An instance of the server process.  Ticks are half a millisecond, and   *)
(* the clock is read around the ends of a window of two seconds: a request *)
(* half a millisecond before the end of a second is told to wait too short.*)
EXTENDS Service, MCNotifications

AllFaults == {"limiter", "arguments", "socket"}

ClockReadings == {0, 1000, 1999, 3999, 4000, 4001, 6000, 7000}

\* The two of each kind are alike.  As one part serves at a time, to swap all
\* of them at once is enough.
Swap(S) == CHOOSE p \in Permutations(S) : \E x \in S : p[x] # x

Swapped == Swap(Threads) @@ Swap(Workers) @@ Swap(Handlers) @@ Swap(Ids)

Alike == {[x \in DOMAIN Swapped |-> IF swap THEN Swapped[x] ELSE x] : swap \in BOOLEAN}
=============================================================================

------------------------------- MODULE FxEngine -------------------------------
(* FXEngine.get_rate (fx_engine.py), called by the handler threads of the  *)
(* server on one engine without a lock.  A handler looks into the cache,   *)
(* asks the sources of live rates while other handlers do the same, and    *)
(* stores what it got: a live quote, or the hardcoded rate.                *)
(*                                                                         *)
(* A rate is the instant its source answered ("asof").  That a hardcoded   *)
(* rate may be missing, and is then 0 and cached like any other, is left   *)
(* out, and so are pairs of one currency, which need neither.              *)
EXTENDS Integers, Sequences, FiniteSets, PythonNone

CONSTANTS
  Handlers,  \* handler threads
  Pairs,     \* pairs of two currencies
  Ttl,       \* _cache_ttl
  MaxFetch,  \* the longest the sources are waited for (a timeout each)
  MaxInstant \* bound on the clock

Sources == {"exchangerate", "currencyscoop"}

FXRate == [source : {"live", "fallback"}, asof : 0..MaxInstant, asked : SUBSET Sources]

\* What _cache holds: a rate and its timestamp.
Entry == [rate : FXRate, stored : 0..MaxInstant]

ASSUME FxAssumption ==
  /\ Ttl \in Nat \ {0} /\ MaxFetch \in Nat /\ MaxInstant \in Nat
  /\ None \notin Pairs \union Entry /\ IsFiniteSet(Handlers)

VARIABLES
  instant,   \* time.time()
  cache,     \* FXEngine._cache
  step,      \* what each handler does next
  pair,      \* its cache_key, or None
  began,     \* history: when it missed the cache
  consulted, \* history: the sources it asked
  result,    \* the rate it is about to store
  reply,     \* the last rate it returned, and when
  fetches    \* history: per pair, when a handler missed the cache

locals == <<step, pair, began, consulted, result>>
fx == <<instant, cache, locals, reply, fetches>>

-----------------------------------------------------------------------------
\* Mutant: without a live rate there is none.
LiveOrNothing(source, by) ==
  IF source = "live" THEN [source |-> source, asof |-> instant, asked |-> by] ELSE None

Rate(source, by) == [source |-> source, asof |-> instant, asked |-> by]

Goto(t, label) == step' = [step EXCEPT ![t] = label]

Return(t, rate) ==
  /\ reply' = [reply EXCEPT ![t] = [rate |-> rate, at |-> instant]]
  /\ Goto(t, "idle")

FxInit ==
  /\ instant = 0
  /\ cache = [p \in Pairs |-> None]
  /\ step = [t \in Handlers |-> "idle"]
  /\ pair = [t \in Handlers |-> None]
  /\ began = [t \in Handlers |-> 0]
  /\ consulted = [t \in Handlers |-> {}]
  /\ result = [t \in Handlers |-> None]
  /\ reply = [t \in Handlers |-> None]
  /\ fetches = [p \in Pairs |-> <<>>]

\* MaxFetch is an assumption about the network and the scheduler.
Tick ==
  /\ instant < MaxInstant
  /\ \A t \in Handlers : step[t] # "idle" => instant + 1 - began[t] <= MaxFetch
  /\ instant' = instant + 1
  /\ UNCHANGED <<cache, locals, reply, fetches>>

\* Mutant: a rate expires after the time to live, not at it.
HitLate(p) == cache[p] # None /\ instant - cache[p].stored <= Ttl

\* cached and (time.time() - cached.timestamp) < self._cache_ttl
Hit(p) == cache[p] # None /\ instant - cache[p].stored < Ttl

GetRate(t, p) ==
  /\ step[t] = "idle"
  /\ \/ /\ Hit(p)
        /\ Return(t, cache[p].rate)
        /\ UNCHANGED <<pair, began, consulted, result, fetches>>
     \/ /\ ~ Hit(p)
        /\ pair' = [pair EXCEPT ![t] = p]
        /\ began' = [began EXCEPT ![t] = instant]
        /\ fetches' = [fetches EXCEPT ![p] = Append(@, instant)]
        /\ reply' = [reply EXCEPT ![t] = None]
        /\ Goto(t, "exchangerate")
        /\ UNCHANGED <<consulted, result>>
  /\ UNCHANGED <<instant, cache>>

(* _fetch_exchangerate_api and _fetch_currencyscoop.  _http_get turns      *)
(* every failure of a request into None, and None is the answer: only an   *)
(* exception over a body of another shape leads on to the next source.     *)
LeadsOn(s, answer) == s = "exchangerate" /\ answer = "malformed"

AskSource(t, s, answer) ==
  LET by == consulted[t] \union {s}
      source == IF answer = "rate" THEN "live" ELSE "fallback"
  IN /\ step[t] = s
     /\ consulted' = [consulted EXCEPT ![t] = by]
     /\ \/ /\ LeadsOn(s, answer)
           /\ Goto(t, "currencyscoop") /\ UNCHANGED result
        \/ /\ ~ LeadsOn(s, answer)
           /\ result' = [result EXCEPT ![t] = Rate(source, by)]
           /\ Goto(t, "store")
     /\ UNCHANGED <<instant, cache, pair, began, reply, fetches>>

\* Mutant: only live rates are worth caching.
CachedIfLive(rate, old) ==
  IF rate.source = "live" THEN [rate |-> rate, stored |-> instant] ELSE old

\* The cache entry: the timestamp is taken once the sources have answered.
Cached(rate, old) == [rate |-> rate, stored |-> instant]

Store(t) ==
  /\ step[t] = "store"
  /\ cache' = [cache EXCEPT ![pair[t]] = Cached(result[t], @)]
  /\ Return(t, result[t])
  /\ pair' = [pair EXCEPT ![t] = None]
  /\ began' = [began EXCEPT ![t] = 0]
  /\ consulted' = [consulted EXCEPT ![t] = {}]
  /\ result' = [result EXCEPT ![t] = None]
  /\ UNCHANGED <<instant, fetches>>

FxNext ==
  \/ Tick
  \/ \E t \in Handlers :
       \/ \E p \in Pairs : GetRate(t, p)
       \/ \E s \in Sources, answer \in {"rate", "none", "malformed"} : AskSource(t, s, answer)
       \/ Store(t)

FxSpec == FxInit /\ [][FxNext]_fx

-----------------------------------------------------------------------------
\* The variables have their types; a handler that asks knows its pair.
FxTypeOK ==
  /\ instant \in 0..MaxInstant
  /\ cache \in [Pairs -> Entry \union {None}]
  /\ step \in [Handlers -> {"idle", "store"} \union Sources]
  /\ pair \in [Handlers -> Pairs \union {None}]
  /\ began \in [Handlers -> 0..MaxInstant]
  /\ consulted \in [Handlers -> SUBSET Sources]
  /\ result \in [Handlers -> FXRate \union {None}]
  /\ reply \in [Handlers -> [rate : FXRate, at : 0..MaxInstant] \union {None}]
  /\ fetches \in [Pairs -> Seq(0..MaxInstant)]
  /\ \A t \in Handlers : step[t] = "idle" <=> pair[t] = None

(* However the handlers overwrite each other's entries, no rate is served  *)
(* whose source answered longer ago than the time to live and one fetch:   *)
(* the timestamp is younger than the rate, by the fetch at most.           *)
RatesAreRecent ==
  \A t \in Handlers : reply[t] # None =>
    reply[t].at - reply[t].rate.asof < Ttl + MaxFetch

(* Handlers that miss the cache together all ask the sources, but each of  *)
(* them once per time to live, and that when the sources are down as well. *)
(* This is the cache's bound, not the monthly quota of the sources         *)
(* (fx_engine.py:4), which one fetch per time to live exceeds already.     *)
FetchesBounded ==
  \A p \in Pairs : \A i \in 1..Len(fetches[p]) - Cardinality(Handlers) :
    fetches[p][i + Cardinality(Handlers)] - fetches[p][i] >= Ttl

(* "Fallback rates (used when APIs are unavailable)" (fx_engine.py:24),    *)
(* of which CurrencyScoop is the second (lines 3-6): a hardcoded rate is   *)
(* served only after every source was asked.                               *)
EverySourceAsked ==
  \A t \in Handlers : reply[t] # None /\ reply[t].rate.source = "fallback" =>
    reply[t].rate.asked = Sources
=============================================================================

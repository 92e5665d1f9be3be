---------------------------- MODULE FxEngineProofs ----------------------------
(* Theorems about the rate cache: for any number of handlers and pairs and *)
(* any time to live and length of a fetch.                                 *)
EXTENDS FxEngine, FiniteSetTheorems, SequenceTheorems, TLAPS

\* An entry is stored once its rate was obtained, one fetch later at most.
EntryInv(p) == cache[p] # None =>
  /\ cache[p].rate.asof <= cache[p].stored /\ cache[p].stored <= instant
  /\ cache[p].stored - cache[p].rate.asof <= MaxFetch

\* A handler that asks has not been at it for longer than a fetch, and what
\* it is about to store was obtained in that time.
FetchInv(t) ==
  /\ step[t] # "idle" => began[t] <= instant /\ instant - began[t] <= MaxFetch
  /\ step[t] = "store" =>
       result[t] \in FXRate /\ began[t] <= result[t].asof /\ result[t].asof <= instant

CacheInv ==
  /\ FxTypeOK
  /\ \A p \in Pairs : EntryInv(p)
  /\ \A t \in Handlers : FetchInv(t)
  /\ RatesAreRecent

LEMMA CacheInit == FxInit => CacheInv
BY FxAssumption
   DEF FxInit, CacheInv, FxTypeOK, EntryInv, FetchInv, RatesAreRecent, Sources

\* The rates there are.
LEMMA RateType ==
  ASSUME instant \in 0..MaxInstant, NEW source \in {"live", "fallback"}, NEW by \in SUBSET Sources
  PROVE  /\ Rate(source, by) \in FXRate
         /\ Rate(source, by).asof = instant
BY DEF Rate, FXRate

\* What Return does to the replies.
LEMMA ReturnFacts ==
  ASSUME FxTypeOK, NEW t \in Handlers, NEW rate \in FXRate, Return(t, rate)
  PROVE  /\ reply' \in [Handlers -> [rate : FXRate, at : 0..MaxInstant] \union {None}]
         /\ reply'[t].rate = rate /\ reply'[t].at = instant
         /\ \A u \in Handlers \ {t} : reply'[u] = reply[u]
         /\ step' = [step EXCEPT ![t] = "idle"]
<1> DEFINE r == [rate |-> rate, at |-> instant]
<1>1. r \in [rate : FXRate, at : 0..MaxInstant] /\ r.rate = rate /\ r.at = instant
  BY DEF FxTypeOK
<1>2. reply' = [reply EXCEPT ![t] = r] /\ step' = [step EXCEPT ![t] = "idle"]
  BY DEF Return, Goto
<1>3. reply \in [Handlers -> [rate : FXRate, at : 0..MaxInstant] \union {None}]
  BY DEF FxTypeOK
<1> HIDE DEF r
<1> QED BY <1>1, <1>2, <1>3

LEMMA PassKeeps == CacheInv /\ Tick => CacheInv'
<1> SUFFICES ASSUME CacheInv, Tick PROVE CacheInv'
  OBVIOUS
<1>1. /\ instant' = instant + 1 /\ instant < MaxInstant /\ instant \in Nat /\ MaxInstant \in Nat
      /\ UNCHANGED <<cache, step, pair, began, consulted, result, reply, fetches>>
  BY FxAssumption DEF Tick, locals, CacheInv, FxTypeOK
<1>2. FxTypeOK'
  BY <1>1 DEF CacheInv, FxTypeOK
<1>3. ASSUME NEW p \in Pairs PROVE EntryInv(p)'
  <2>1. cache[p] # None => cache[p].stored \in 0..MaxInstant
    BY DEF CacheInv, FxTypeOK, Entry
  <2> QED BY <1>1, <2>1 DEF CacheInv, EntryInv
<1>4. ASSUME NEW t \in Handlers PROVE FetchInv(t)'
  <2>1. began[t] \in 0..MaxInstant /\ MaxFetch \in Nat
    BY FxAssumption DEF CacheInv, FxTypeOK
  <2>2. step[t] # "idle" => instant + 1 - began[t] <= MaxFetch
    BY DEF Tick
  <2>3. result[t] \in FXRate => result[t].asof \in 0..MaxInstant
    BY DEF FXRate
  <2> QED BY <1>1, <2>1, <2>2, <2>3 DEF CacheInv, FetchInv
<1>5. RatesAreRecent'
  BY <1>1 DEF CacheInv, RatesAreRecent
<1> QED BY <1>2, <1>3, <1>4, <1>5 DEF CacheInv

\* The entry answers: it is younger than the time to live, and its rate at
\* most one fetch older.
LEMMA HitKeeps ==
  ASSUME CacheInv, NEW t \in Handlers, NEW p \in Pairs, step[t] = "idle", Hit(p),
         Return(t, cache[p].rate),
         UNCHANGED <<instant, cache, pair, began, consulted, result, fetches>>
  PROVE  CacheInv'
<1>1. /\ cache[p] \in Entry /\ cache[p] # None
      /\ cache[p].rate \in FXRate /\ cache[p].stored \in 0..MaxInstant
  BY DEF Hit, CacheInv, FxTypeOK, Entry
<1>2. /\ reply' \in [Handlers -> [rate : FXRate, at : 0..MaxInstant] \union {None}]
      /\ reply'[t].rate = cache[p].rate /\ reply'[t].at = instant
      /\ \A u \in Handlers \ {t} : reply'[u] = reply[u]
      /\ step' = [step EXCEPT ![t] = "idle"]
  BY <1>1, ReturnFacts DEF CacheInv
<1>3. step' = step
  BY <1>2 DEF CacheInv, FxTypeOK
<1>4. FxTypeOK'
  BY <1>2, <1>3 DEF CacheInv, FxTypeOK
<1>5. instant - cache[p].rate.asof < Ttl + MaxFetch
  <2>1. /\ cache[p].stored \in 0..MaxInstant /\ cache[p].rate.asof \in 0..MaxInstant
        /\ instant \in Nat /\ Ttl \in Nat /\ MaxFetch \in Nat
    BY <1>1, FxAssumption DEF FXRate, CacheInv, FxTypeOK
  <2>2. instant - cache[p].stored < Ttl
    BY DEF Hit
  <2>3. cache[p].stored - cache[p].rate.asof <= MaxFetch
    BY <1>1 DEF CacheInv, EntryInv
  <2> QED BY <2>1, <2>2, <2>3
<1>6. RatesAreRecent'
  BY <1>2, <1>5 DEF CacheInv, RatesAreRecent
<1>7. \A u \in Handlers : FetchInv(u)'
  BY <1>3 DEF CacheInv, FetchInv
<1>8. \A q \in Pairs : EntryInv(q)'
  BY DEF CacheInv, EntryInv
<1> QED BY <1>4, <1>6, <1>7, <1>8 DEF CacheInv

LEMMA MissKeeps ==
  ASSUME CacheInv, NEW t \in Handlers, NEW p \in Pairs, step[t] = "idle", ~ Hit(p),
         GetRate(t, p)
  PROVE  CacheInv'
<1>1. /\ pair' = [pair EXCEPT ![t] = p] /\ began' = [began EXCEPT ![t] = instant]
      /\ fetches' = [fetches EXCEPT ![p] = Append(@, instant)]
      /\ reply' = [reply EXCEPT ![t] = None]
      /\ step' = [step EXCEPT ![t] = "exchangerate"]
      /\ UNCHANGED <<consulted, result, instant, cache>>
  BY DEF GetRate, Goto
<1>2. FxTypeOK'
  <2>1. instant \in 0..MaxInstant /\ p # None
    BY FxAssumption DEF CacheInv, FxTypeOK
  <2>2. fetches' \in [Pairs -> Seq(0..MaxInstant)]
    <3>1. fetches \in [Pairs -> Seq(0..MaxInstant)]
      BY DEF CacheInv, FxTypeOK
    <3>2. Append(fetches[p], instant) \in Seq(0..MaxInstant)
      BY <2>1, <3>1
    <3> QED BY <1>1, <3>1, <3>2
  <2>3. reply' \in [Handlers -> [rate : FXRate, at : 0..MaxInstant] \union {None}]
    <3>1. reply \in [Handlers -> [rate : FXRate, at : 0..MaxInstant] \union {None}]
      BY DEF CacheInv, FxTypeOK
    <3> QED BY <1>1, <3>1
  <2>4. /\ pair' \in [Handlers -> Pairs \union {None}]
        /\ began' \in [Handlers -> 0..MaxInstant]
        /\ step' \in [Handlers -> {"idle", "store"} \union Sources]
    BY <1>1, <2>1 DEF CacheInv, FxTypeOK, Sources
  <2>5. \A u \in Handlers : step'[u] = "idle" <=> pair'[u] = None
    BY <1>1, <2>1 DEF CacheInv, FxTypeOK
  <2> QED BY <1>1, <2>2, <2>3, <2>4, <2>5 DEF CacheInv, FxTypeOK
<1>3. ASSUME NEW u \in Handlers PROVE FetchInv(u)'
  <2>1. CASE u = t
    <3>1. step'[u] = "exchangerate" /\ began'[u] = instant
      BY <1>1, <2>1 DEF CacheInv, FxTypeOK
    <3>2. instant \in Nat /\ MaxFetch \in Nat
      BY FxAssumption DEF CacheInv, FxTypeOK
    <3> QED BY <1>1, <3>1, <3>2 DEF FetchInv
  <2>2. CASE u # t
    <3>1. step'[u] = step[u] /\ began'[u] = began[u]
      BY <1>1, <2>2 DEF CacheInv, FxTypeOK
    <3> QED BY <1>1, <3>1 DEF CacheInv, FetchInv
  <2> QED BY <2>1, <2>2
<1>4. \A q \in Pairs : EntryInv(q)'
  BY <1>1 DEF CacheInv, EntryInv
<1>5. RatesAreRecent'
  BY <1>1 DEF CacheInv, FxTypeOK, RatesAreRecent
<1> QED BY <1>2, <1>3, <1>4, <1>5 DEF CacheInv

LEMMA AskKeeps ==
  ASSUME CacheInv, NEW t \in Handlers, NEW s \in Sources,
         NEW answer \in {"rate", "none", "malformed"}, AskSource(t, s, answer)
  PROVE  CacheInv'
<1> DEFINE by == consulted[t] \union {s}
           source == IF answer = "rate" THEN "live" ELSE "fallback"
           rate == Rate(source, by)
<1>1. /\ step[t] = s /\ consulted' = [consulted EXCEPT ![t] = by]
      /\ UNCHANGED <<instant, cache, pair, began, reply, fetches>>
      /\ \/ step' = [step EXCEPT ![t] = "currencyscoop"] /\ UNCHANGED result
         \/ step' = [step EXCEPT ![t] = "store"] /\ result' = [result EXCEPT ![t] = rate]
  BY DEF AskSource, Goto
<1>2. by \in SUBSET Sources /\ source \in {"live", "fallback"} /\ instant \in 0..MaxInstant
  BY DEF CacheInv, FxTypeOK
<1>3. rate \in FXRate /\ rate.asof = instant
  BY <1>2, RateType
<1>a. step[t] # "idle"
  BY <1>1 DEF Sources
<1> HIDE DEF by, source, rate
<1>4. FxTypeOK'
  <2>1. consulted' \in [Handlers -> SUBSET Sources]
    BY <1>1, <1>2 DEF CacheInv, FxTypeOK
  <2>2. result' \in [Handlers -> FXRate \union {None}]
    BY <1>1, <1>3 DEF CacheInv, FxTypeOK
  <2>3. step' \in [Handlers -> {"idle", "store"} \union Sources]
    BY <1>1 DEF CacheInv, FxTypeOK, Sources
  <2>4. \A u \in Handlers : step'[u] = "idle" <=> pair'[u] = None
    BY <1>1, <1>a DEF CacheInv, FxTypeOK
  <2> QED BY <1>1, <2>1, <2>2, <2>3, <2>4 DEF CacheInv, FxTypeOK
<1>5. ASSUME NEW u \in Handlers PROVE FetchInv(u)'
  <2>1. CASE u = t
    <3>1. began[t] <= instant /\ instant - began[t] <= MaxFetch
      BY <1>a DEF CacheInv, FetchInv
    <3>2. step'[t] = "store" => result'[t] = rate
      BY <1>1 DEF CacheInv, FxTypeOK
    <3>3. instant \in Nat
      BY <1>2
    <3> QED BY <1>1, <1>3, <2>1, <3>1, <3>2, <3>3 DEF FetchInv
  <2>2. CASE u # t
    <3>1. step'[u] = step[u] /\ result'[u] = result[u]
      BY <1>1, <2>2 DEF CacheInv, FxTypeOK
    <3> QED BY <1>1, <3>1 DEF CacheInv, FetchInv
  <2> QED BY <2>1, <2>2
<1>6. \A q \in Pairs : EntryInv(q)'
  BY <1>1 DEF CacheInv, EntryInv
<1>7. RatesAreRecent'
  BY <1>1 DEF CacheInv, RatesAreRecent
<1> QED BY <1>4, <1>5, <1>6, <1>7 DEF CacheInv

LEMMA StoreKeeps ==
  ASSUME CacheInv, NEW t \in Handlers, Store(t)
  PROVE  CacheInv'
<1>1. /\ step[t] = "store" /\ result[t] \in FXRate /\ result[t].asof \in 0..MaxInstant
      /\ began[t] <= result[t].asof /\ result[t].asof <= instant
      /\ instant - began[t] <= MaxFetch /\ began[t] \in 0..MaxInstant
      /\ instant \in 0..MaxInstant /\ MaxFetch \in Nat /\ Ttl \in Nat \ {0} /\ MaxInstant \in Nat
  BY FxAssumption DEF Store, CacheInv, FetchInv, FxTypeOK, FXRate
<1>2. PICK p \in Pairs : p = pair[t]
  BY <1>1 DEF CacheInv, FxTypeOK
<1> DEFINE entry == [rate |-> result[t], stored |-> instant]
<1>3. /\ entry \in Entry
      /\ entry.rate = result[t] /\ entry.stored = instant
  BY <1>1 DEF Entry
<1>4. cache' = [cache EXCEPT ![p] = entry]
  BY <1>2 DEF Store, Cached
<1> HIDE DEF entry
<1>5. /\ pair' = [pair EXCEPT ![t] = None] /\ began' = [began EXCEPT ![t] = 0]
      /\ consulted' = [consulted EXCEPT ![t] = {}] /\ result' = [result EXCEPT ![t] = None]
      /\ UNCHANGED <<instant, fetches>>
  BY DEF Store
<1>6. /\ reply' \in [Handlers -> [rate : FXRate, at : 0..MaxInstant] \union {None}]
      /\ reply'[t].rate = result[t] /\ reply'[t].at = instant
      /\ \A u \in Handlers \ {t} : reply'[u] = reply[u]
      /\ step' = [step EXCEPT ![t] = "idle"]
  BY <1>1, ReturnFacts DEF Store, CacheInv
<1>7. FxTypeOK'
  <2>1. cache' \in [Pairs -> Entry \union {None}]
    BY <1>3, <1>4 DEF CacheInv, FxTypeOK
  <2>2. /\ pair' \in [Handlers -> Pairs \union {None}] /\ began' \in [Handlers -> 0..MaxInstant]
        /\ consulted' \in [Handlers -> SUBSET Sources]
        /\ result' \in [Handlers -> FXRate \union {None}]
        /\ step' \in [Handlers -> {"idle", "store"} \union Sources]
    BY <1>1, <1>5, <1>6 DEF CacheInv, FxTypeOK
  <2>3. \A u \in Handlers : step'[u] = "idle" <=> pair'[u] = None
    BY <1>5, <1>6 DEF CacheInv, FxTypeOK
  <2> QED BY <1>5, <1>6, <2>1, <2>2, <2>3 DEF CacheInv, FxTypeOK
<1>8. ASSUME NEW u \in Handlers PROVE FetchInv(u)'
  <2>1. CASE u = t
    BY <1>6, <2>1 DEF FetchInv, CacheInv, FxTypeOK
  <2>2. CASE u # t
    <3>1. step'[u] = step[u] /\ result'[u] = result[u] /\ began'[u] = began[u]
      BY <1>5, <1>6, <2>2 DEF CacheInv, FxTypeOK
    <3> QED BY <1>5, <3>1 DEF CacheInv, FetchInv
  <2> QED BY <2>1, <2>2
<1>9. ASSUME NEW q \in Pairs PROVE EntryInv(q)'
  <2>1. CASE q = p
    <3>1. cache'[q] = entry
      BY <1>4, <2>1 DEF CacheInv, FxTypeOK
    <3>2. entry.stored - entry.rate.asof <= MaxFetch /\ entry.rate.asof <= entry.stored
      BY <1>1, <1>3
    <3>3. entry.stored <= instant
      BY <1>1, <1>3
    <3> QED BY <1>5, <3>1, <3>2, <3>3 DEF EntryInv
  <2>2. CASE q # p
    <3>1. cache'[q] = cache[q]
      BY <1>4, <2>2 DEF CacheInv, FxTypeOK
    <3> QED BY <1>5, <3>1 DEF CacheInv, EntryInv
  <2> QED BY <2>1, <2>2
<1>10. instant - result[t].asof < Ttl + MaxFetch
  BY <1>1
<1>11. RatesAreRecent'
  BY <1>6, <1>10 DEF CacheInv, RatesAreRecent
<1> QED BY <1>7, <1>8, <1>9, <1>11 DEF CacheInv

LEMMA CacheNext == CacheInv /\ [FxNext]_fx => CacheInv'
<1> SUFFICES ASSUME CacheInv, [FxNext]_fx PROVE CacheInv'
  OBVIOUS
<1>1. CASE Tick
  BY <1>1, PassKeeps
<1>2. ASSUME NEW t \in Handlers, NEW p \in Pairs, GetRate(t, p) PROVE CacheInv'
  <2>1. CASE Hit(p)
    BY <1>2, <2>1, HitKeeps DEF GetRate
  <2>2. CASE ~ Hit(p)
    BY <1>2, <2>2, MissKeeps DEF GetRate
  <2> QED BY <2>1, <2>2
<1>3. ASSUME NEW t \in Handlers, NEW s \in Sources,
             NEW answer \in {"rate", "none", "malformed"}, AskSource(t, s, answer)
      PROVE  CacheInv'
  BY <1>3, AskKeeps
<1>4. ASSUME NEW t \in Handlers, Store(t) PROVE CacheInv'
  BY <1>4, StoreKeeps
<1>5. CASE UNCHANGED fx
  BY <1>5 DEF fx, locals, CacheInv, FxTypeOK, EntryInv, FetchInv, RatesAreRecent
<1> QED BY <1>1, <1>2, <1>3, <1>4, <1>5 DEF FxNext

(* The variables of the FX engine have their types.                        *)
THEOREM FxTypeCorrect == FxSpec => []FxTypeOK
<1>1. CacheInv => FxTypeOK
  BY DEF CacheInv
<1> QED BY <1>1, CacheInit, CacheNext, PTL DEF FxSpec

(* No rate is returned whose source answered a time to live and a fetch    *)
(* ago or earlier (fx_engine.py:87-108), whichever handlers overwrite each *)
(* other's entries of the cache.                                           *)
THEOREM RatesStayRecent == FxSpec => []RatesAreRecent
<1>1. CacheInv => RatesAreRecent
  BY DEF CacheInv
<1> QED BY <1>1, CacheInit, CacheNext, PTL DEF FxSpec

-----------------------------------------------------------------------------
(* How often the sources are asked.  The handlers that have missed the     *)
(* cache for a pair and not stored yet account for its last fetches; all   *)
(* the earlier ones began before the entry was stored, and no handler      *)
(* misses the cache before that entry expires.                             *)
Asking(p) == {t \in Handlers : pair[t] = p}

FetchesStored(p) ==
  \A i \in 1..(Len(fetches[p]) - Cardinality(Asking(p))) :
    cache[p] # None /\ fetches[p][i] <= cache[p].stored

FetchesPast(p) == \A i \in 1..Len(fetches[p]) : fetches[p][i] <= instant

Spaced(p) ==
  \A i \in 1..Len(fetches[p]) - Cardinality(Handlers) :
    fetches[p][i + Cardinality(Handlers)] - fetches[p][i] >= Ttl

QuotaInv == \A p \in Pairs : FetchesStored(p) /\ FetchesPast(p) /\ Spaced(p)

LEMMA AskingIsFinite ==
  ASSUME NEW p
  PROVE  /\ IsFiniteSet(Asking(p)) /\ Cardinality(Asking(p)) \in Nat
         /\ Cardinality(Asking(p)) <= Cardinality(Handlers)
         /\ Cardinality(Handlers) \in Nat
<1>1. Asking(p) \in SUBSET Handlers
  BY DEF Asking
<1> QED BY <1>1, FxAssumption, FS_Subset, FS_CardinalityType

\* The instants at which a pair was fetched.
LEMMA InstantsAreNat ==
  ASSUME NEW f \in Seq(0..MaxInstant)
  PROVE  Len(f) \in Nat /\ \A i \in 1..Len(f) : f[i] \in Nat
<1>1. f \in [1..Len(f) -> 0..MaxInstant] /\ Len(f) \in Nat
  BY LenProperties
<1>2. \A i \in 1..Len(f) : f[i] \in 0..MaxInstant
  BY <1>1
<1> QED BY <1>1, <1>2

LEMMA QuotaInit == FxInit => QuotaInv
<1> SUFFICES ASSUME FxInit, NEW p \in Pairs
             PROVE  FetchesStored(p) /\ FetchesPast(p) /\ Spaced(p)
  BY DEF QuotaInv
<1>1. Len(fetches[p]) = 0
  BY DEF FxInit
<1> QED BY <1>1, AskingIsFinite DEF FetchesStored, FetchesPast, Spaced

\* Steps that neither ask for the first time nor store.
LEMMA QuotaUnchanged ==
  ASSUME FxTypeOK, QuotaInv, UNCHANGED <<cache, pair, fetches>>, instant' \in Nat, instant <= instant'
  PROVE  QuotaInv'
<1> SUFFICES ASSUME NEW p \in Pairs
             PROVE  FetchesStored(p)' /\ FetchesPast(p)' /\ Spaced(p)'
  BY DEF QuotaInv
<1>1. Asking(p)' = Asking(p)
  BY DEF Asking
<1>2. \A i \in 1..Len(fetches[p]) : fetches[p][i] \in Nat
  <2>1. fetches[p] \in Seq(0..MaxInstant)
    BY DEF FxTypeOK
  <2> QED BY <2>1, InstantsAreNat
<1>3. FetchesStored(p)' /\ Spaced(p)'
  BY <1>1 DEF QuotaInv, FetchesStored, Spaced
<1>4. FetchesPast(p)'
  BY <1>2 DEF QuotaInv, FetchesPast, FxTypeOK
<1> QED BY <1>3, <1>4

\* A handler misses the cache: it is one of those that ask, and the fetch as
\* many back as there are handlers is none of theirs.
LEMMA MissKeepsQuota ==
  ASSUME FxTypeOK, QuotaInv, NEW t \in Handlers, NEW p \in Pairs, step[t] = "idle",
         ~ Hit(p), GetRate(t, p)
  PROVE  QuotaInv'
<1> DEFINE N == Cardinality(Handlers)
           n == Len(fetches[p])
           k == Cardinality(Asking(p))
<1>1. /\ pair' = [pair EXCEPT ![t] = p]
      /\ fetches' = [fetches EXCEPT ![p] = Append(@, instant)]
      /\ UNCHANGED <<instant, cache>>
  BY DEF GetRate
<1>2. instant \in Nat /\ Ttl \in Nat /\ p # None /\ None \notin Pairs
  BY FxAssumption DEF FxTypeOK
<1>3. pair[t] = None /\ pair \in [Handlers -> Pairs \union {None}]
  BY DEF FxTypeOK
<1>4. /\ fetches[p] \in Seq(0..MaxInstant) /\ n \in Nat
      /\ \A i \in 1..n : fetches[p][i] \in Nat
      /\ fetches'[p] = Append(fetches[p], instant)
      /\ \A q \in Pairs \ {p} : fetches'[q] = fetches[q]
  <2>1. fetches \in [Pairs -> Seq(0..MaxInstant)] /\ fetches[p] \in Seq(0..MaxInstant)
    BY DEF FxTypeOK
  <2>2. n \in Nat /\ \A i \in 1..n : fetches[p][i] \in Nat
    BY <2>1, InstantsAreNat
  <2> QED BY <1>1, <2>1, <2>2
<1>5. /\ Len(fetches'[p]) = n + 1 /\ fetches'[p][n + 1] = instant
      /\ \A i \in 1..n : fetches'[p][i] = fetches[p][i]
  BY <1>2, <1>4
<1>6. /\ Asking(p)' = Asking(p) \union {t} /\ t \notin Asking(p)
      /\ \A q \in Pairs \ {p} : Asking(q)' = Asking(q)
  BY <1>1, <1>2, <1>3 DEF Asking
<1>7. k \in Nat /\ N \in Nat /\ Cardinality(Asking(p)') = k + 1 /\ k + 1 <= N
  <2>1. IsFiniteSet(Asking(p)) /\ k \in Nat /\ N \in Nat
    BY AskingIsFinite
  <2>2. Cardinality(Asking(p) \union {t}) = k + 1
    BY <1>6, <2>1, FS_AddElement
  <2>3. Asking(p) \union {t} \in SUBSET Handlers
    BY DEF Asking
  <2>4. Cardinality(Asking(p) \union {t}) <= N
    BY <2>3, FxAssumption, FS_Subset
  <2> QED BY <1>6, <2>1, <2>2, <2>4
<1> HIDE DEF N, n, k
<1>8. FetchesStored(p)'
  <2>1. \A i \in 1..(n - k) : cache[p] # None /\ fetches[p][i] <= cache[p].stored
    BY DEF QuotaInv, FetchesStored, n, k
  <2>2. (n + 1) - (k + 1) = n - k /\ \A i \in 1..(n - k) : i \in 1..n
    BY <1>4, <1>7
  <2>3. ASSUME NEW i \in 1..(Len(fetches'[p]) - Cardinality(Asking(p)'))
        PROVE  cache'[p] # None /\ fetches'[p][i] <= cache'[p].stored
    <3>1. i \in 1..(n - k) /\ i \in 1..n
      BY <1>5, <1>7, <2>2, <2>3
    <3> QED BY <1>1, <1>5, <2>1, <3>1
  <2> QED BY <2>3 DEF FetchesStored
<1>9. FetchesPast(p)'
  <2>1. \A i \in 1..n : fetches[p][i] <= instant
    BY DEF QuotaInv, FetchesPast, n
  <2>2. \A i \in 1..(n + 1) : i \in 1..n \/ i = n + 1
    BY <1>4
  <2>3. \A i \in 1..(n + 1) : fetches'[p][i] <= instant
    BY <1>2, <1>5, <2>1, <2>2
  <2> QED BY <1>1, <1>5, <2>3 DEF FetchesPast
<1>10. Spaced(p)'
  <2> SUFFICES ASSUME NEW i \in 1..((n + 1) - N)
               PROVE  fetches'[p][i + N] - fetches'[p][i] >= Ttl
    BY <1>5 DEF Spaced, N
  <2>1. i \in 1..n /\ i + N \in 1..(n + 1) /\ i \in Nat
    BY <1>4, <1>7
  <2>2. CASE i + N = n + 1
    <3>1. i \in 1..(n - k)
      BY <1>4, <1>7, <2>1, <2>2
    <3>2. cache[p] # None /\ fetches[p][i] <= cache[p].stored
      BY <3>1 DEF QuotaInv, FetchesStored, n, k
    <3>3. cache[p].stored \in Nat
      BY <3>2 DEF FxTypeOK, Entry
    <3>4. instant - cache[p].stored >= Ttl
      BY <1>2, <3>2, <3>3 DEF Hit
    <3>5. fetches[p][i] \in Nat
      BY <1>4, <2>1
    <3>6. instant - fetches[p][i] >= Ttl
      BY <1>2, <3>2, <3>3, <3>4, <3>5
    <3> QED BY <1>5, <2>1, <2>2, <3>6
  <2>3. CASE i + N # n + 1
    <3>1. i + N \in 1..n /\ i \in 1..(n - N)
      <4>1. n \in Nat /\ N \in Nat
        BY <1>4, <1>7
      <4> QED BY <2>1, <2>3, <4>1
    <3>2. fetches[p][i + N] - fetches[p][i] >= Ttl
      BY <3>1 DEF QuotaInv, Spaced, n, N
    <3> QED BY <1>5, <2>1, <3>1, <3>2
  <2> QED BY <2>2, <2>3
<1>11. ASSUME NEW q \in Pairs \ {p}
       PROVE  FetchesStored(q)' /\ FetchesPast(q)' /\ Spaced(q)'
  BY <1>1, <1>4, <1>6 DEF QuotaInv, FetchesStored, FetchesPast, Spaced
<1> QED BY <1>8, <1>9, <1>10, <1>11 DEF QuotaInv

\* A handler stores: every fetch there was began before now.
LEMMA StoreKeepsQuota ==
  ASSUME CacheInv, QuotaInv, NEW t \in Handlers, Store(t)
  PROVE  QuotaInv'
<1> USE DEF CacheInv
<1>1. PICK p \in Pairs : p = pair[t]
  BY DEF Store, FxTypeOK
<1> DEFINE entry == [rate |-> result[t], stored |-> instant]
<1>2. /\ cache' = [cache EXCEPT ![p] = entry] /\ entry.stored = instant
      /\ pair' = [pair EXCEPT ![t] = None] /\ UNCHANGED <<instant, fetches>>
  BY <1>1 DEF Store, Cached
<1>a. entry # None
  <2>1. entry \in Entry
    BY DEF Store, FxTypeOK, CacheInv, FetchInv, Entry
  <2> QED BY <2>1, FxAssumption
<1> HIDE DEF entry
<1>3. /\ cache'[p] = entry /\ \A q \in Pairs \ {p} : cache'[q] = cache[q]
  BY <1>2 DEF FxTypeOK
<1>4. \A q \in Pairs \ {p} : Asking(q)' = Asking(q)
  BY <1>1, <1>2, FxAssumption DEF Asking, FxTypeOK
<1>5. FetchesStored(p)'
  <2>1. Cardinality(Asking(p)') \in Nat
    BY AskingIsFinite, FxAssumption, FS_Subset, FS_CardinalityType DEF Asking
  <2>2. Len(fetches[p]) \in Nat
    BY DEF FxTypeOK
  <2>3. \A i \in 1..(Len(fetches[p]) - Cardinality(Asking(p)')) : i \in 1..Len(fetches[p])
    BY <2>1, <2>2
  <2> QED BY <1>2, <1>a, <1>3, <2>3 DEF QuotaInv, FetchesStored, FetchesPast
<1>6. FetchesPast(p)' /\ Spaced(p)'
  BY <1>2 DEF QuotaInv, FetchesPast, Spaced
<1>7. ASSUME NEW q \in Pairs \ {p}
      PROVE  FetchesStored(q)' /\ FetchesPast(q)' /\ Spaced(q)'
  BY <1>2, <1>3, <1>4 DEF QuotaInv, FetchesStored, FetchesPast, Spaced
<1> QED BY <1>5, <1>6, <1>7 DEF QuotaInv

LEMMA QuotaNext == CacheInv /\ QuotaInv /\ [FxNext]_fx => QuotaInv'
<1> SUFFICES ASSUME CacheInv, QuotaInv, [FxNext]_fx PROVE QuotaInv'
  OBVIOUS
<1> USE DEF CacheInv
<1>1. instant \in Nat /\ instant <= instant
  BY DEF FxTypeOK
<1>2. CASE Tick
  <2>1. UNCHANGED <<cache, pair, fetches>> /\ instant' \in Nat /\ instant <= instant'
    BY <1>1, <1>2 DEF Tick, locals
  <2> QED BY <2>1, QuotaUnchanged
<1>3. ASSUME NEW t \in Handlers, NEW p \in Pairs, GetRate(t, p) PROVE QuotaInv'
  <2>1. CASE Hit(p)
    <3>1. UNCHANGED <<instant, cache, pair, fetches>>
      BY <1>3, <2>1 DEF GetRate
    <3> QED BY <1>1, <3>1, QuotaUnchanged
  <2>2. CASE ~ Hit(p)
    BY <1>3, <2>2, MissKeepsQuota DEF GetRate
  <2> QED BY <2>1, <2>2
<1>4. ASSUME NEW t \in Handlers, NEW s \in Sources,
             NEW answer \in {"rate", "none", "malformed"}, AskSource(t, s, answer)
      PROVE  QuotaInv'
  <2>1. UNCHANGED <<instant, cache, pair, fetches>>
    BY <1>4 DEF AskSource
  <2> QED BY <1>1, <2>1, QuotaUnchanged
<1>5. ASSUME NEW t \in Handlers, Store(t) PROVE QuotaInv'
  BY <1>5, StoreKeepsQuota
<1>6. CASE UNCHANGED fx
  <2>1. UNCHANGED <<instant, cache, pair, fetches>>
    BY <1>6 DEF fx, locals
  <2> QED BY <1>1, <2>1, QuotaUnchanged
<1> QED BY <1>2, <1>3, <1>4, <1>5, <1>6 DEF FxNext

(* For every pair, no more fetches than there are handlers begin within a  *)
(* time to live (fx_engine.py:87-108): what a cache without a lock costs   *)
(* the sources, up or down.                                                *)
THEOREM FetchesStayBounded == FxSpec => []FetchesBounded
<1>1. QuotaInv => FetchesBounded
  BY DEF QuotaInv, Spaced, FetchesBounded
<1>2. FxInit => CacheInv /\ QuotaInv
  BY CacheInit, QuotaInit
<1>3. CacheInv /\ QuotaInv /\ [FxNext]_fx => (CacheInv /\ QuotaInv)'
  BY CacheNext, QuotaNext
<1> QED BY <1>1, <1>2, <1>3, PTL DEF FxSpec
=============================================================================

------------------------------- MODULE Routing -------------------------------
(* RoutingEngine (routing.py) behind the life of a payment: the routes     *)
(* create_payment_intent finds and filters, the attempt over the best one, *)
(* record_outcome, and get_recovery_routes after each failure.  Payments   *)
(* share the engine, and with it what it learns from outcomes.             *)
(*                                                                         *)
(* Amounts are in hundreds of rupees, fees in paise, fee limits in 0.01 %  *)
(* and in rupees, probabilities in 0.01 %, risk in tenths.  Routes of      *)
(* equal score come in any order: the code iterates over sets.             *)
EXTENDS Integers, FiniteSets, FiniteSetsExt, Providers

CONSTANTS
  Intents,     \* the payment intents clients submit
  Payments,    \* payments under way
  Keepers,     \* those whose caller passes all failures as exclude_providers
  MaxRoutes,   \* find_routes(max_results) of create_payment_intent (5)
  MaxRecovery, \* find_routes(max_results) of get_recovery_routes (10)
  MaxOutcomes, \* bound on outcomes per provider and method
  None

Speeds == <<"instant", "real_time", "t+1", "t+2", "t+3", "weekly">>

Receiver == [country : {"IN", "US"}, currency : Currencies,
             accepts : SUBSET Methods, max_pct : Nat, max_abs : Nat,
             pref : SettlementSpeed]

Route == [payer : Methods, settle : Methods, provider : DOMAIN Registry]

ASSUME RoutingAssumption ==
  /\ \A i \in Intents :
       /\ i.amount \in Nat \ {0} /\ i.currency \in Currencies
       /\ i.methods \subseteq Methods /\ i.receiver \in Receiver
  /\ Keepers \subseteq Payments
  /\ MaxRoutes \in Nat \ {0} /\ MaxRecovery \in Nat \ {0}
  /\ MaxOutcomes \in 1..6 \* the thirds and fifths of 3000 are whole
  /\ None \notin Intents \union Route

VARIABLES
  intent, \* the intent of each payment
  phase,  \* where each payment is
  route,  \* the route attempted last
  tried,  \* history: the providers that failed it
  stats   \* RoutingEngine._success_stats: [ok, all] per provider and payer method

vars == <<intent, phase, route, tried, stats>>

-----------------------------------------------------------------------------
\* accepts_fee, for a positive amount.
AcceptsFee(receiver, fee, amount) ==
  fee <= receiver.max_pct * amount /\ fee <= 100 * receiver.max_abs

RouteFee(r, i) == Fee(Registry[r.provider], r.payer, i.amount)

RouteSpeed(r) ==
  LET p == Registry[r.provider]
  IN IF r.settle \in DOMAIN p.configs THEN p.configs[r.settle].speed ELSE p.speed

SpeedIndex(speed) == CHOOSE n \in 1..6 : Speeds[n] = speed

\* settle_idx > pref_idx + 1
TooSlow(r, i) == SpeedIndex(RouteSpeed(r)) > SpeedIndex(i.receiver.pref) + 1

CrossBorder(i) == i.receiver.currency # i.currency

\* The providers find_routes evaluates for a pair of methods.
ProvidersFor(payer, settle, i) ==
  FindCapable(Registry, payer, i.currency)
    \union (IF CrossBorder(i) THEN FindByCurrency(Registry, i.receiver.currency) ELSE {})
    \union (IF payer # settle
            THEN FindCapable(Registry, settle, i.receiver.currency) ELSE {})

\* Mutant: the receiver's fee limits go unchecked.
EvaluatesAnyFee(r, i) ==
  /\ SupportsMethod(Registry[r.provider], r.settle)
  /\ CrossBorder(i) => <<i.currency, i.receiver.currency>> \in FxPairs

\* _evaluate_route returns a route.
Evaluates(r, i) ==
  /\ SupportsMethod(Registry[r.provider], r.settle)
  /\ AcceptsFee(i.receiver, RouteFee(r, i), i.amount)
  /\ CrossBorder(i) => <<i.currency, i.receiver.currency>> \in FxPairs

\* What find_routes evaluates to a route, for every intent.
Candidates == [i \in Intents |->
  {r \in UNION {[payer : {m}, settle : {s}, provider : ProvidersFor(m, s, i)] :
                m \in i.methods, s \in i.receiver.accepts} : Evaluates(r, i)}]

\* Mutant: an average of 0 passes for no average ("if learned_success").
FalsySuccess(d, payer) ==
  LET base == ConfigOf(Registry[d], payer).success
      s == stats[d][payer]
  IN IF s.ok = 0 THEN 10 * base ELSE 7 * base + (3000 * s.ok) \div s.all

\* success_prob: the table's, or 0.7 of it and 0.3 of what was learned.
SuccessProbability(d, payer) ==
  LET base == ConfigOf(Registry[d], payer).success
      s == stats[d][payer]
  IN IF s.all = 0 THEN 10 * base ELSE 7 * base + (3000 * s.ok) \div s.all

RiskScore(r, i) ==
  (IF i.amount > 1000 THEN 2 ELSE 0) + (IF i.amount > 5000 THEN 3 ELSE 0)
    + (IF i.currency # "INR" THEN 1 ELSE 0) + (IF TooSlow(r, i) THEN 1 ELSE 0)

ComplianceOK(r, i) == ~(i.receiver.country = "IN" /\ r.payer = "crypto")

Infinity == 2147483647

\* The summands of a score that outcomes do not change, and FX twice: it is
\* part of the cost already.
Fixed == [i \in Intents |-> [r \in Candidates[i] |->
  LET fx == IF CrossBorder(i) THEN FxSpread * i.amount ELSE 0
  IN 35 * (RouteFee(r, i) + fx) + 15 * fx
     + i.amount * (30 * Registry[r.provider].latency + 10000 * RiskScore(r, i))]]

\* Mutant: compliance is not looked at.
ScoreAnyway(r, i) ==
  Fixed[i][r] + 25 * i.amount * (10000 - SuccessProbability(r.provider, r.payer))

\* RouteCandidate.score, times the amount.
Score(r, i) ==
  IF ~ComplianceOK(r, i) THEN Infinity
  ELSE Fixed[i][r] + 25 * i.amount * (10000 - SuccessProbability(r.provider, r.payer))

\* float("inf"): the highest score there could be, were every attempt sure
\* to fail, is below it.
ASSUME InfinityAssumption ==
  \A i \in Intents : \A r \in Candidates[i] :
    Fixed[i][r] + 250000 * i.amount < Infinity

Scored(routes, i) == {[route |-> r, score |-> Score(r, i)] : r \in routes}

\* The sets of routes that may come first in an order by score.
Top(max, routes, i) ==
  LET all == Scored(routes, i)
      Rank(c) == Cardinality({o \in all : o.score < c.score})
      sure == {c \in all : Cardinality({o \in all : o.score <= c.score}) <= max}
      maybe == {c \in all \ sure : Rank(c) < max}
  IN {{c.route : c \in sure \union m} : m \in
        IF maybe = {} THEN {{}} ELSE kSubset(max - Cardinality(sure), maybe)}

FindRoutes(i, max) == Top(max, Candidates[i], i)

BestOf(routes, i) ==
  LET all == Scored(routes, i)
  IN {c.route : c \in {b \in all : \A o \in all : b.score <= o.score}}

\* _validate_route, for the receiver of the intent.
Validates(r, i) ==
  /\ r.settle \in i.receiver.accepts
  /\ AcceptsFee(i.receiver, RouteFee(r, i), i.amount)
  /\ ~TooSlow(r, i)

\* Mutant: no slack in the speed comparison.
FilterSlow(routes, i) ==
  {r \in routes : /\ Validates(r, i)
                  /\ SpeedIndex(RouteSpeed(r)) <= SpeedIndex(i.receiver.pref)}

FilterRoutes(routes, i) == {r \in routes : Validates(r, i)}

-----------------------------------------------------------------------------
Init ==
  /\ intent = [p \in Payments |-> None]
  /\ phase = [p \in Payments |-> "new"]
  /\ route = [p \in Payments |-> None]
  /\ tried = [p \in Payments |-> {}]
  /\ stats = [d \in DOMAIN Registry |-> [m \in Methods |-> [ok |-> 0, all |-> 0]]]

\* Mutant: the selected route is set before the routes are filtered.
SubmitUnfiltered(p, i) ==
  /\ phase[p] = "new"
  /\ intent' = [intent EXCEPT ![p] = i]
  /\ \E found \in FindRoutes(i, MaxRoutes) : \E r \in BestOf(found, i) :
       /\ route' = [route EXCEPT ![p] = r]
       /\ phase' = [phase EXCEPT ![p] =
            IF FilterRoutes(found, i) = {} THEN "refused" ELSE "attempting"]
  /\ UNCHANGED <<tried, stats>>

\* create_payment_intent: the best of the routes found and filtered.
Submit(p, i) ==
  /\ phase[p] = "new"
  /\ intent' = [intent EXCEPT ![p] = i]
  /\ \E found \in FindRoutes(i, MaxRoutes) :
       LET kept == FilterRoutes(found, i)
       IN \/ /\ kept = {}
             /\ phase' = [phase EXCEPT ![p] = "refused"] /\ UNCHANGED route
          \/ \E r \in BestOf(kept, i) :
               /\ phase' = [phase EXCEPT ![p] = "attempting"]
               /\ route' = [route EXCEPT ![p] = r]
  /\ UNCHANGED <<tried, stats>>

\* record_outcome(route, success).
Outcome(p, success) ==
  LET r == route[p]
  IN /\ phase[p] = "attempting"
     /\ stats[r.provider][r.payer].all < MaxOutcomes
     /\ stats' = [stats EXCEPT ![r.provider][r.payer] =
          [ok |-> IF success THEN @.ok + 1 ELSE @.ok, all |-> @.all + 1]]
     /\ phase' = [phase EXCEPT ![p] = IF success THEN "succeeded" ELSE "failed"]
     /\ tried' = IF success THEN tried
                 ELSE [tried EXCEPT ![p] = @ \union {r.provider}]
     /\ UNCHANGED <<intent, route>>

\* exclude: what the caller passes, by default nothing, and the failed provider.
Excluded(p) == (IF p \in Keepers THEN tried[p] ELSE {}) \union {route[p].provider}

\* Mutant: one exclude list for all payments (a mutable default argument).
NotTriedByAnyone(routes, p) ==
  {r \in routes : \A q \in Payments : r.provider \notin tried[q]}

\* Mutant: only the route that failed is excluded, not its provider.
NotThatRoute(routes, p) == routes \ {route[p]}

\* The filter of get_recovery_routes.
NotTried(routes, p) == {r \in routes : r.provider \notin Excluded(p)}

\* get_recovery_routes, and the attempt over the first it returns.
Recover(p) ==
  /\ phase[p] = "failed"
  /\ \E found \in FindRoutes(intent[p], MaxRecovery) :
       LET recovery == NotTried(found, p)
       IN \/ /\ recovery = {}
             /\ phase' = [phase EXCEPT ![p] = "gave_up"] /\ UNCHANGED route
          \/ \E r \in BestOf(recovery, intent[p]) :
               /\ phase' = [phase EXCEPT ![p] = "attempting"]
               /\ route' = [route EXCEPT ![p] = r]
  /\ UNCHANGED <<intent, tried, stats>>

Continue(p) == Recover(p) \/ \E success \in BOOLEAN : Outcome(p, success)

Next == \E p \in Payments : Continue(p) \/ \E i \in Intents : Submit(p, i)

Spec == Init /\ [][Next]_vars

-----------------------------------------------------------------------------
Phases == {"new", "refused", "attempting", "failed", "succeeded", "gave_up"}

\* The variables have their types; a payment has a route once it attempted one.
TypeOK ==
  /\ intent \in [Payments -> Intents \union {None}]
  /\ phase \in [Payments -> Phases]
  /\ route \in [Payments -> Route \union {None}]
  /\ tried \in [Payments -> SUBSET DOMAIN Registry]
  /\ stats \in [DOMAIN Registry -> [Methods -> [ok : 0..MaxOutcomes, all : 0..MaxOutcomes]]]
  /\ \A p \in Payments :
       /\ intent[p] = None <=> phase[p] = "new"
       /\ route[p] = None <=> phase[p] \in {"new", "refused"}

(* "Find next best route" (ROUTING.md:110): a retry is over the best route *)
(* there is, as the engine sees it then, through a provider that is not    *)
(* excluded, although get_recovery_routes cuts its list at ten before it   *)
(* takes the excluded ones out.  A caller that passes no failures may go   *)
(* back to one the payment failed over before.                             *)
RetriesTakeNextBest ==
  [][\A p \in Payments : phase[p] = "failed" /\ phase'[p] = "attempting" =>
       /\ route'[p].provider \notin Excluded(p)
       /\ \A r \in Candidates[intent[p]] :
            r.provider \notin Excluded(p) =>
              Score(route'[p], intent[p]) <= Score(r, intent[p])]_vars

(* An attempt settles by a method the receiver accepts, through a provider *)
(* that offers it, at a fee within both limits; the first one is also fast *)
(* enough.  create_payment_intent filters twice, get_recovery_routes       *)
(* relies on _evaluate_route, which does not reject by speed.              *)
AttemptsAcceptable ==
  \A p \in Payments : phase[p] = "attempting" =>
    LET r == route[p]
        i == intent[p]
    IN /\ r.settle \in i.receiver.accepts \intersect Registry[r.provider].methods
       /\ AcceptsFee(i.receiver, RouteFee(r, i), i.amount)
       /\ tried[p] = {} => ~TooSlow(r, i)

(* How far RoutesComply fails: an infinite score only puts a route that is *)
(* not compliant last.  It is attempted when every compliant route is too  *)
(* slow for the receiver or over a provider that failed the payment.       *)
NonCompliantIsLastResort ==
  \A p \in Payments :
    phase[p] = "attempting" /\ ~ComplianceOK(route[p], intent[p]) =>
      \A r \in Candidates[intent[p]] :
        \/ ~ComplianceOK(r, intent[p])
        \/ r.provider \in tried[p]
        \/ TooSlow(r, intent[p])

(* A payment is given up only when every route the engine knows for it is  *)
(* over an excluded provider: for a caller that passes no failures, over   *)
(* the one that has just failed.                                           *)
GivesUpOnlyWhenExhausted ==
  [][\A p \in Payments : phase[p] = "failed" /\ phase'[p] = "gave_up" =>
       \A r \in Candidates[intent[p]] : r.provider \in Excluded(p)]_vars

(* find_routes cuts its list before the receiver's speed is looked at.     *)
(* Still, a payment is refused only if no route would do.                  *)
RefusalsJustified ==
  \A p \in Payments : phase[p] = "refused" =>
    \A r \in Candidates[intent[p]] : ~Validates(r, intent[p])

\* Intents whose lists are long enough, whatever their order: the routes that
\* would not do, or those of the other providers, do not fill one.
RoomToSubmit(i) ==
  \A r \in Candidates[i] : Validates(r, i) =>
    Cardinality({o \in Candidates[i] : ~Validates(o, i)}) < MaxRoutes

RoomToRecover(i) ==
  \A r \in Candidates[i] :
    Cardinality({o \in Candidates[i] : o.provider # r.provider}) < MaxRecovery

(* Outcomes count: a failure never raises the probability of success of    *)
(* the provider's routes with that payer method, and lowers it unless      *)
(* there is nothing left to lose; other routes keep theirs.                *)
FailuresDemote ==
  [][\A p \in Payments : phase[p] = "attempting" /\ phase'[p] = "failed" =>
       LET s == stats[route[p].provider][route[p].payer]
       IN \A d \in DOMAIN Registry, m \in Methods :
            LET old == SuccessProbability(d, m)
                new == SuccessProbability(d, m)'
            IN \/ <<d, m>> # <<route[p].provider, route[p].payer>> /\ new = old
               \/ s.all > 0 /\ s.ok = 0 /\ new = old
               \/ <<d, m>> = <<route[p].provider, route[p].payer>> /\ new < old]_vars

-----------------------------------------------------------------------------
(* Compliance is a "hard filter" (ROUTING.md:120), "R in legally available *)
(* routes" (routing.py:12): every route attempted is compliant.            *)
RoutesComply ==
  \A p \in Payments : phase[p] = "attempting" => ComplianceOK(route[p], intent[p])

(* routing.py:80: a bridge goes "via a provider that accepts both".        *)
BridgesAcceptBoth ==
  \A p \in Payments : phase[p] = "attempting" =>
    route[p].payer \in Registry[route[p].provider].methods
=============================================================================

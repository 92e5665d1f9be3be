---------------------------- MODULE SessionProofs ----------------------------
(* Theorems about a run of the command line: what recovery does with any   *)
(* provider table, intents and bounds, how the history of a transaction    *)
(* accounts for its attempts, and where the graph's paths lead.            *)
EXTENDS Session, FiniteSetTheorems, NumberLemmas, TLAPS

-----------------------------------------------------------------------------
(* What the routing operators return.                                      *)

\* Whatever comes first by score is one of the routes.
LEMMA BestIsOne ==
  ASSUME NEW routes, NEW i, NEW r \in BestOf(routes, i)
  PROVE  r \in routes
<1> DEFINE all == Scored(routes, i)
<1>1. PICK c \in all : r = c.route
  BY DEF BestOf
<1>2. PICK q \in routes : c = [route |-> q, score |-> Score(q, i)]
  BY <1>1 DEF Scored
<1> QED BY <1>1, <1>2

\* The list is cut, never added to.
LEMMA TopWithin ==
  ASSUME NEW max, NEW routes, NEW i, NEW found \in Top(max, routes, i)
  PROVE  found \subseteq routes
<1> DEFINE all == Scored(routes, i)
           Rank(c) == Cardinality({o \in all : o.score < c.score})
           sure == {c \in all : Cardinality({o \in all : o.score <= c.score}) <= max}
           maybe == {c \in all \ sure : Rank(c) < max}
<1>1. PICK m \in (IF maybe = {} THEN {{}} ELSE kSubset(max - Cardinality(sure), maybe)) :
        found = {c.route : c \in sure \union m}
  BY DEF Top
<1>2. m \subseteq all
  BY <1>1 DEF kSubset
<1>3. sure \union m \subseteq all
  BY <1>2
<1> HIDE DEF sure, maybe
<1>4. ASSUME NEW r \in found PROVE r \in routes
  <2>1. PICK c \in all : r = c.route
    BY <1>1, <1>3
  <2>2. PICK q \in routes : c = [route |-> q, score |-> Score(q, i)]
    BY <2>1 DEF Scored
  <2> QED BY <2>1, <2>2
<1> QED BY <1>4

LEMMA FoundAreCandidates ==
  ASSUME NEW i \in Intents, NEW max, NEW found \in FindRoutes(i, max)
  PROVE  found \subseteq Candidates[i]
BY TopWithin DEF FindRoutes

\* What find_routes evaluates.
LEMMA CandidatesEvaluate ==
  ASSUME NEW i \in Intents, NEW r \in Candidates[i]
  PROVE  r \in Route /\ r.settle \in i.receiver.accepts /\ Evaluates(r, i)
<1>1. /\ r \in UNION {[payer : {m}, settle : {s}, provider : ProvidersFor(m, s, i)] :
                        m \in i.methods, s \in i.receiver.accepts}
      /\ Evaluates(r, i)
  BY DEF Candidates
<1>2. PICK m \in i.methods, s \in i.receiver.accepts :
        r \in [payer : {m}, settle : {s}, provider : ProvidersFor(m, s, i)]
  <2> DEFINE Pair(m, s) == [payer : {m}, settle : {s}, provider : ProvidersFor(m, s, i)]
             pairs == {Pair(m, s) : m \in i.methods, s \in i.receiver.accepts}
  <2>1. r \in UNION pairs
    BY <1>1
  <2> HIDE DEF Pair
  <2>2. PICK some \in pairs : r \in some
    BY <2>1
  <2>3. PICK m \in i.methods, s \in i.receiver.accepts : some = Pair(m, s)
    BY <2>2
  <2> QED BY <2>2, <2>3 DEF Pair
<1>3. i.methods \subseteq Methods /\ i.receiver.accepts \subseteq Methods
  BY RoutingAssumption DEF Receiver
<1>4. ProvidersFor(m, s, i) \subseteq DOMAIN Registry
  BY DEF ProvidersFor, FindCapable, FindByCurrency
<1> QED BY <1>1, <1>2, <1>3, <1>4 DEF Route

-----------------------------------------------------------------------------
(* Recovery.  The provider a payment failed over last is one of those that *)
(* failed it, and what is attempted is a candidate of its intent; more     *)
(* outcomes were recorded than successes.                                  *)
Chosen(r, i, failures) ==
  r \in Candidates[i] /\ (failures = {} => ~ TooSlow(r, i))

UnderWay(p) ==
  /\ phase[p] = "new" => tried[p] = {}
  /\ phase[p] = "failed" => route[p].provider \in tried[p]
  /\ phase[p] = "attempting" => Chosen(route[p], intent[p], tried[p])

Learned == \A d \in DOMAIN Registry, m \in Methods : stats[d][m].ok <= stats[d][m].all

RecoveryInv == TypeOK /\ Learned /\ \A p \in Payments : UnderWay(p)

LEMMA RecoveryInit == Init => RecoveryInv
<1> SUFFICES ASSUME Init PROVE RecoveryInv
  OBVIOUS
<1>1. 0 \in 0..MaxOutcomes
  BY RoutingAssumption
<1>2. TypeOK
  <2>1. [ok |-> 0, all |-> 0] \in [ok : 0..MaxOutcomes, all : 0..MaxOutcomes]
    BY <1>1
  <2>2. stats \in [DOMAIN Registry -> [Methods -> [ok : 0..MaxOutcomes, all : 0..MaxOutcomes]]]
    BY <2>1 DEF Init
  <2> QED BY <2>2 DEF Init, TypeOK, Phases
<1>3. Learned
  BY DEF Init, Learned
<1>4. \A p \in Payments : UnderWay(p)
  BY DEF Init, UnderWay
<1> QED BY <1>2, <1>3, <1>4 DEF RecoveryInv

\* A payment another one's step leaves alone.
LEMMA OthersUnderWay ==
  ASSUME NEW q, UnderWay(q), phase'[q] = phase[q], route'[q] = route[q],
         intent'[q] = intent[q], tried'[q] = tried[q]
  PROVE  UnderWay(q)'
BY DEF UnderWay

\* A route to attempt is found, or none is.
Attempts(p) ==
  \/ phase' = [phase EXCEPT ![p] = "attempting"]
       /\ \E r \in Route : route' = [route EXCEPT ![p] = r]
                           /\ Chosen(r, intent'[p], tried[p])
  \/ phase' = [phase EXCEPT ![p] = "refused"] /\ route' = route /\ phase[p] = "new"
  \/ phase' = [phase EXCEPT ![p] = "gave_up"] /\ route' = route /\ phase[p] = "failed"

LEMMA SubmitAttempts ==
  ASSUME RecoveryInv, NEW p \in Payments, NEW i \in Intents, Submit(p, i)
  PROVE  Attempts(p) /\ intent'[p] = i
<1>1. intent' = [intent EXCEPT ![p] = i] /\ phase[p] = "new"
  BY DEF Submit
<1>2. intent'[p] = i /\ tried[p] = {}
  BY <1>1 DEF RecoveryInv, TypeOK, UnderWay
<1>3. PICK found \in FindRoutes(i, MaxRoutes) :
        \/ phase' = [phase EXCEPT ![p] = "refused"] /\ UNCHANGED route
        \/ \E r \in BestOf(FilterRoutes(found, i), i) :
             /\ phase' = [phase EXCEPT ![p] = "attempting"]
             /\ route' = [route EXCEPT ![p] = r]
  BY DEF Submit
<1>4. CASE phase' = [phase EXCEPT ![p] = "refused"] /\ UNCHANGED route
  BY <1>1, <1>2, <1>4 DEF Attempts
<1>5. ASSUME NEW r \in BestOf(FilterRoutes(found, i), i),
             phase' = [phase EXCEPT ![p] = "attempting"],
             route' = [route EXCEPT ![p] = r]
      PROVE  Attempts(p)
  <2>1. r \in found /\ Validates(r, i)
    BY BestIsOne DEF FilterRoutes
  <2>2. r \in Candidates[i] /\ r \in Route
    BY <2>1, FoundAreCandidates, CandidatesEvaluate
  <2>3. Chosen(r, i, {})
    BY <2>1, <2>2 DEF Chosen, Validates
  <2> QED BY <1>2, <1>5, <2>2, <2>3 DEF Attempts
<1> QED BY <1>2, <1>3, <1>4, <1>5

LEMMA RecoverAttempts ==
  ASSUME RecoveryInv, NEW p \in Payments, Recover(p)
  PROVE  Attempts(p)
<1>1. /\ phase[p] = "failed" /\ tried[p] # {} /\ intent' = intent
      /\ intent[p] \in Intents
  BY DEF Recover, RecoveryInv, TypeOK, UnderWay
<1>2. PICK found \in FindRoutes(intent[p], MaxRecovery) :
        \/ phase' = [phase EXCEPT ![p] = "gave_up"] /\ UNCHANGED route
        \/ \E r \in BestOf(NotTried(found, p), intent[p]) :
             /\ phase' = [phase EXCEPT ![p] = "attempting"]
             /\ route' = [route EXCEPT ![p] = r]
  BY DEF Recover
<1>3. CASE phase' = [phase EXCEPT ![p] = "gave_up"] /\ UNCHANGED route
  BY <1>1, <1>3 DEF Attempts
<1>4. ASSUME NEW r \in BestOf(NotTried(found, p), intent[p]),
             phase' = [phase EXCEPT ![p] = "attempting"],
             route' = [route EXCEPT ![p] = r]
      PROVE  Attempts(p)
  <2>1. r \in found
    BY BestIsOne DEF NotTried
  <2>2. r \in Candidates[intent[p]] /\ r \in Route
    BY <1>1, <2>1, FoundAreCandidates, CandidatesEvaluate
  <2>3. Chosen(r, intent[p], tried[p])
    BY <1>1, <2>1, <2>2 DEF Chosen
  <2> QED BY <1>1, <1>4, <2>2, <2>3 DEF Attempts
<1> QED BY <1>2, <1>3, <1>4

LEMMA AttemptsKeepInv ==
  ASSUME RecoveryInv, NEW p \in Payments, NEW i \in Intents, Attempts(p),
         intent' = [intent EXCEPT ![p] = i], UNCHANGED <<tried, stats>>
  PROVE  RecoveryInv'
<1> USE DEF RecoveryInv
<1>1. /\ phase \in [Payments -> Phases] /\ route \in [Payments -> Route \union {None}]
      /\ intent \in [Payments -> Intents \union {None}]
      /\ \A q \in Payments : /\ intent[q] = None <=> phase[q] = "new"
                             /\ route[q] = None <=> phase[q] \in {"new", "refused"}
  BY DEF TypeOK
<1>2. None \notin Intents /\ None \notin Route
  BY RoutingAssumption
<1>3. /\ phase' \in [Payments -> Phases] /\ route' \in [Payments -> Route \union {None}]
      /\ \A q \in Payments \ {p} : phase'[q] = phase[q] /\ route'[q] = route[q]
  BY <1>1 DEF Attempts, Phases
<1>4. /\ intent' \in [Payments -> Intents \union {None}] /\ intent'[p] = i
      /\ \A q \in Payments \ {p} : intent'[q] = intent[q]
  BY <1>1
<1>5. \/ phase'[p] = "attempting" /\ route'[p] \in Route
           /\ Chosen(route'[p], intent'[p], tried[p])
      \/ phase'[p] = "refused" /\ route'[p] = route[p] /\ phase[p] = "new"
      \/ phase'[p] = "gave_up" /\ route'[p] = route[p] /\ phase[p] = "failed"
  BY <1>1 DEF Attempts
<1>6. TypeOK'
  <2>1. /\ intent'[p] = None <=> phase'[p] = "new"
        /\ route'[p] = None <=> phase'[p] \in {"new", "refused"}
    BY <1>1, <1>2, <1>4, <1>5
  <2>2. /\ tried' \in [Payments -> SUBSET DOMAIN Registry]
        /\ stats' \in [DOMAIN Registry -> [Methods -> [ok : 0..MaxOutcomes, all : 0..MaxOutcomes]]]
    BY DEF TypeOK
  <2> QED BY <1>1, <1>3, <1>4, <2>1, <2>2 DEF TypeOK
<1>7. UnderWay(p)'
  BY <1>5 DEF UnderWay
<1>8. \A q \in Payments \ {p} : UnderWay(q)'
  BY <1>3, <1>4, OthersUnderWay
<1>9. Learned'
  BY DEF Learned
<1> QED BY <1>6, <1>7, <1>8, <1>9

\* One outcome is counted where its route says, a success as one.
LEMMA OutcomeCounts ==
  ASSUME RecoveryInv, NEW p \in Payments, NEW success \in BOOLEAN, Outcome(p, success)
  PROVE  /\ Learned'
         /\ stats' \in [DOMAIN Registry -> [Methods -> [ok : 0..MaxOutcomes, all : 0..MaxOutcomes]]]
<1> DEFINE d == route[p].provider
           m == route[p].payer
           s == stats[d][m]
           ok == IF success THEN s.ok + 1 ELSE s.ok
           new == [ok |-> ok, all |-> s.all + 1]
<1>1. /\ stats \in [DOMAIN Registry -> [Methods -> [ok : 0..MaxOutcomes, all : 0..MaxOutcomes]]]
      /\ Learned /\ phase[p] = "attempting"
      /\ route[p] \in Route
  BY DEF RecoveryInv, TypeOK, Outcome
<1>2. d \in DOMAIN Registry /\ m \in Methods
  BY <1>1 DEF Route
<1>3. /\ s \in [ok : 0..MaxOutcomes, all : 0..MaxOutcomes]
      /\ s.all < MaxOutcomes /\ s.ok <= s.all
  BY <1>1, <1>2 DEF Learned, Outcome
<1>4. MaxOutcomes \in Nat
  BY RoutingAssumption
<1>5. ok \in 0..MaxOutcomes /\ s.all + 1 \in 0..MaxOutcomes /\ ok <= s.all + 1
  <2>1. s.ok \in 0..MaxOutcomes /\ s.all \in 0..MaxOutcomes
    BY <1>3
  <2> HIDE DEF s
  <2> QED BY <1>3, <1>4, <2>1
<1>6. stats' = [stats EXCEPT ![d][m] = new]
  BY DEF Outcome
<1>7. new \in [ok : 0..MaxOutcomes, all : 0..MaxOutcomes] /\ new.ok <= new.all
  BY <1>5
<1> HIDE DEF d, m, s, new
<1>8. stats' \in [DOMAIN Registry -> [Methods -> [ok : 0..MaxOutcomes, all : 0..MaxOutcomes]]]
  BY <1>1, <1>2, <1>6, <1>7
<1>9. \A e \in DOMAIN Registry, n \in Methods :
        stats'[e][n] = IF e = d /\ n = m THEN new ELSE stats[e][n]
  BY <1>1, <1>2, <1>6
<1> QED BY <1>1, <1>7, <1>8, <1>9 DEF Learned

LEMMA OutcomeKeepsInv ==
  ASSUME RecoveryInv, NEW p \in Payments, NEW success \in BOOLEAN, Outcome(p, success)
  PROVE  RecoveryInv'
<1> DEFINE next == IF success THEN "succeeded" ELSE "failed"
<1>1. /\ phase[p] = "attempting" /\ phase' = [phase EXCEPT ![p] = next]
      /\ UNCHANGED <<intent, route>>
      /\ tried' = IF success THEN tried
                  ELSE [tried EXCEPT ![p] = @ \union {route[p].provider}]
  BY DEF Outcome
<1>2. TypeOK
  BY DEF RecoveryInv
<1>3. route[p].provider \in DOMAIN Registry
  BY <1>1, <1>2 DEF TypeOK, Route
<1>4. tried' \in [Payments -> SUBSET DOMAIN Registry]
  BY <1>1, <1>2, <1>3 DEF TypeOK
<1>5. phase' \in [Payments -> Phases] /\ phase'[p] = next
      /\ \A q \in Payments \ {p} : phase'[q] = phase[q]
  BY <1>1, <1>2 DEF TypeOK, Phases
<1>6. TypeOK'
  <2>1. \A q \in Payments : /\ intent'[q] = None <=> phase'[q] = "new"
                            /\ route'[q] = None <=> phase'[q] \in {"new", "refused"}
    BY <1>1, <1>2, <1>5 DEF TypeOK
  <2> QED BY <1>1, <1>2, <1>4, <1>5, <2>1, OutcomeCounts DEF TypeOK
<1>7. UnderWay(p)'
  <2>1. ~ success => route'[p].provider \in tried'[p]
    BY <1>1, <1>2 DEF TypeOK
  <2> QED BY <1>5, <2>1 DEF UnderWay
<1>8. \A q \in Payments \ {p} : UnderWay(q)'
  <2>1. \A q \in Payments \ {p} : tried'[q] = tried[q] /\ route'[q] = route[q]
                                  /\ intent'[q] = intent[q]
    BY <1>1, <1>2 DEF TypeOK
  <2> QED BY <1>5, <2>1, OthersUnderWay DEF RecoveryInv
<1> QED BY <1>6, <1>7, <1>8, OutcomeCounts DEF RecoveryInv

LEMMA RecoveryNext == RecoveryInv /\ [Next]_vars => RecoveryInv'
<1> SUFFICES ASSUME RecoveryInv, [Next]_vars PROVE RecoveryInv'
  OBVIOUS
<1>1. ASSUME NEW p \in Payments, NEW i \in Intents, Submit(p, i) PROVE RecoveryInv'
  BY <1>1, SubmitAttempts, AttemptsKeepInv DEF Submit
<1>2. ASSUME NEW p \in Payments, Recover(p) PROVE RecoveryInv'
  <2>1. intent[p] \in Intents /\ intent' = intent /\ UNCHANGED <<tried, stats>>
    BY <1>2 DEF Recover, RecoveryInv, TypeOK
  <2>2. intent' = [intent EXCEPT ![p] = intent[p]]
    BY <2>1 DEF RecoveryInv, TypeOK
  <2> QED BY <1>2, <2>1, <2>2, RecoverAttempts, AttemptsKeepInv
<1>3. ASSUME NEW p \in Payments, NEW success \in BOOLEAN, Outcome(p, success)
      PROVE  RecoveryInv'
  BY <1>3, OutcomeKeepsInv
<1>4. CASE UNCHANGED vars
  BY <1>4 DEF vars, RecoveryInv, TypeOK, Learned, UnderWay
<1> QED BY <1>1, <1>2, <1>3, <1>4 DEF Next, Continue

LEMMA SessionRecovers == SessionSpec => []RecoveryInv
<1>1. SessionInit => RecoveryInv
  BY RecoveryInit DEF SessionInit
<1>2. RecoveryInv /\ [SessionNext]_session => RecoveryInv'
  <2>1. [SessionNext]_session => [Next]_vars
    BY DEF SessionNext, Recovery, Lifecycle, Graph, session
  <2> QED BY <2>1, RecoveryNext
<1> QED BY <1>1, <1>2, PTL DEF SessionSpec

(* The variables of the routing engine have their types, whichever demo    *)
(* runs, for any provider table and any intents.                           *)
THEOREM RecoveryTypeCorrect == SessionSpec => []TypeOK
<1>1. RecoveryInv => TypeOK
  BY DEF RecoveryInv
<1> QED BY <1>1, SessionRecovers, PTL

(* What is attempted, at first or as a retry, the receiver accepts and the *)
(* provider offers, at a fee within the limits (routing.py:128-143).       *)
THEOREM AttemptsStayAcceptable == SessionSpec => []AttemptsAcceptable
<1>1. RecoveryInv => AttemptsAcceptable
  <2> SUFFICES ASSUME RecoveryInv, NEW p \in Payments, phase[p] = "attempting"
               PROVE  LET r == route[p]
                          i == intent[p]
                      IN /\ r.settle \in i.receiver.accepts \intersect Registry[r.provider].methods
                         /\ AcceptsFee(i.receiver, RouteFee(r, i), i.amount)
                         /\ tried[p] = {} => ~TooSlow(r, i)
    BY DEF AttemptsAcceptable
  <2>1. intent[p] \in Intents
    BY DEF RecoveryInv, TypeOK
  <2>2. Chosen(route[p], intent[p], tried[p])
    BY DEF RecoveryInv, UnderWay
  <2>3. /\ route[p].settle \in intent[p].receiver.accepts
        /\ Evaluates(route[p], intent[p])
    BY <2>1, <2>2, CandidatesEvaluate DEF Chosen
  <2> QED BY <2>2, <2>3 DEF Chosen, Evaluates, SupportsMethod
<1> QED BY <1>1, SessionRecovers, PTL

-----------------------------------------------------------------------------
(* Scores.                                                                 *)

LEMMA MethodsFinite == IsFiniteSet(Methods)
<1>1. ASSUME NEW x, NEW y, NEW z PROVE IsFiniteSet({x, y, z})
  <2>1. IsFiniteSet({x} \union {y})
    BY FS_Singleton, FS_Union
  <2>2. IsFiniteSet(({x} \union {y}) \union {z})
    BY <2>1, FS_Singleton, FS_Union
  <2>3. {x, y, z} = ({x} \union {y}) \union {z}
    OBVIOUS
  <2> QED BY <2>2, <2>3
<1>2. IsFiniteSet(({"upi", "visa", "mastercard"} \union {"rupay", "net_banking", "bank_transfer"})
                  \union {"wallet", "paypal", "crypto"})
  BY <1>1, FS_Union
<1>3. Methods = ({"upi", "visa", "mastercard"} \union {"rupay", "net_banking", "bank_transfer"})
                  \union {"wallet", "paypal", "crypto"}
  BY DEF Methods
<1> QED BY <1>2, <1>3

\* There are only so many routes for an intent.
LEMMA CandidatesFinite ==
  ASSUME NEW i \in Intents
  PROVE  IsFiniteSet(Candidates[i])
<1> DEFINE triples == (Methods \X Methods) \X DOMAIN Registry
           routeOf == [t \in triples |-> [payer |-> t[1][1], settle |-> t[1][2], provider |-> t[2]]]
<1>1. IsFiniteSet(triples)
  <2>1. IsFiniteSet(DOMAIN Registry)
    BY RegistryAssumption
  <2>2. IsFiniteSet(Methods \X Methods)
    BY MethodsFinite, FS_Product
  <2> QED BY <2>1, <2>2, FS_Product
<1>2. routeOf \in Surjection(triples, Route)
  <2>1. routeOf \in [triples -> Route]
    BY DEF Route
  <2>2. ASSUME NEW r \in Route PROVE \E t \in triples : routeOf[t] = r
    <3>1. <<<<r.payer, r.settle>>, r.provider>> \in triples
      BY DEF Route
    <3>2. routeOf[<<<<r.payer, r.settle>>, r.provider>>] = r
      BY <3>1 DEF Route
    <3> QED BY <3>1, <3>2
  <2> QED BY <2>1, <2>2 DEF Surjection
<1>3. IsFiniteSet(Route)
  BY <1>1, <1>2, FS_Surjection
<1>4. Candidates[i] \in SUBSET Route
  BY CandidatesEvaluate
<1> QED BY <1>3, <1>4, FS_Subset

\* What the registry holds of a provider,
LEMMA ProviderTypes ==
  ASSUME NEW d \in DOMAIN Registry
  PROVE  /\ Registry[d].latency \in Nat
         /\ Registry[d].currencies \subseteq Currencies
         /\ \A m \in DOMAIN Registry[d].configs :
              Registry[d].configs[m] \in PaymentMethodConfig
BY RegistryAssumption

\* and what it holds, or takes for granted, of a method.
LEMMA ConfigTypes ==
  ASSUME NEW d \in DOMAIN Registry, NEW m
  PROVE  LET c == ConfigOf(Registry[d], m)
         IN c.fixed \in Nat /\ c.percentage \in Nat /\ c.success \in 1..1000
<1>1. DefaultConfig \in PaymentMethodConfig
  <2>1. DefaultConfig = [speed |-> "t+1", fixed |-> 0, percentage |-> 0, success |-> 950]
    BY DEF DefaultConfig, Config
  <2>2. "t+1" \in SettlementSpeed /\ 0 \in Nat /\ 950 \in 1..1000
    BY DEF SettlementSpeed
  <2> QED BY <2>1, <2>2 DEF PaymentMethodConfig
<1>2. ConfigOf(Registry[d], m) \in PaymentMethodConfig
  BY <1>1, ProviderTypes, Zenon DEF ConfigOf
<1> QED BY <1>2 DEF PaymentMethodConfig

\* A share of 3000.
LEMMA ShareBounds ==
  ASSUME NEW ok \in Nat, NEW all \in Nat, ok <= all, all # 0
  PROVE  (3000 * ok) \div all \in Nat /\ (3000 * ok) \div all <= 3000
<1> DEFINE q == (3000 * ok) \div all
<1>1. q \in Int /\ all * q <= 3000 * ok /\ 3000 * ok < all * q + all
  BY DivBounds
<1> HIDE DEF q
<1>2. q >= 0
  <2> SUFFICES ASSUME q <= -1 PROVE FALSE
    BY <1>1
  <2>1. all * q <= -all
    BY <1>1
  <2> QED BY <1>1, <2>1
<1>3. q <= 3000
  <2> SUFFICES ASSUME q >= 3001 PROVE FALSE
    BY <1>1
  <2>1. all * q >= all * 3001
    BY <1>1
  <2> QED BY <1>1, <2>1
<1> QED BY <1>1, <1>2, <1>3 DEF q

LEMMA ProbabilityBounds ==
  ASSUME RecoveryInv, NEW d \in DOMAIN Registry, NEW m \in Methods
  PROVE  SuccessProbability(d, m) \in Nat /\ SuccessProbability(d, m) <= 10000
<1> DEFINE base == ConfigOf(Registry[d], m).success
           s == stats[d][m]
<1>1. base \in 1..1000
  BY ConfigTypes
<1>2. s \in [ok : 0..MaxOutcomes, all : 0..MaxOutcomes] /\ s.ok <= s.all
  BY DEF RecoveryInv, TypeOK, Learned
<1>3. s.ok \in Nat /\ s.all \in Nat
  BY <1>2
<1> HIDE DEF base, s
<1>4. SuccessProbability(d, m)
        = IF s.all = 0 THEN 10 * base ELSE 7 * base + (3000 * s.ok) \div s.all
  BY DEF SuccessProbability, base, s
<1> DEFINE q == (3000 * s.ok) \div s.all
<1>6. s.all # 0 => q \in Nat /\ q <= 3000
  BY <1>2, <1>3, ShareBounds
<1>7. SuccessProbability(d, m) = IF s.all = 0 THEN 10 * base ELSE 7 * base + q
  BY <1>4
<1> HIDE DEF q
<1> QED BY <1>1, <1>3, <1>6, <1>7

\* A compliant route's score is a number below infinity.
LEMMA ScoreBounds ==
  ASSUME RecoveryInv, NEW i \in Intents, NEW r \in Candidates[i]
  PROVE  /\ Score(r, i) \in Nat
         /\ ComplianceOK(r, i) => Score(r, i) < Infinity
         /\ ~ ComplianceOK(r, i) => Score(r, i) = Infinity
<1>1. r \in Route
  BY CandidatesEvaluate
<1>2. r.provider \in DOMAIN Registry /\ r.payer \in Methods
  BY <1>1 DEF Route
<1>3. i.amount \in Nat
  BY RoutingAssumption
<1>4. RouteFee(r, i) \in Nat
  <2> DEFINE c == ConfigOf(Registry[r.provider], r.payer)
  <2>1. c.fixed \in Nat /\ c.percentage \in Nat
    BY <1>2, ConfigTypes
  <2>2. RouteFee(r, i) = 50 * c.fixed + i.amount * c.percentage
    BY DEF RouteFee, Fee
  <2> HIDE DEF c
  <2>3. i.amount * c.percentage \in Nat
    BY <1>3, <2>1
  <2> QED BY <2>1, <2>2, <2>3
<1>5. RiskScore(r, i) \in Nat
  BY <1>3 DEF RiskScore
<1>6. Registry[r.provider].latency \in Nat
  BY <1>2, ProviderTypes
<1>7. Fixed[i][r] \in Nat
  <2> DEFINE fx == IF CrossBorder(i) THEN FxSpread * i.amount ELSE 0
             part == 30 * Registry[r.provider].latency + 10000 * RiskScore(r, i)
  <2>1. fx \in Nat
    BY <1>3 DEF FxSpread
  <2>2. part \in Nat
    BY <1>5, <1>6
  <2>3. Fixed[i][r] = 35 * (RouteFee(r, i) + fx) + 15 * fx + i.amount * part
    BY DEF Fixed
  <2> HIDE DEF fx, part
  <2>4. i.amount * part \in Nat
    BY <1>3, <2>2
  <2> QED BY <1>4, <2>1, <2>3, <2>4
<1>8. Fixed[i][r] + 250000 * i.amount < Infinity
  BY InfinityAssumption
<1> DEFINE sp == SuccessProbability(r.provider, r.payer)
<1>9. sp \in Nat /\ sp <= 10000
  BY <1>2, ProbabilityBounds
<1>10. Score(r, i) = IF ~ ComplianceOK(r, i) THEN Infinity
                     ELSE Fixed[i][r] + 25 * i.amount * (10000 - sp)
  BY DEF Score
<1> HIDE DEF sp
<1>11. 25 * i.amount * (10000 - sp) \in 0..(250000 * i.amount)
  <2>1. PICK rest \in Nat : rest = 10000 - sp /\ rest <= 10000
    BY <1>9
  <2>2. i.amount * rest \in Nat /\ i.amount * rest <= i.amount * 10000
    BY <1>3, <2>1
  <2>3. 25 * i.amount * rest = 25 * (i.amount * rest)
    BY <1>3, <2>1
  <2> QED BY <1>3, <2>1, <2>2, <2>3
<1>12. Infinity \in Nat
  BY DEF Infinity
<1> QED BY <1>3, <1>7, <1>8, <1>10, <1>11, <1>12

-----------------------------------------------------------------------------
(* What a list cut by score keeps.                                         *)

\* Routes and their scored candidates go together.
LEMMA ScoredRoutes ==
  ASSUME NEW routes, NEW i, IsFiniteSet(routes)
  PROVE  /\ IsFiniteSet(Scored(routes, i))
         /\ \A c \in Scored(routes, i) : c.route \in routes /\ c.score = Score(c.route, i)
                                         /\ c = [route |-> c.route, score |-> Score(c.route, i)]
         /\ \A r \in routes : [route |-> r, score |-> Score(r, i)] \in Scored(routes, i)
<1> DEFINE all == Scored(routes, i)
           scored == [r \in routes |-> [route |-> r, score |-> Score(r, i)]]
<1>1. /\ \A c \in all : c.route \in routes /\ c.score = Score(c.route, i)
                        /\ c = [route |-> c.route, score |-> Score(c.route, i)]
      /\ \A r \in routes : [route |-> r, score |-> Score(r, i)] \in all
  BY DEF Scored
<1>2. scored \in Surjection(routes, all)
  BY <1>1 DEF Surjection
<1>3. IsFiniteSet(all)
  BY <1>2, FS_Surjection
<1> QED BY <1>1, <1>3

\* A list of at most max routes, before any of them the better ones.
LEMMA CutKeepsBest ==
  ASSUME NEW i, NEW routes, IsFiniteSet(routes), \A r \in routes : Score(r, i) \in Nat,
         NEW max \in Nat, NEW found \in Top(max, routes, i),
         NEW r \in found, NEW s \in routes \ found
  PROVE  Score(r, i) <= Score(s, i)
<1> DEFINE all == Scored(routes, i)
           Rank(c) == Cardinality({o \in all : o.score < c.score})
           sure == {c \in all : Cardinality({o \in all : o.score <= c.score}) <= max}
           maybe == {c \in all \ sure : Rank(c) < max}
           cr == [route |-> r, score |-> Score(r, i)]
           cs == [route |-> s, score |-> Score(s, i)]
<1>1. PICK m \in (IF maybe = {} THEN {{}} ELSE kSubset(max - Cardinality(sure), maybe)) :
        found = {c.route : c \in sure \union m}
  BY DEF Top
<1>2. m \subseteq maybe
  BY <1>1 DEF kSubset
<1>3. /\ IsFiniteSet(all)
      /\ \A c \in all : c.score \in Nat /\ c = [route |-> c.route, score |-> Score(c.route, i)]
  BY ScoredRoutes
<1>4. r \in routes
  BY TopWithin
<1>5. cr \in all /\ cs \in all
  BY <1>4, ScoredRoutes
<1>6. cr \in sure \union m
  <2>1. PICK c \in sure \union m : r = c.route
    BY <1>1
  <2>2. c = cr
    BY <1>2, <1>3, <2>1
  <2> QED BY <2>1, <2>2
<1>7. cs \notin sure
  <2> SUFFICES ASSUME cs \in sure PROVE FALSE
    OBVIOUS
  <2>1. cs.route \in found
    BY <1>1
  <2> QED BY <2>1
<1> SUFFICES ASSUME Score(s, i) < Score(r, i) PROVE FALSE
  BY <1>4
<1> DEFINE toS == {o \in all : o.score <= cs.score}
           belowR == {o \in all : o.score < cr.score}
           toR == {o \in all : o.score <= cr.score}
<1>8. toS \subseteq belowR /\ belowR \subseteq toR
  BY <1>3, <1>4
<1>9. IsFiniteSet(toR) /\ IsFiniteSet(belowR)
  BY <1>3, FS_Subset
<1>10. Cardinality(toS) <= Cardinality(belowR) /\ Cardinality(belowR) <= Cardinality(toR)
  BY <1>8, <1>9, FS_Subset
<1>11. Cardinality(toS) \in Nat /\ Cardinality(belowR) \in Nat /\ Cardinality(toR) \in Nat
  BY <1>3, FS_Subset, FS_CardinalityType
<1>12. Cardinality(toS) > max
  BY <1>5, <1>7, <1>11
<1>13. CASE cr \in sure
  <2>1. Cardinality(toR) <= max
    BY <1>13
  <2> QED BY <2>1, <1>10, <1>11, <1>12
<1>14. CASE cr \in m
  <2>1. Cardinality(belowR) < max
    BY <1>2, <1>14
  <2> QED BY <2>1, <1>10, <1>11, <1>12
<1> QED BY <1>6, <1>13, <1>14

\* A route is only left out of a full list.
LEMMA CutIsFull ==
  ASSUME NEW i, NEW routes, IsFiniteSet(routes), \A r \in routes : Score(r, i) \in Nat,
         NEW max \in Nat, NEW found \in Top(max, routes, i), NEW s \in routes \ found
  PROVE  IsFiniteSet(found) /\ Cardinality(found) >= max
<1> DEFINE all == Scored(routes, i)
           Rank(c) == Cardinality({o \in all : o.score < c.score})
           sure == {c \in all : Cardinality({o \in all : o.score <= c.score}) <= max}
           maybe == {c \in all \ sure : Rank(c) < max}
           cs == [route |-> s, score |-> Score(s, i)]
<1>1. PICK m \in (IF maybe = {} THEN {{}} ELSE kSubset(max - Cardinality(sure), maybe)) :
        found = {c.route : c \in sure \union m}
  BY DEF Top
<1>2. m \subseteq maybe /\ (maybe # {} => Cardinality(m) = max - Cardinality(sure))
  BY <1>1 DEF kSubset
<1>3. /\ IsFiniteSet(all)
      /\ \A c \in all : c.score \in Nat /\ c = [route |-> c.route, score |-> Score(c.route, i)]
  BY ScoredRoutes
<1>4. cs \in all \ sure
  <2>1. cs \in all
    BY ScoredRoutes
  <2>2. ASSUME cs \in sure PROVE FALSE
    <3>1. cs.route \in found
      BY <1>1, <2>2
    <3> QED BY <3>1
  <2> QED BY <2>1, <2>2
<1> DEFINE kept == sure \union m
<1>5. IsFiniteSet(kept) /\ IsFiniteSet(sure) /\ IsFiniteSet(m) /\ sure \intersect m = {}
  BY <1>2, <1>3, FS_Subset
<1>6. Cardinality(kept) \in Nat /\ Cardinality(sure) \in Nat /\ Cardinality(m) \in Nat
  BY <1>5, FS_CardinalityType
<1>7. Cardinality(kept) >= max
  <2>1. CASE maybe # {}
    <3>1. Cardinality(kept) = Cardinality(sure) + Cardinality(m) - Cardinality(sure \intersect m)
      BY <1>5, FS_Union
    <3>2. Cardinality(sure \intersect m) = 0
      BY <1>5, FS_EmptySet
    <3> HIDE DEF kept, sure, maybe
    <3> QED BY <1>2, <1>6, <2>1, <3>1, <3>2
  <2>2. CASE maybe = {}
    <3> DEFINE left == {c.score : c \in all \ sure}
    <3>1. left \in SUBSET Nat /\ left # {}
      <4>1. cs.score \in left
        BY <1>4
      <4>2. \A n \in left : n \in Nat
        BY <1>3
      <4> QED BY <4>1, <4>2
    <3>2. PICK least \in left : \A n \in left : least <= n
      BY <3>1, LeastNatural
    <3>3. PICK c \in all \ sure : c.score = least
      BY <3>2
    <3> DEFINE below == {o \in all : o.score < c.score}
    <3>4. below \subseteq sure
      <4> SUFFICES ASSUME NEW o \in below, o \notin sure PROVE FALSE
        OBVIOUS
      <4>1. o.score \in left /\ o.score < c.score
        OBVIOUS
      <4> HIDE DEF left
      <4>2. least <= o.score /\ o.score \in Nat /\ c.score \in Nat
        BY <1>3, <3>2, <4>1
      <4> QED BY <3>3, <4>1, <4>2
    <3>5. IsFiniteSet(below) /\ Cardinality(below) \in Nat /\ Cardinality(below) <= Cardinality(sure)
      BY <1>3, <1>5, <3>4, FS_Subset, FS_CardinalityType
    <3>6. ~ (Cardinality(below) < max)
      BY <2>2
    <3>7. Cardinality(sure) <= Cardinality(kept)
      BY <1>5, FS_Subset
    <3> QED BY <1>6, <3>5, <3>6, <3>7
  <2> QED BY <2>1, <2>2
<1> DEFINE routeOf == [c \in kept |-> c.route]
<1>8. kept \subseteq all
  BY <1>2
<1> HIDE DEF kept, all
<1>9. found = {c.route : c \in kept}
  BY <1>1 DEF kept
<1>10. routeOf \in Surjection(kept, found)
  BY <1>9 DEF Surjection
<1>11. routeOf \in Injection(kept, found)
  <2>1. ASSUME NEW c \in kept, NEW d \in kept, routeOf[c] = routeOf[d] PROVE c = d
    <3>1. c.route = d.route
      BY <2>1
    <3> QED BY <1>3, <1>8, <3>1
  <2>2. routeOf \in [kept -> found]
    BY <1>9
  <2> QED BY <2>1, <2>2 DEF Injection, IsInjective
<1>12. IsFiniteSet(found)
  BY <1>5, <1>10, FS_Surjection
<1>13. Cardinality(found) \in Nat /\ Cardinality(kept) <= Cardinality(found)
  BY <1>11, <1>12, FS_Injection, FS_CardinalityType
<1> QED BY <1>6, <1>7, <1>12, <1>13

LEMMA BestIsLeast ==
  ASSUME NEW routes, NEW i, NEW r \in BestOf(routes, i), NEW o \in routes
  PROVE  Score(r, i) <= Score(o, i)
<1> DEFINE all == Scored(routes, i)
<1>1. PICK c \in all : r = c.route /\ \A d \in all : c.score <= d.score
  BY DEF BestOf
<1>2. c.score = Score(r, i)
  BY <1>1 DEF Scored
<1>3. [route |-> o, score |-> Score(o, i)] \in all
  BY DEF Scored
<1> QED BY <1>1, <1>2, <1>3

-----------------------------------------------------------------------------
(* What becomes of the lists: the route taken, and the payments refused    *)
(* and given up.                                                           *)

LEMMA CandidateScores ==
  ASSUME RecoveryInv, NEW i \in Intents
  PROVE  IsFiniteSet(Candidates[i]) /\ \A r \in Candidates[i] : Score(r, i) \in Nat
BY CandidatesFinite, ScoreBounds

\* The best of the routes kept of a list, when it is not compliant: no
\* compliant candidate would have been kept.
LEMMA BestIsLastResort ==
  ASSUME RecoveryInv, NEW i \in Intents, NEW max \in Nat,
         NEW found \in FindRoutes(i, max), NEW kept \in SUBSET found,
         NEW r \in BestOf(kept, i), ~ ComplianceOK(r, i),
         NEW o \in Candidates[i], ComplianceOK(o, i)
  PROVE  o \in found \ kept
<1>1. r \in kept /\ r \in Candidates[i]
  BY BestIsOne, FoundAreCandidates
<1>2. Score(r, i) \in Nat /\ Score(o, i) \in Nat /\ ~ (Score(r, i) <= Score(o, i))
  BY <1>1, ScoreBounds
<1>3. o \in found
  BY <1>1, <1>2, CandidateScores, CutKeepsBest DEF FindRoutes
<1>4. o \notin kept
  BY <1>2, BestIsLeast
<1> QED BY <1>3, <1>4

\* A list that is all of some routes leaves no other out, when these are not
\* enough to fill it.
LEMMA NoneLeftOut ==
  ASSUME RecoveryInv, NEW i \in Intents, NEW max \in Nat,
         NEW found \in FindRoutes(i, max), NEW o \in Candidates[i],
         NEW others \in SUBSET Candidates[i], found \subseteq others,
         Cardinality(others) < max
  PROVE  o \in found
<1> SUFFICES ASSUME o \notin found PROVE FALSE
  OBVIOUS
<1>1. IsFiniteSet(Candidates[i]) /\ IsFiniteSet(others)
  BY CandidateScores, FS_Subset
<1>2. IsFiniteSet(found) /\ Cardinality(found) >= max
  BY CandidateScores, CutIsFull DEF FindRoutes
<1>3. Cardinality(found) <= Cardinality(others)
  BY <1>1, FS_Subset
<1>4. Cardinality(found) \in Nat /\ Cardinality(others) \in Nat
  BY <1>1, <1>2, FS_CardinalityType
<1> QED BY <1>2, <1>3, <1>4

\* What a step may do to a payment.
LEMMA StepOfPayment ==
  ASSUME RecoveryInv, [Next]_vars, NEW p \in Payments
  PROVE  \/ \E i \in Intents : Submit(p, i)
         \/ Recover(p)
         \/ phase'[p] \in {"succeeded", "failed"}
         \/ /\ phase'[p] = phase[p] /\ route'[p] = route[p]
            /\ intent'[p] = intent[p] /\ tried'[p] = tried[p]
<1>1. TypeOK
  BY DEF RecoveryInv
<1>2. ASSUME NEW q \in Payments \ {p}, NEW i \in Intents, Submit(q, i)
      PROVE  /\ phase'[p] = phase[p] /\ route'[p] = route[p]
             /\ intent'[p] = intent[p] /\ tried'[p] = tried[p]
  BY <1>1, <1>2 DEF Submit, TypeOK
<1>3. ASSUME NEW q \in Payments \ {p}, Recover(q)
      PROVE  /\ phase'[p] = phase[p] /\ route'[p] = route[p]
             /\ intent'[p] = intent[p] /\ tried'[p] = tried[p]
  BY <1>1, <1>3 DEF Recover, TypeOK
<1>4. ASSUME NEW q \in Payments, NEW success \in BOOLEAN, Outcome(q, success)
      PROVE  \/ phase'[p] \in {"succeeded", "failed"}
             \/ /\ phase'[p] = phase[p] /\ route'[p] = route[p]
                /\ intent'[p] = intent[p] /\ tried'[p] = tried[p]
  BY <1>1, <1>4 DEF Outcome, TypeOK
<1>5. CASE UNCHANGED vars
  BY <1>5 DEF vars
<1> QED BY <1>2, <1>3, <1>4, <1>5 DEF Next, Continue

\* The routes of the session's engine.
LEMMA SessionRoutes == [SessionNext]_session => [Next]_vars
BY DEF SessionNext, Recovery, Lifecycle, Graph, session

LEMMA LastResortKept ==
  ASSUME RecoveryInv, NonCompliantIsLastResort, [Next]_vars
  PROVE  NonCompliantIsLastResort'
<1> SUFFICES ASSUME NEW p \in Payments, phase'[p] = "attempting",
                    ~ ComplianceOK(route'[p], intent'[p]),
                    NEW o \in Candidates[intent'[p]], ComplianceOK(o, intent'[p])
             PROVE  o.provider \in tried'[p] \/ TooSlow(o, intent'[p])
  BY DEF NonCompliantIsLastResort
<1>1. MaxRoutes \in Nat /\ MaxRecovery \in Nat
  BY RoutingAssumption
<1>2. ASSUME NEW i \in Intents, Submit(p, i) PROVE TooSlow(o, i) /\ intent'[p] = i
  <2>1. intent'[p] = i
    BY <1>2 DEF Submit, RecoveryInv, TypeOK
  <2>2. PICK found \in FindRoutes(i, MaxRoutes) :
          \E r \in BestOf(FilterRoutes(found, i), i) : route' = [route EXCEPT ![p] = r]
    BY <1>2 DEF Submit, RecoveryInv, TypeOK
  <2>3. PICK r \in BestOf(FilterRoutes(found, i), i) : route'[p] = r
    BY <2>2 DEF RecoveryInv, TypeOK
  <2>4. FilterRoutes(found, i) \in SUBSET found
    BY DEF FilterRoutes
  <2>5. o \in found \ FilterRoutes(found, i)
    BY <1>1, <2>1, <2>3, <2>4, BestIsLastResort
  <2>6. o.settle \in i.receiver.accepts /\ Evaluates(o, i)
    BY <2>1, CandidatesEvaluate
  <2> QED BY <2>1, <2>5, <2>6 DEF FilterRoutes, Validates, Evaluates
<1>3. CASE Recover(p)
  <2>1. intent' = intent /\ intent[p] \in Intents /\ tried' = tried
    BY <1>3 DEF Recover, RecoveryInv, TypeOK
  <2>2. PICK found \in FindRoutes(intent[p], MaxRecovery) :
          \E r \in BestOf(NotTried(found, p), intent[p]) : route' = [route EXCEPT ![p] = r]
    BY <1>3 DEF Recover, RecoveryInv, TypeOK
  <2>3. PICK r \in BestOf(NotTried(found, p), intent[p]) : route'[p] = r
    BY <2>2 DEF RecoveryInv, TypeOK
  <2>4. NotTried(found, p) \in SUBSET found
    BY DEF NotTried
  <2>5. o \in found \ NotTried(found, p)
    BY <1>1, <2>1, <2>3, <2>4, BestIsLastResort
  <2>6. Excluded(p) \subseteq tried[p]
    BY <1>3 DEF Excluded, Recover, RecoveryInv, UnderWay
  <2> QED BY <2>1, <2>5, <2>6 DEF NotTried
<1>4. CASE /\ phase'[p] = phase[p] /\ route'[p] = route[p]
           /\ intent'[p] = intent[p] /\ tried'[p] = tried[p]
  BY <1>4 DEF NonCompliantIsLastResort
<1> QED BY <1>2, <1>3, <1>4, StepOfPayment

(* A route that does not comply is attempted for want of any other, for    *)
(* any provider table, any limits of the lists, and whatever the engine    *)
(* has learned: an infinite score (models.py:187-188) is above every       *)
(* other, and a list is cut from its worse end (routing.py:114).           *)
THEOREM NonCompliantComesLast == SessionSpec => []NonCompliantIsLastResort
<1>1. SessionInit => NonCompliantIsLastResort
  BY DEF SessionInit, Init, NonCompliantIsLastResort
<1>2. RecoveryInv /\ NonCompliantIsLastResort /\ [SessionNext]_session
        => NonCompliantIsLastResort'
  BY SessionRoutes, LastResortKept
<1> QED BY <1>1, <1>2, SessionRecovers, PTL DEF SessionSpec

\* The step of one payment that failed.
LEMMA FailedGoesOn ==
  ASSUME RecoveryInv, [Next]_vars, NEW p \in Payments,
         phase[p] = "failed", phase'[p] # "failed"
  PROVE  Recover(p) /\ intent[p] \in Intents
<1>1. intent[p] \in Intents
  BY DEF RecoveryInv, TypeOK
<1>2. ~ \E i \in Intents : Submit(p, i)
  BY DEF Submit
<1>3. ASSUME NEW q \in Payments, NEW success \in BOOLEAN, Outcome(q, success) PROVE FALSE
  <2>1. phase' = [phase EXCEPT ![q] = IF success THEN "succeeded" ELSE "failed"]
        /\ phase[q] = "attempting" /\ phase \in [Payments -> Phases]
    BY <1>3 DEF Outcome, RecoveryInv, TypeOK
  <2>2. q # p
    BY <2>1
  <2> QED BY <2>1, <2>2
<1>4. ASSUME NEW q \in Payments \ {p}, Recover(q) \/ \E i \in Intents : Submit(q, i) PROVE FALSE
  <2>1. phase \in [Payments -> Phases]
    BY DEF RecoveryInv, TypeOK
  <2> QED BY <1>4, <2>1 DEF Recover, Submit
<1> QED BY <1>1, <1>2, <1>3, <1>4 DEF Next, Continue, vars

LEMMA NextBestTaken ==
  ASSUME RecoveryInv, NEW p \in Payments, Recover(p), phase'[p] = "attempting",
         intent[p] \in Intents
  PROVE  /\ route'[p].provider \notin Excluded(p)
         /\ \A o \in Candidates[intent[p]] :
              o.provider \notin Excluded(p) =>
                Score(route'[p], intent[p]) <= Score(o, intent[p])
<1> DEFINE i == intent[p]
<1>1. phase \in [Payments -> Phases] /\ route \in [Payments -> Route \union {None}]
  BY DEF RecoveryInv, TypeOK
<1>2. PICK found \in FindRoutes(i, MaxRecovery) :
        \E r \in BestOf(NotTried(found, p), i) : route' = [route EXCEPT ![p] = r]
  BY <1>1 DEF Recover
<1>3. PICK r \in BestOf(NotTried(found, p), i) : route'[p] = r
  BY <1>1, <1>2
<1>4. r \in found /\ r.provider \notin Excluded(p)
  BY BestIsOne DEF NotTried
<1>5. ASSUME NEW o \in Candidates[i], o.provider \notin Excluded(p)
      PROVE  Score(r, i) <= Score(o, i)
  <2>1. CASE o \in found
    <3>1. o \in NotTried(found, p)
      BY <1>5, <2>1 DEF NotTried
    <3> QED BY <3>1, BestIsLeast
  <2>2. CASE o \notin found
    BY <1>4, <2>2, CandidateScores, CutKeepsBest, RoutingAssumption DEF FindRoutes
  <2> QED BY <2>1, <2>2
<1> QED BY <1>3, <1>4, <1>5

(* "Find next best route" (ROUTING.md:110): a retry is over the best route *)
(* that is not excluded (routing.py:234-249), for any provider table, any  *)
(* limits of the lists, whatever the caller excludes and whatever the      *)
(* engine has learned in between: a cut list keeps its better end.         *)
THEOREM RetriesGoNextBest == SessionSpec => RetriesTakeNextBest
<1>1. ASSUME RecoveryInv, [Next]_vars
      PROVE  [\A p \in Payments : phase[p] = "failed" /\ phase'[p] = "attempting" =>
                /\ route'[p].provider \notin Excluded(p)
                /\ \A r \in Candidates[intent[p]] :
                     r.provider \notin Excluded(p) =>
                       Score(route'[p], intent[p]) <= Score(r, intent[p])]_vars
  BY <1>1, FailedGoesOn, NextBestTaken
<1>2. RecoveryInv /\ [SessionNext]_session =>
        [\A p \in Payments : phase[p] = "failed" /\ phase'[p] = "attempting" =>
           /\ route'[p].provider \notin Excluded(p)
           /\ \A r \in Candidates[intent[p]] :
                r.provider \notin Excluded(p) =>
                  Score(route'[p], intent[p]) <= Score(r, intent[p])]_vars
  BY <1>1, SessionRoutes
<1> QED BY <1>2, SessionRecovers, PTL DEF SessionSpec, RetriesTakeNextBest

LEMMA NothingLeft ==
  ASSUME RecoveryInv, NEW p \in Payments, Recover(p), phase'[p] = "gave_up",
         intent[p] \in Intents, RoomToRecover(intent[p]),
         NEW o \in Candidates[intent[p]]
  PROVE  o.provider \in Excluded(p)
<1> DEFINE i == intent[p]
<1>1. phase \in [Payments -> Phases]
  BY DEF RecoveryInv, TypeOK
<1>2. PICK found \in FindRoutes(i, MaxRecovery) : NotTried(found, p) = {}
  BY <1>1 DEF Recover
<1> SUFFICES ASSUME o.provider \notin Excluded(p) PROVE FALSE
  OBVIOUS
<1> DEFINE others == {r \in Candidates[i] : r.provider # o.provider}
<1>3. found \subseteq others
  BY <1>2, FoundAreCandidates DEF NotTried
<1>4. Cardinality(others) < MaxRecovery
  BY DEF RoomToRecover
<1>5. o \in found
  BY <1>3, <1>4, RoutingAssumption, NoneLeftOut
<1> QED BY <1>3, <1>5

(* Giving up comes last (routing.py:240-249), for every intent whose list  *)
(* of recovery routes other providers do not fill: the code excludes what  *)
(* failed from a list that find_routes has cut already.                    *)
THEOREM GivesUpWhenExhausted ==
  (\A i \in Intents : RoomToRecover(i)) => (SessionSpec => GivesUpOnlyWhenExhausted)
<1> SUFFICES ASSUME \A i \in Intents : RoomToRecover(i)
             PROVE  SessionSpec => GivesUpOnlyWhenExhausted
  OBVIOUS
<1>1. ASSUME RecoveryInv, [Next]_vars
      PROVE  [\A p \in Payments : phase[p] = "failed" /\ phase'[p] = "gave_up" =>
                \A r \in Candidates[intent[p]] : r.provider \in Excluded(p)]_vars
  BY <1>1, FailedGoesOn, NothingLeft
<1>2. RecoveryInv /\ [SessionNext]_session =>
        [\A p \in Payments : phase[p] = "failed" /\ phase'[p] = "gave_up" =>
           \A r \in Candidates[intent[p]] : r.provider \in Excluded(p)]_vars
  BY <1>1, SessionRoutes
<1> QED BY <1>2, SessionRecovers, PTL DEF SessionSpec, GivesUpOnlyWhenExhausted

LEMMA RefusalsKept ==
  ASSUME RecoveryInv, RefusalsJustified, [Next]_vars,
         \A i \in Intents : RoomToSubmit(i)
  PROVE  RefusalsJustified'
<1> SUFFICES ASSUME NEW p \in Payments, phase'[p] = "refused",
                    NEW o \in Candidates[intent'[p]], Validates(o, intent'[p])
             PROVE  FALSE
  BY DEF RefusalsJustified
<1>1. ASSUME NEW i \in Intents, Submit(p, i) PROVE FALSE
  <2>1. intent'[p] = i /\ phase \in [Payments -> Phases]
    BY <1>1 DEF Submit, RecoveryInv, TypeOK
  <2>2. PICK found \in FindRoutes(i, MaxRoutes) : FilterRoutes(found, i) = {}
    BY <1>1, <2>1 DEF Submit
  <2> DEFINE others == {r \in Candidates[i] : ~ Validates(r, i)}
  <2>3. found \subseteq others
    BY <2>2, FoundAreCandidates DEF FilterRoutes
  <2>4. Cardinality(others) < MaxRoutes
    BY <2>1 DEF RoomToSubmit
  <2>5. o \in found
    BY <2>1, <2>3, <2>4, RoutingAssumption, NoneLeftOut
  <2> QED BY <2>1, <2>3, <2>5
<1>2. CASE Recover(p)
  BY <1>2 DEF Recover, RecoveryInv, TypeOK
<1>3. CASE /\ phase'[p] = phase[p] /\ route'[p] = route[p]
           /\ intent'[p] = intent[p] /\ tried'[p] = tried[p]
  BY <1>3 DEF RefusalsJustified
<1> QED BY <1>1, <1>2, <1>3, StepOfPayment

(* A payment is refused for want of a route that would do (api.py:123-144),*)
(* for every intent whose list the routes that would not do cannot fill.   *)
THEOREM RefusalsAreJustified ==
  (\A i \in Intents : RoomToSubmit(i)) => (SessionSpec => []RefusalsJustified)
<1> SUFFICES ASSUME \A i \in Intents : RoomToSubmit(i)
             PROVE  SessionSpec => []RefusalsJustified
  OBVIOUS
<1>1. SessionInit => RefusalsJustified
  BY DEF SessionInit, Init, RefusalsJustified
<1>2. RecoveryInv /\ RefusalsJustified /\ [SessionNext]_session => RefusalsJustified'
  BY SessionRoutes, RefusalsKept
<1> QED BY <1>1, <1>2, SessionRecovers, PTL DEF SessionSpec

-----------------------------------------------------------------------------
(* What the engine learns.                                                 *)

LEMMA DivMultiple ==
  ASSUME NEW a \in Nat, NEW b \in Nat \ {0}
  PROVE  (b * a) \div b = a
BY DivBounds, Z3

\* With few enough outcomes the shares of 3000 are whole.
LEMMA WholeShares ==
  ASSUME NEW ok \in Nat
  PROVE  /\ (3000 * ok) \div 1 = 3000 * ok /\ (3000 * ok) \div 2 = 1500 * ok
         /\ (3000 * ok) \div 3 = 1000 * ok /\ (3000 * ok) \div 4 = 750 * ok
         /\ (3000 * ok) \div 5 = 600 * ok /\ (3000 * ok) \div 6 = 500 * ok
BY Z3

\* One failure more lowers the share of a success.
LEMMA ShareFalls ==
  ASSUME NEW ok \in Nat, NEW all \in 1..5
  PROVE  /\ ok = 0 => (3000 * ok) \div all = 0 /\ (3000 * ok) \div (all + 1) = 0
         /\ ok # 0 => (3000 * ok) \div (all + 1) < (3000 * ok) \div all
         /\ (3000 * ok) \div all \in Int /\ (3000 * ok) \div (all + 1) \in Int
<1>1. all = 1 \/ all = 2 \/ all = 3 \/ all = 4 \/ all = 5
  OBVIOUS
<1>2. CASE all = 1
  BY <1>2, WholeShares
<1>3. CASE all = 2
  BY <1>3, WholeShares
<1>4. CASE all = 3
  BY <1>4, WholeShares
<1>5. CASE all = 4
  BY <1>5, WholeShares
<1>6. CASE all = 5
  BY <1>6, WholeShares
<1> QED BY <1>1, <1>2, <1>3, <1>4, <1>5, <1>6

LEMMA FailureDemotes ==
  ASSUME RecoveryInv, NEW p \in Payments, Outcome(p, FALSE),
         NEW d \in DOMAIN Registry, NEW m \in Methods
  PROVE  LET s == stats[route[p].provider][route[p].payer]
             old == SuccessProbability(d, m)
             new == SuccessProbability(d, m)'
         IN \/ <<d, m>> # <<route[p].provider, route[p].payer>> /\ new = old
            \/ s.all > 0 /\ s.ok = 0 /\ new = old
            \/ <<d, m>> = <<route[p].provider, route[p].payer>> /\ new < old
<1> DEFINE s == stats[route[p].provider][route[p].payer]
           base == ConfigOf(Registry[d], m).success
<1>1. /\ stats \in [DOMAIN Registry -> [Methods -> [ok : 0..MaxOutcomes, all : 0..MaxOutcomes]]]
      /\ Learned /\ route[p] \in Route
  BY DEF RecoveryInv, TypeOK, Outcome
<1>2. route[p].provider \in DOMAIN Registry /\ route[p].payer \in Methods
  BY <1>1 DEF Route
<1>3. stats' = [stats EXCEPT ![route[p].provider][route[p].payer] = [ok |-> s.ok, all |-> s.all + 1]]
  BY DEF Outcome
<1>4. CASE <<d, m>> # <<route[p].provider, route[p].payer>>
  <2>1. stats'[d][m] = stats[d][m]
    BY <1>1, <1>2, <1>3, <1>4
  <2>2. SuccessProbability(d, m)' = SuccessProbability(d, m)
    BY <2>1 DEF SuccessProbability
  <2> QED BY <1>4, <2>2
<1>5. CASE <<d, m>> = <<route[p].provider, route[p].payer>>
  <2>1. stats'[d][m] = [ok |-> s.ok, all |-> s.all + 1] /\ stats[d][m] = s
    BY <1>1, <1>2, <1>3, <1>5
  <2>2. s \in [ok : 0..MaxOutcomes, all : 0..MaxOutcomes] /\ s.ok <= s.all /\ s.all < MaxOutcomes
    BY <1>1, <1>2 DEF Learned, Outcome
  <2>3. s.ok \in Nat /\ s.all \in 0..5 /\ s.ok <= s.all
    BY <2>2, RoutingAssumption
  <2>4. base \in Nat /\ base >= 1
    <3>1. base \in 1..1000
      BY ConfigTypes
    <3> HIDE DEF base
    <3> QED BY <3>1
  <2> HIDE DEF s, base
  <2>5. SuccessProbability(d, m)
          = IF s.all = 0 THEN 10 * base ELSE 7 * base + (3000 * s.ok) \div s.all
    BY <2>1 DEF SuccessProbability, base
  <2>6. SuccessProbability(d, m)' = 7 * base + (3000 * s.ok) \div (s.all + 1)
    <3>1. stats'[d][m].ok = s.ok /\ stats'[d][m].all = s.all + 1
      BY <2>1
    <3>2. s.all + 1 # 0
      BY <2>3
    <3> QED BY <3>1, <3>2 DEF SuccessProbability, base
  <2>7. CASE s.all = 0
    <3>1. s.ok = 0
      BY <2>3, <2>7
    <3>2. (3000 * s.ok) \div (s.all + 1) = 0
      BY <2>7, <3>1, WholeShares
    <3>3. SuccessProbability(d, m)' < SuccessProbability(d, m)
      BY <2>4, <2>5, <2>6, <2>7, <3>2
    <3> QED BY <1>5, <3>3
  <2>8. CASE s.all # 0
    <3> DEFINE was == (3000 * s.ok) \div s.all
               is == (3000 * s.ok) \div (s.all + 1)
    <3>1. /\ s.ok = 0 => is = was
          /\ s.ok # 0 => is < was
          /\ was \in Int /\ is \in Int
      <4>1. s.all \in 1..5
        BY <2>3, <2>8
      <4> QED BY <2>3, <4>1, ShareFalls
    <3>2. SuccessProbability(d, m) = 7 * base + was /\ SuccessProbability(d, m)' = 7 * base + is
      BY <2>5, <2>6, <2>8
    <3> HIDE DEF was, is
    <3>3. /\ s.ok = 0 => SuccessProbability(d, m)' = SuccessProbability(d, m)
          /\ s.ok # 0 => SuccessProbability(d, m)' < SuccessProbability(d, m)
      BY <2>4, <3>1, <3>2
    <3>4. s.all > 0
      BY <2>3, <2>8
    <3> QED BY <1>5, <3>3, <3>4 DEF s
  <2> QED BY <2>7, <2>8
<1> QED BY <1>4, <1>5

(* A failure demotes what failed and nothing else (routing.py:220-232,     *)
(* 158-161): the learned share of the probability of success falls with    *)
(* every failure, as long as there is a share to lose.                     *)
THEOREM EveryFailureDemotes == SessionSpec => FailuresDemote
<1> DEFINE Demotes ==
      \A p \in Payments : phase[p] = "attempting" /\ phase'[p] = "failed" =>
       LET s == stats[route[p].provider][route[p].payer]
       IN \A d \in DOMAIN Registry, m \in Methods :
            LET old == SuccessProbability(d, m)
                new == SuccessProbability(d, m)'
            IN \/ <<d, m>> # <<route[p].provider, route[p].payer>> /\ new = old
               \/ s.all > 0 /\ s.ok = 0 /\ new = old
               \/ <<d, m>> = <<route[p].provider, route[p].payer>> /\ new < old
<1>1. RecoveryInv /\ [SessionNext]_session => [Demotes]_vars
  <2> SUFFICES ASSUME RecoveryInv, [Next]_vars, NEW p \in Payments,
                      phase[p] = "attempting", phase'[p] = "failed",
                      NEW d \in DOMAIN Registry, NEW m \in Methods
               PROVE  LET s == stats[route[p].provider][route[p].payer]
                          old == SuccessProbability(d, m)
                          new == SuccessProbability(d, m)'
                      IN \/ <<d, m>> # <<route[p].provider, route[p].payer>> /\ new = old
                         \/ s.all > 0 /\ s.ok = 0 /\ new = old
                         \/ <<d, m>> = <<route[p].provider, route[p].payer>> /\ new < old
    BY SessionRoutes
  <2>1. phase \in [Payments -> Phases]
    BY DEF RecoveryInv, TypeOK
  <2>2. ASSUME NEW q \in Payments, NEW i \in Intents, Submit(q, i) PROVE FALSE
    BY <2>1, <2>2 DEF Submit
  <2>3. ASSUME NEW q \in Payments, Recover(q) PROVE FALSE
    BY <2>1, <2>3 DEF Recover
  <2>4. ~ UNCHANGED vars
    BY DEF vars
  <2>5. PICK q \in Payments, success \in BOOLEAN : Outcome(q, success)
    BY <2>2, <2>3, <2>4 DEF Next, Continue
  <2>6. q = p /\ success = FALSE
    BY <2>1, <2>5 DEF Outcome
  <2>7. Outcome(p, FALSE)
    BY <2>5, <2>6
  <2> QED BY <2>7, FailureDemotes
<1> QED BY <1>1, SessionRecovers, PTL DEF SessionSpec, FailuresDemote

-----------------------------------------------------------------------------
(* The history of a transaction.                                           *)

LEMMA AllowedPairs ==
  ASSUME NEW from, NEW new \in Allowed(from)
  PROVE  \/ from = "created" /\ new = "intent_validated"
         \/ from = "intent_validated" /\ new = "route_selected"
         \/ from \in {"route_selected", "recovery_attempted"} /\ new = "payment_initiated"
         \/ from = "payment_initiated" /\ new = "payment_processing"
         \/ from \in {"payment_initiated", "payment_processing"} /\ new = "payment_failed"
         \/ from = "payment_processing" /\ new = "payment_success"
         \/ from = "payment_failed" /\ new = "recovery_attempted"
         \/ /\ from \in {"payment_success", "payment_failed", "recovery_attempted"}
            /\ new = "settlement_pending"
         \/ from = "settlement_pending" /\ new = "settled"
         \/ from = "settled" /\ new = "refund_pending"
         \/ from = "refund_pending" /\ new = "refunded"
BY DEF Allowed, ValidTransitions

LEMMA TimesIsNat ==
  ASSUME history \in Seq(TransactionStates), NEW e
  PROVE  Times(e) \in Nat /\ IsFiniteSet({n \in DOMAIN history : history[n] = e})
<1>1. IsFiniteSet(1..Len(history)) /\ DOMAIN history = 1..Len(history)
  BY FS_Interval
<1>2. IsFiniteSet({n \in DOMAIN history : history[n] = e})
  BY <1>1, FS_Subset
<1> QED BY <1>2, FS_CardinalityType DEF Times

LEMMA TimesAfter ==
  ASSUME history \in Seq(TransactionStates), NEW new \in TransactionStates,
         history' = Append(history, new), NEW e
  PROVE  Times(e)' = IF e = new THEN Times(e) + 1 ELSE Times(e)
<1> DEFINE old == {n \in DOMAIN history : history[n] = e}
           now_ == {n \in DOMAIN history' : history'[n] = e}
<1>1. /\ Len(history) \in Nat /\ DOMAIN history = 1..Len(history)
      /\ DOMAIN history' = 1..(Len(history) + 1)
      /\ \A n \in 1..Len(history) : history'[n] = history[n]
      /\ history'[Len(history) + 1] = new
  OBVIOUS
<1>2. now_ = IF e = new THEN old \union {Len(history) + 1} ELSE old
  BY <1>1
<1>3. Len(history) + 1 \notin old
  BY <1>1
<1>4. IsFiniteSet(old)
  BY TimesIsNat
<1> HIDE DEF old, now_
<1>5. e = new => Cardinality(now_) = Cardinality(old) + 1
  BY <1>2, <1>3, <1>4, FS_AddElement
<1> QED BY <1>2, <1>5 DEF Times, old, now_

\* What the state says of the numbers of attempts begun, of successes, of
\* failures and of recoveries in the history.
Book(at, begun, succeeded, failed, recovered) ==
  /\ at \in {"created", "intent_validated", "route_selected"} =>
       begun = 0 /\ succeeded = 0 /\ failed = 0 /\ recovered = 0
  /\ at \in {"payment_initiated", "payment_processing"} =>
       begun = failed + 1 /\ succeeded = 0 /\ recovered = failed
  /\ at = "payment_success" => begun = failed + 1 /\ succeeded = 1 /\ recovered = failed
  /\ at = "payment_failed" => begun = failed /\ succeeded = 0 /\ recovered + 1 = failed
  /\ at = "recovery_attempted" =>
       begun = failed /\ succeeded = 0 /\ recovered = failed /\ failed > 0
  /\ at \in {"settlement_pending", "settled", "refund_pending", "refunded"} =>
       /\ begun = failed + succeeded /\ succeeded <= 1
       /\ recovered <= failed /\ begun <= recovered + 1
       /\ succeeded = 0 => failed > 0

Begun == Times("payment_initiated")
Succeeded == Times("payment_success")
Failed == Times("payment_failed")
Recovered == Times("recovery_attempted")

\* A step from one state to another keeps the book.
LEMMA BookKept ==
  ASSUME NEW at, NEW new \in Allowed(at), NEW b \in Nat, NEW s \in Nat,
         NEW f \in Nat, NEW r \in Nat, Book(at, b, s, f, r)
  PROVE  Book(new, IF new = "payment_initiated" THEN b + 1 ELSE b,
                   IF new = "payment_success" THEN s + 1 ELSE s,
                   IF new = "payment_failed" THEN f + 1 ELSE f,
                   IF new = "recovery_attempted" THEN r + 1 ELSE r)
<1>1. CASE new = "payment_initiated"
  <2>1. at \in {"route_selected", "recovery_attempted"}
    BY <1>1, AllowedPairs
  <2> QED BY <1>1, <2>1 DEF Book
<1>2. CASE new = "payment_success"
  <2>1. at = "payment_processing"
    BY <1>2, AllowedPairs
  <2> QED BY <1>2, <2>1 DEF Book
<1>3. CASE new = "payment_failed"
  <2>1. at \in {"payment_initiated", "payment_processing"}
    BY <1>3, AllowedPairs
  <2> QED BY <1>3, <2>1 DEF Book
<1>4. CASE new = "recovery_attempted"
  <2>1. at = "payment_failed"
    BY <1>4, AllowedPairs
  <2> QED BY <1>4, <2>1 DEF Book
<1>5. CASE new = "settlement_pending"
  <2>1. at \in {"payment_success", "payment_failed", "recovery_attempted"}
    BY <1>5, AllowedPairs
  <2> QED BY <1>5, <2>1 DEF Book
<1>6. CASE \/ at = "created" /\ new = "intent_validated"
           \/ at = "intent_validated" /\ new = "route_selected"
           \/ at = "payment_initiated" /\ new = "payment_processing"
           \/ at = "settlement_pending" /\ new = "settled"
           \/ at = "settled" /\ new = "refund_pending"
           \/ at = "refund_pending" /\ new = "refunded"
  BY <1>6 DEF Book
<1> QED BY <1>1, <1>2, <1>3, <1>4, <1>5, <1>6, AllowedPairs

Closed == {"settled", "refund_pending", "refunded"}

\* What the book says at any state.
LEMMA BookSays ==
  ASSUME NEW at \in TransactionStates, NEW b \in Nat, NEW s \in Nat,
         NEW f \in Nat, NEW r \in Nat, Book(at, b, s, f, r)
  PROVE  /\ b - (s + f) = IF at \in {"payment_initiated", "payment_processing"} THEN 1 ELSE 0
         /\ s <= 1 /\ b <= 1 + r /\ r <= f
         /\ at \in Closed /\ s # 1 => f > 0
<1>1. CASE at \in {"created", "intent_validated", "route_selected"}
  BY <1>1 DEF Book, Closed
<1>2. CASE at \in {"payment_initiated", "payment_processing"}
  BY <1>2 DEF Book, Closed
<1>3. CASE at \in {"payment_success", "payment_failed", "recovery_attempted"}
  BY <1>3 DEF Book, Closed
<1>4. CASE at \in {"settlement_pending", "settled", "refund_pending", "refunded"}
  BY <1>4 DEF Book
<1> QED BY <1>1, <1>2, <1>3, <1>4 DEF TransactionStates

\* The settlement began after a success just when there was one; before it
\* there is nothing to tell.
SettlementFollows ==
  \A n \in DOMAIN history : history[n] = "settlement_pending" =>
    /\ n > 1 /\ state \in Closed \union {"settlement_pending"}
    /\ Succeeded = 1 <=> history[n - 1] = "payment_success"

TransactionInv ==
  /\ state \in TransactionStates /\ history \in Seq(TransactionStates)
  /\ state = IF history = <<>> THEN "created" ELSE history[Len(history)]
  /\ error \in BOOLEAN /\ settled_at \in BOOLEAN
  /\ settled_at <=> state \in Closed
  /\ Book(state, Begun, Succeeded, Failed, Recovered)
  /\ SettlementFollows

LEMMA BookInit == TransactionInit => TransactionInv
<1> SUFFICES ASSUME TransactionInit PROVE TransactionInv
  OBVIOUS
<1>1. state = "created" /\ history = <<>> /\ error = FALSE /\ settled_at = FALSE
  BY DEF TransactionInit
<1>2. DOMAIN history = {}
  BY <1>1
<1>3. \A e : Times(e) = 0
  BY <1>2, FS_EmptySet DEF Times
<1>4. Book(state, Begun, Succeeded, Failed, Recovered)
  BY <1>1, <1>3 DEF Book, Begun, Succeeded, Failed, Recovered
<1>5. SettlementFollows
  BY <1>2 DEF SettlementFollows
<1>6. history \in Seq(TransactionStates)
  BY <1>1
<1>7. state \in TransactionStates /\ state \notin Closed
  BY <1>1 DEF TransactionStates, Closed
<1> QED BY <1>1, <1>4, <1>5, <1>6, <1>7 DEF TransactionInv

LEMMA TransitionKeepsBook ==
  ASSUME TransactionInv, NEW new \in TransactionStates, NEW why \in BOOLEAN,
         Transition(new, why)
  PROVE  TransactionInv'
<1>1. /\ new \in Allowed(state) /\ state' = new /\ history' = Append(history, new)
      /\ error' = (error \/ why) /\ settled_at' = (settled_at \/ new = "settled")
  BY DEF Transition
<1>2. /\ history \in Seq(TransactionStates) /\ state \in TransactionStates
      /\ settled_at <=> state \in Closed
      /\ settled_at \in BOOLEAN /\ error \in BOOLEAN
      /\ state = IF history = <<>> THEN "created" ELSE history[Len(history)]
  BY DEF TransactionInv
<1>3. /\ Begun \in Nat /\ Succeeded \in Nat /\ Failed \in Nat /\ Recovered \in Nat
  BY <1>2, TimesIsNat DEF Begun, Succeeded, Failed, Recovered
<1>4. /\ Begun' = IF new = "payment_initiated" THEN Begun + 1 ELSE Begun
      /\ Succeeded' = IF new = "payment_success" THEN Succeeded + 1 ELSE Succeeded
      /\ Failed' = IF new = "payment_failed" THEN Failed + 1 ELSE Failed
      /\ Recovered' = IF new = "recovery_attempted" THEN Recovered + 1 ELSE Recovered
  BY <1>1, <1>2, TimesAfter DEF Begun, Succeeded, Failed, Recovered
<1>5. Book(state, Begun, Succeeded, Failed, Recovered)
  BY DEF TransactionInv
<1>6. Book(new, Begun', Succeeded', Failed', Recovered')
  BY <1>1, <1>3, <1>4, <1>5, BookKept
<1>7. Book(state, Begun, Succeeded, Failed, Recovered)'
  BY <1>1, <1>6 DEF Book
<1>8. /\ history' \in Seq(TransactionStates) /\ Len(history') = Len(history) + 1
      /\ Len(history) \in Nat /\ DOMAIN history = 1..Len(history)
      /\ DOMAIN history' = 1..(Len(history) + 1)
      /\ history'[Len(history) + 1] = new /\ history' # <<>>
      /\ \A n \in 1..Len(history) : history'[n] = history[n]
  BY <1>1, <1>2
<1>9. settled_at' <=> state' \in Closed
  <2>1. new = "settled" => new \in Closed
    BY DEF Closed
  <2>2. new \in Closed \ {"settled"} <=> state \in Closed /\ new # "settled"
    BY <1>1, AllowedPairs DEF Closed
  <2>3. new # "settled" => (new \in Closed <=> state \in Closed)
    BY <2>2
  <2> QED BY <1>1, <1>2, <2>1, <2>3
<1>10. SettlementFollows'
  <2> SUFFICES ASSUME NEW n \in DOMAIN history', history'[n] = "settlement_pending"
               PROVE  /\ n > 1 /\ new \in Closed \union {"settlement_pending"}
                      /\ Succeeded' = 1 <=> history'[n - 1] = "payment_success"
    BY <1>1 DEF SettlementFollows
  <2>1. CASE n = Len(history) + 1
    <3>1. new = "settlement_pending"
      BY <1>8, <2>1
    <3>2. state \in {"payment_success", "payment_failed", "recovery_attempted"}
      BY <1>1, <3>1, AllowedPairs
    <3>3. history # <<>> /\ history[Len(history)] = state
      BY <1>2, <3>2
    <3>4. Len(history) \in 1..Len(history) /\ n - 1 = Len(history) /\ n > 1
      BY <1>2, <1>8, <2>1, <3>3
    <3>5. history'[n - 1] = state
      BY <1>8, <3>3, <3>4
    <3>6. Succeeded = 1 <=> state = "payment_success"
      BY <1>3, <1>5, <3>2 DEF Book
    <3> QED BY <1>4, <3>1, <3>4, <3>5, <3>6
  <2>2. CASE n \in 1..Len(history)
    <3>1. /\ n > 1 /\ state \in Closed \union {"settlement_pending"}
          /\ Succeeded = 1 <=> history[n - 1] = "payment_success"
      BY <1>8, <2>2 DEF TransactionInv, SettlementFollows
    <3>2. new \in Closed
      BY <1>1, <3>1, AllowedPairs DEF Closed
    <3>3. new # "payment_success"
      BY <3>2 DEF Closed
    <3>4. history'[n - 1] = history[n - 1]
      <4>1. n - 1 \in 1..Len(history)
        BY <1>8, <2>2, <3>1
      <4> QED BY <1>8, <4>1
    <3> QED BY <1>4, <3>1, <3>2, <3>3, <3>4
  <2> QED BY <1>8, <2>1, <2>2
<1> QED BY <1>1, <1>2, <1>7, <1>8, <1>9, <1>10 DEF TransactionInv

LEMMA BookNext == TransactionInv /\ [TransactionNext]_transaction => TransactionInv'
<1> SUFFICES ASSUME TransactionInv, [TransactionNext]_transaction PROVE TransactionInv'
  OBVIOUS
<1>1. CASE \E new \in TransactionStates, why \in BOOLEAN : Transition(new, why)
  BY <1>1, TransitionKeepsBook
<1>2. CASE UNCHANGED transaction
  <2>1. UNCHANGED <<Begun, Succeeded, Failed, Recovered>>
    BY <1>2 DEF transaction, Begun, Succeeded, Failed, Recovered, Times
  <2> QED BY <1>2, <2>1 DEF transaction, TransactionInv, SettlementFollows, Book
<1> QED BY <1>1, <1>2 DEF TransactionNext, RefuseTransition

(* The history of a transaction accounts for its attempts and for why it   *)
(* was settled (models.py:247-271), for histories of any length.           *)
THEOREM HistoryAccounts == SessionSpec => []AttemptsAccounted
<1>1. SessionInit => TransactionInv
  BY BookInit DEF SessionInit
<1>2. TransactionInv /\ [SessionNext]_session => TransactionInv'
  <2>1. [SessionNext]_session => [TransactionNext]_transaction
    BY DEF SessionNext, Recovery, Lifecycle, Graph, session
  <2> QED BY <2>1, BookNext
<1>3. TransactionInv => AttemptsAccounted
  <2> SUFFICES ASSUME TransactionInv PROVE AttemptsAccounted
    OBVIOUS
  <2>1. /\ Begun \in Nat /\ Succeeded \in Nat /\ Failed \in Nat /\ Recovered \in Nat
    BY TimesIsNat DEF TransactionInv, Begun, Succeeded, Failed, Recovered
  <2>2. state \in TransactionStates /\ Book(state, Begun, Succeeded, Failed, Recovered)
    BY DEF TransactionInv
  <2>3. /\ Begun - (Succeeded + Failed)
             = IF state \in {"payment_initiated", "payment_processing"} THEN 1 ELSE 0
        /\ Succeeded <= 1 /\ Begun <= 1 + Recovered /\ Recovered <= Failed
        /\ state \in Closed /\ Succeeded # 1 => Failed > 0
    BY <2>1, <2>2, BookSays
  <2>4. settled_at <=> state \in Closed
    BY DEF TransactionInv
  <2>5. \A n \in DOMAIN history : history[n] = "settlement_pending" =>
          (Succeeded = 1 <=> history[n - 1] = "payment_success")
    BY DEF TransactionInv, SettlementFollows
  <2> QED BY <2>3, <2>4, <2>5
          DEF AttemptsAccounted, Begun, Succeeded, Failed, Recovered, Closed
<1> QED BY <1>1, <1>2, <1>3, PTL DEF SessionSpec

-----------------------------------------------------------------------------
(* The edges of the graph.                                                 *)

NodeOf(call) == <<call[1], call[2].id>>

\* Parties and edges are what the calls that added parties say.
GraphInv ==
  /\ added \in Seq({"receiver", "merchant"} \X Parties)
  /\ parties = {NodeOf(added[n]) : n \in DOMAIN added}
  /\ \A node, t : <<node, t>> \in BagToSet(edges) <=>
       \E n \in DOMAIN added : /\ node = NodeOf(added[n])
                               /\ t \in Targets(added[n][1], added[n][2]) \intersect BuiltNodes
  /\ \A e \in BagToSet(edges) : e = <<e[1], e[2]>>

LEMMA LinksAdded ==
  ASSUME NEW node, NEW targets
  PROVE  BagToSet(edges (+) LinksTo(node, targets))
           = BagToSet(edges) \union {<<node, t>> : t \in targets \intersect BuiltNodes}
BY DEF BagToSet, (+), LinksTo, SetToBag

LEMMA GraphInvInit == GraphInit => GraphInv
<1> SUFFICES ASSUME GraphInit PROVE GraphInv
  OBVIOUS
<1>1. added = <<>> /\ parties = {} /\ BagToSet(edges) = {}
  BY DEF GraphInit, EmptyBag, SetToBag, BagToSet
<1>2. added \in Seq({"receiver", "merchant"} \X Parties) /\ DOMAIN added = {}
  BY <1>1
<1> QED BY <1>1, <1>2 DEF GraphInv

LEMMA PartyKeepsGraph ==
  ASSUME GraphInv, NEW type \in {"receiver", "merchant"}, NEW p \in Parties, AddParty(type, p)
  PROVE  GraphInv'
<1> DEFINE new == <<type, p>>
           last == Len(added) + 1
<1>1. /\ added' = Append(added, new)
      /\ parties' = parties \union {<<type, p.id>>}
      /\ edges' = edges (+) LinksTo(<<type, p.id>>, Targets(type, p))
  BY DEF AddParty
<1>2. added \in Seq({"receiver", "merchant"} \X Parties)
  BY DEF GraphInv
<1>3. /\ added' \in Seq({"receiver", "merchant"} \X Parties)
      /\ DOMAIN added' = DOMAIN added \union {last}
      /\ added'[last] = new /\ \A n \in DOMAIN added : added'[n] = added[n]
  BY <1>1, <1>2
<1>4. NodeOf(new) = <<type, p.id>>
  BY DEF NodeOf
<1>5. BagToSet(edges') = BagToSet(edges)
        \union {<<NodeOf(new), t>> : t \in Targets(type, p) \intersect BuiltNodes}
  BY <1>1, <1>4, LinksAdded
<1> HIDE DEF last
<1>6. parties' = {NodeOf(added'[n]) : n \in DOMAIN added'}
  BY <1>1, <1>3, <1>4 DEF GraphInv
<1>7. ASSUME NEW node, NEW t
      PROVE  <<node, t>> \in BagToSet(edges') <=>
               \E n \in DOMAIN added' :
                 /\ node = NodeOf(added'[n])
                 /\ t \in Targets(added'[n][1], added'[n][2]) \intersect BuiltNodes
  <2>1. <<node, t>> \in BagToSet(edges') <=>
          \/ <<node, t>> \in BagToSet(edges)
          \/ node = NodeOf(new) /\ t \in Targets(type, p) \intersect BuiltNodes
    BY <1>5
  <2>2. <<node, t>> \in BagToSet(edges) <=>
          \E n \in DOMAIN added : /\ node = NodeOf(added[n])
                                  /\ t \in Targets(added[n][1], added[n][2]) \intersect BuiltNodes
    BY DEF GraphInv
  <2>3. new[1] = type /\ new[2] = p
    OBVIOUS
  <2> HIDE DEF new
  <2> QED BY <1>3, <2>1, <2>2, <2>3
<1>8. \A e \in BagToSet(edges') : e = <<e[1], e[2]>>
  BY <1>5 DEF GraphInv
<1>9. Targets(type, p)' = Targets(type, p) /\ BuiltNodes' = BuiltNodes
  OBVIOUS
<1> QED BY <1>3, <1>6, <1>7, <1>8 DEF GraphInv, NodeOf

LEMMA SessionBuilds == SessionSpec => []GraphInv
<1>1. SessionInit => GraphInv
  BY GraphInvInit DEF SessionInit
<1>2. GraphInv /\ [SessionNext]_session => GraphInv'
  <2> SUFFICES ASSUME GraphInv, [SessionNext]_session PROVE GraphInv'
    OBVIOUS
  <2>1. CASE GraphNext
    BY <2>1, PartyKeepsGraph DEF GraphNext
  <2>2. CASE UNCHANGED graph
    BY <2>2 DEF graph, GraphInv, NodeOf
  <2> QED BY <2>1, <2>2 DEF SessionNext, Recovery, Lifecycle, Graph, session
<1> QED BY <1>1, <1>2, PTL DEF SessionSpec

\* What the registry's edges are.
LEMMA BuiltEdge ==
  ASSUME NEW e
  PROVE  e \in BuiltEdges <=>
           \/ \E id \in DOMAIN Registry :
                \/ \E c \in Registry[id].currencies : e = <<<<"provider", id>>, <<"currency", c>>>>
                \/ \E m \in Registry[id].methods : e = <<<<"provider", id>>, <<"method", m>>>>
           \/ \E c \in Corridors : e = <<<<"country", c[1]>>, <<"country", c[2]>>>>
<1> DEFINE Of(id) == {<<<<"provider", id>>, <<"currency", c>>>> : c \in Registry[id].currencies}
             \union {<<<<"provider", id>>, <<"method", m>>>> : m \in Registry[id].methods}
           offers == {Of(id) : id \in DOMAIN Registry}
           corridors == {<<<<"country", c[1]>>, <<"country", c[2]>>>> : c \in Corridors}
<1>1. BuiltEdges = (UNION offers) \union corridors
  BY DEF BuiltEdges
<1>2. ASSUME NEW id
      PROVE  e \in Of(id) <=>
               \/ \E c \in Registry[id].currencies : e = <<<<"provider", id>>, <<"currency", c>>>>
               \/ \E m \in Registry[id].methods : e = <<<<"provider", id>>, <<"method", m>>>>
  OBVIOUS
<1>3. e \in corridors <=>
        \E c \in Corridors : e = <<<<"country", c[1]>>, <<"country", c[2]>>>>
  OBVIOUS
<1> HIDE DEF Of, corridors
<1>4. e \in UNION offers <=> \E id \in DOMAIN Registry : e \in Of(id)
  <2>1. ASSUME NEW id \in DOMAIN Registry, e \in Of(id) PROVE e \in UNION offers
    <3>1. Of(id) \in offers
      OBVIOUS
    <3> QED BY <2>1, <3>1
  <2>2. ASSUME e \in UNION offers PROVE \E id \in DOMAIN Registry : e \in Of(id)
    <3>1. PICK some \in offers : e \in some
      BY <2>2
    <3>2. PICK id \in DOMAIN Registry : some = Of(id)
      BY <3>1
    <3> QED BY <3>1, <3>2
  <2> QED BY <2>1, <2>2
<1>5. e \in BuiltEdges <=> (\E id \in DOMAIN Registry : e \in Of(id)) \/ e \in corridors
  <2>1. e \in BuiltEdges <=> e \in UNION offers \/ e \in corridors
    BY <1>1
  <2> QED BY <1>4, <2>1
<1> QED BY <1>2, <1>3, <1>5

\* A neighbor of a node, by the node's type.
LEMMA Neighbors ==
  ASSUME GraphInv, NEW node \in Nodes, NEW t
  PROVE  t \in Adjacent(node) <=>
           \/ \E n \in DOMAIN added : /\ node = NodeOf(added[n])
                                      /\ t \in Targets(added[n][1], added[n][2]) \intersect BuiltNodes
           \/ node \in BuiltNodes /\ <<node, t>> \in BuiltEdges
<1>1. t \in EdgesFrom(node, BagToSet(edges)) <=> <<node, t>> \in BagToSet(edges)
  BY DEF GraphInv, EdgesFrom
<1>2. t \in EdgesFrom(node, BuiltEdges) <=> <<node, t>> \in BuiltEdges
  BY BuiltEdge DEF EdgesFrom
<1>3. node \in BuiltNodes => BuiltAdjacency[node] = EdgesFrom(node, BuiltEdges)
  BY DEF BuiltAdjacency
<1>4. <<node, t>> \in BagToSet(edges) <=>
        \E n \in DOMAIN added : /\ node = NodeOf(added[n])
                                /\ t \in Targets(added[n][1], added[n][2]) \intersect BuiltNodes
  BY DEF GraphInv
<1> QED BY <1>1, <1>2, <1>3, <1>4 DEF Adjacent

\* Parties are of types of their own.
LEMMA NodeTypes ==
  ASSUME GraphInv
  PROVE  /\ \A node \in BuiltNodes : /\ node = <<node[1], node[2]>>
                                     /\ node[1] \in {"currency", "provider", "method", "country"}
         /\ \A node \in parties : /\ node[1] \in {"receiver", "merchant"}
                                  /\ node \notin BuiltNodes
         /\ \A n \in DOMAIN added : /\ NodeOf(added[n]) \in parties
                                    /\ added[n][1] \in {"receiver", "merchant"}
                                    /\ added[n][2] \in Parties
<1>1. \A node \in BuiltNodes : /\ node = <<node[1], node[2]>>
                               /\ node[1] \in {"currency", "provider", "method", "country"}
  BY DEF BuiltNodes
<1>2. ASSUME NEW n \in DOMAIN added
      PROVE  /\ NodeOf(added[n]) \in parties
             /\ added[n][1] \in {"receiver", "merchant"} /\ added[n][2] \in Parties
             /\ NodeOf(added[n])[1] = added[n][1]
  <2>1. added[n] \in {"receiver", "merchant"} \X Parties
    BY DEF GraphInv
  <2> QED BY <2>1 DEF GraphInv, NodeOf
<1>3. \A node \in parties : node[1] \in {"receiver", "merchant"}
  BY <1>2 DEF GraphInv
<1> QED BY <1>1, <1>2, <1>3

\* How many edges may still follow a node.
Height(node) ==
  IF node[1] \in {"receiver", "merchant"} THEN 4
  ELSE IF node = <<"country", "IN">> THEN 3
  ELSE IF node = <<"country", "US">> THEN 2
  ELSE IF node = <<"country", "EU">> \/ node[1] = "provider" THEN 1
  ELSE 0

\* Every edge leads to a node of the registry, and down.
LEMMA EdgesDescend ==
  ASSUME GraphInv, NEW node \in Nodes, NEW t \in Adjacent(node)
  PROVE  t \in BuiltNodes /\ Height(t) \in Nat /\ Height(t) < Height(node)
<1>1. ASSUME NEW n \in DOMAIN added, node = NodeOf(added[n]),
             t \in Targets(added[n][1], added[n][2]) \intersect BuiltNodes
      PROVE  t \in BuiltNodes /\ Height(t) \in Nat /\ Height(t) < Height(node)
  <2>1. node[1] \in {"receiver", "merchant"}
    BY <1>1, NodeTypes
  <2>2. t[1] \notin {"receiver", "merchant"}
    BY <1>1, NodeTypes
  <2> QED BY <1>1, <2>1, <2>2 DEF Height
<1>2. ASSUME node \in BuiltNodes, <<node, t>> \in BuiltEdges
      PROVE  t \in BuiltNodes /\ Height(t) \in Nat /\ Height(t) < Height(node)
  <2>1. ASSUME NEW id \in DOMAIN Registry, node = <<"provider", id>>,
               NEW c \in Registry[id].currencies, t = <<"currency", c>>
        PROVE  t \in BuiltNodes /\ Height(t) = 0 /\ Height(node) = 1
    <3>1. c \in Currencies
      BY ProviderTypes
    <3> QED BY <2>1, <3>1 DEF Height, BuiltNodes
  <2>2. ASSUME NEW id \in DOMAIN Registry, node = <<"provider", id>>,
               NEW m \in Registry[id].methods, t = <<"method", m>>
        PROVE  t \in BuiltNodes /\ Height(t) = 0 /\ Height(node) = 1
    <3>1. m \in SupportedMethods
      BY DEF SupportedMethods
    <3> QED BY <2>2, <3>1 DEF Height, BuiltNodes
  <2>3. ASSUME NEW c \in Corridors, node = <<"country", c[1]>>, t = <<"country", c[2]>>
        PROVE  t \in BuiltNodes /\ Height(t) \in Nat /\ Height(t) < Height(node)
    <3>1. c[2] \in Countries
      BY DEF Corridors, Countries
    <3>2. t \in BuiltNodes
      BY <2>3, <3>1 DEF BuiltNodes
    <3>3. Height(t) \in Nat /\ Height(t) < Height(node)
      BY <2>3 DEF Height, Corridors
    <3> QED BY <3>2, <3>3
  <2>4. \/ \E id \in DOMAIN Registry :
             /\ node = <<"provider", id>>
             /\ \/ \E c \in Registry[id].currencies : t = <<"currency", c>>
                \/ \E m \in Registry[id].methods : t = <<"method", m>>
        \/ \E c \in Corridors : node = <<"country", c[1]>> /\ t = <<"country", c[2]>>
    BY <1>2, BuiltEdge
  <2> QED BY <2>1, <2>2, <2>3, <2>4
<1> QED BY <1>1, <1>2, Neighbors

-----------------------------------------------------------------------------
(* The rounds of a search: found in round k, queue after it and visited.   *)

NeighborsOf(nodes) == UNION {Adjacent(n) : n \in nodes}

SearchRun(source, found, queue, visited) ==
  /\ DOMAIN found = 1..4
  /\ queue[0] = {source} /\ visited[0] = {source}
  /\ \A k \in 0..3 : /\ found[k + 1] = NeighborsOf(queue[k])
                     /\ queue[k + 1] = found[k + 1] \ visited[k]
                     /\ visited[k + 1] = visited[k] \union found[k + 1]

LEMMA AppendNext ==
  ASSUME NEW n \in Nat, NEW f
  PROVE  Append([k \in 1..n |-> f[k]], f[n + 1]) = [k \in 1..(n + 1) |-> f[k]]
<1> DEFINE S == {f[k] : k \in 1..(n + 1)}
           s == [k \in 1..n |-> f[k]]
           t == Append(s, f[n + 1])
<1>1. s \in Seq(S) /\ Len(s) = n /\ f[n + 1] \in S
  OBVIOUS
<1>2. \A k \in 1..n : s[k] = f[k]
  OBVIOUS
<1> HIDE DEF S, s
<1>3. t \in Seq(S) /\ Len(t) = n + 1 /\ t[n + 1] = f[n + 1] /\ \A k \in 1..n : t[k] = s[k]
  BY <1>1
<1>4. t = [k \in 1..(n + 1) |-> t[k]]
  BY <1>3
<1>5. \A k \in 1..(n + 1) : t[k] = f[k]
  BY <1>2, <1>3
<1> HIDE DEF t
<1> QED BY <1>4, <1>5 DEF t, s

LEMMA SearchRounds ==
  ASSUME NEW source
  PROVE  \E queue, visited : SearchRun(source, Search(source), queue, visited)
<1> DEFINE start == [queue |-> {source}, visited |-> {source}, found |-> <<>>]
           one == Round(start)
           two == Round(one)
           three == Round(two)
           four == Round(three)
           After == CHOOSE f : f = [k \in 0..MaxDepth |-> IF k = 0 THEN start ELSE Round(f[k - 1])]
           run == [k \in 0..MaxDepth |-> IF k = 0 THEN start ELSE IF k = 1 THEN one
                     ELSE IF k = 2 THEN two ELSE IF k = 3 THEN three ELSE four]
<1>1. MaxDepth = 4
  BY DEF MaxDepth
<1>2. run = [k \in 0..MaxDepth |-> IF k = 0 THEN start ELSE Round(run[k - 1])]
  <2> HIDE DEF start, one, two, three, four
  <2>1. \A k \in 0..MaxDepth : k = 0 \/ k = 1 \/ k = 2 \/ k = 3 \/ k = 4
    BY <1>1
  <2>2. /\ run[0] = start /\ run[1] = one /\ run[2] = two /\ run[3] = three /\ run[4] = four
    BY <1>1
  <2>3. one = Round(start) /\ two = Round(one) /\ three = Round(two) /\ four = Round(three)
    BY DEF one, two, three, four
  <2>4. \A k \in 0..MaxDepth : run[k] = IF k = 0 THEN start ELSE Round(run[k - 1])
    BY <2>1, <2>2, <2>3
  <2> QED BY <2>4
<1>3. After = [k \in 0..MaxDepth |-> IF k = 0 THEN start ELSE Round(After[k - 1])]
  <2> HIDE DEF start, run
  <2> QED BY <1>2
<1>4. Search(source) = After[MaxDepth].found
  BY DEF Search
<1> HIDE DEF After
<1>5. Search(source) = four.found
  <2> HIDE DEF start
  <2>1. After[0] = start
    BY <1>1, <1>3
  <2>2. After[1] = one
    BY <1>1, <1>3, <2>1
  <2> HIDE DEF one
  <2>3. After[2] = two
    BY <1>1, <1>3, <2>2
  <2> HIDE DEF two
  <2>4. After[3] = three
    BY <1>1, <1>3, <2>3
  <2> HIDE DEF three
  <2>5. After[4] = four
    BY <1>1, <1>3, <2>4
  <2> QED BY <1>1, <1>4, <2>5
<1> DEFINE queue == [k \in 0..4 |-> run[k].queue]
           visited == [k \in 0..4 |-> run[k].visited]
           found == [k \in 1..4 |-> NeighborsOf(queue[k - 1])]
<1>6. ASSUME NEW search
      PROVE  /\ Round(search).queue = NeighborsOf(search.queue) \ search.visited
             /\ Round(search).visited = search.visited \union NeighborsOf(search.queue)
             /\ Round(search).found = Append(search.found, NeighborsOf(search.queue))
  BY DEF Round, NeighborsOf
<1>7. \A k \in 0..3 : run[k + 1] = Round(run[k])
  BY <1>1, <1>2
<1>8. run[0] = start /\ run[4] = four
  BY <1>1
<1>9. start.found = <<>> /\ start.queue = {source} /\ start.visited = {source}
  OBVIOUS
<1> HIDE DEF run, four, start
<1>10. \A k \in 0..3 : /\ found[k + 1] = NeighborsOf(queue[k])
                       /\ queue[k + 1] = found[k + 1] \ visited[k]
                       /\ visited[k + 1] = visited[k] \union found[k + 1]
  BY <1>6, <1>7
<1>11. four.found = found
  <2>1. ASSUME NEW k \in 0..3
        PROVE  run[k + 1].found = Append(run[k].found, found[k + 1])
    <3>1. found[k + 1] = NeighborsOf(run[k].queue)
      OBVIOUS
    <3> QED BY <1>6, <1>7, <3>1
  <2> DEFINE first(n) == [k \in 1..n |-> found[k]]
  <2>2. ASSUME NEW k \in 0..3, run[k].found = first(k)
        PROVE  run[k + 1].found = first(k + 1)
    <3> HIDE DEF found
    <3>1. Append(first(k), found[k + 1]) = first(k + 1)
      BY AppendNext
    <3>2. run[k + 1].found = Append(first(k), found[k + 1])
      <4> HIDE DEF first
      <4> QED BY <2>1, <2>2
    <3> QED BY <3>1, <3>2
  <2>3. run[0].found = first(0)
    BY <1>8, <1>9
  <2> HIDE DEF first
  <2>4. run[1].found = first(1)
    BY <2>2, <2>3
  <2>5. run[2].found = first(2)
    BY <2>2, <2>4
  <2>6. run[3].found = first(3)
    BY <2>2, <2>5
  <2>7. run[4].found = first(4)
    BY <2>2, <2>6
  <2> QED BY <1>8, <2>7 DEF first
<1>12. queue[0] = {source} /\ visited[0] = {source} /\ DOMAIN found = 1..4
  BY <1>8, <1>9
<1> HIDE DEF queue, visited, found
<1>13. SearchRun(source, found, queue, visited)
  BY <1>10, <1>12 DEF SearchRun
<1> QED BY <1>5, <1>11, <1>13

\* The length of a path is the first round its end is found in.
LEMMA PathLengths ==
  ASSUME NEW source, NEW queue, NEW visited,
         SearchRun(source, Search(source), queue, visited), NEW n \in Nodes
  PROVE  LET found == Search(source)
             length == PathsFrom(source)[n]
         IN /\ length = NoPath <=> \A k \in 1..4 : n \notin found[k]
            /\ length # NoPath =>
                 length \in 1..4 /\ n \in found[length] /\ \A k \in 1..4 : n \in found[k] => length <= k
<1> DEFINE found == Search(source)
           rounds == {k \in DOMAIN found : n \in found[k]}
           length == PathsFrom(source)[n]
<1>1. DOMAIN found = 1..4
  BY DEF SearchRun
<1>2. length = IF rounds = {} THEN NoPath ELSE Min(rounds)
  BY DEF PathsFrom
<1>3. rounds \in SUBSET Nat /\ \A k \in rounds : k \in 1..4 /\ n \in found[k]
  BY <1>1
<1>4. \A k \in 1..4 : n \in found[k] => k \in rounds
  BY <1>1
<1> HIDE DEF found, rounds, length
<1>5. CASE rounds = {}
  BY <1>2, <1>4, <1>5 DEF found, length
<1>6. CASE rounds # {}
  <2>1. \E m \in rounds : \A k \in rounds : m <= k
    BY <1>3, <1>6, LeastNatural
  <2>2. Min(rounds) \in rounds /\ \A k \in rounds : Min(rounds) <= k
    BY <2>1 DEF Min
  <2>3. length \in 1..4 /\ n \in found[length] /\ \A k \in 1..4 : n \in found[k] => length <= k
    BY <1>2, <1>3, <1>4, <1>6, <2>2
  <2>4. length # NoPath
    BY <2>3 DEF NoPath
  <2> QED BY <2>3, <2>4 DEF found, length
<1> QED BY <1>5, <1>6

\* What is found is in the registry's graph, and lower with every round.
LEMMA RoundsDescend ==
  ASSUME GraphInv, NEW source \in Nodes, NEW found, NEW queue, NEW visited,
         SearchRun(source, found, queue, visited)
  PROVE  /\ \A k \in 1..4 : found[k] \subseteq BuiltNodes
         /\ \A k \in 0..4 : \A n \in queue[k] : n \in Nodes /\ Height(n) \in Nat /\ Height(n) <= 4 - k
<1> DEFINE Low(k) == \A n \in queue[k] : n \in Nodes /\ Height(n) \in Nat /\ Height(n) <= 4 - k
<1>1. BuiltNodes \subseteq Nodes
  BY DEF Nodes
<1>2. Low(0)
  <2>1. queue[0] = {source}
    BY DEF SearchRun
  <2>2. Height(source) \in Nat /\ Height(source) <= 4
    BY DEF Height
  <2> QED BY <2>1, <2>2
<1>3. ASSUME NEW k \in 0..3, Low(k) PROVE Low(k + 1) /\ found[k + 1] \subseteq BuiltNodes
  <2>1. ASSUME NEW n \in found[k + 1]
        PROVE  n \in BuiltNodes /\ Height(n) \in Nat /\ Height(n) <= 4 - (k + 1)
    <3>1. n \in NeighborsOf(queue[k])
      BY DEF SearchRun
    <3>2. PICK m \in queue[k] : n \in Adjacent(m)
      BY <3>1 DEF NeighborsOf
    <3>3. m \in Nodes /\ Height(m) \in Nat /\ Height(m) <= 4 - k
      BY <1>3
    <3>4. n \in BuiltNodes /\ Height(n) \in Nat /\ Height(n) < Height(m)
      BY <3>2, <3>3, EdgesDescend
    <3> QED BY <3>3, <3>4
  <2>2. queue[k + 1] \subseteq found[k + 1]
    BY DEF SearchRun
  <2> QED BY <1>1, <2>1, <2>2
<1> HIDE DEF Low
<1>4. Low(1) /\ found[1] \subseteq BuiltNodes
  BY <1>2, <1>3
<1>5. Low(2) /\ found[2] \subseteq BuiltNodes
  BY <1>3, <1>4
<1>6. Low(3) /\ found[3] \subseteq BuiltNodes
  BY <1>3, <1>5
<1>7. Low(4) /\ found[4] \subseteq BuiltNodes
  BY <1>3, <1>6
<1>8. \A k \in 0..4 : Low(k)
  BY <1>2, <1>4, <1>5, <1>6, <1>7
<1>9. \A k \in 1..4 : found[k] \subseteq BuiltNodes
  BY <1>4, <1>5, <1>6, <1>7
<1> QED BY <1>8, <1>9 DEF Low

\* Visited is what was found so far; the queue, what was first found last.
LEMMA RoundsVisit ==
  ASSUME NEW source, NEW found, NEW queue, NEW visited,
         SearchRun(source, found, queue, visited)
  PROVE  /\ queue[0] = {source}
         /\ \A k \in 1..4 : \A n :
              n \in queue[k] <=> /\ n \in found[k] /\ n # source
                                 /\ \A j \in 1..(k - 1) : n \notin found[j]
         /\ \A k \in 1..4 : \A n :
              n \in found[k] <=> \E m \in queue[k - 1] : n \in Adjacent(m)
<1> DEFINE Seen(k) == \A n : n \in visited[k] <=> n = source \/ \E j \in 1..k : n \in found[j]
<1>1. Seen(0)
  BY DEF SearchRun
<1>2. ASSUME NEW k \in 0..3, Seen(k) PROVE Seen(k + 1)
  BY <1>2 DEF SearchRun
<1> HIDE DEF Seen
<1>3. Seen(1)
  BY <1>1, <1>2
<1>4. Seen(2)
  BY <1>2, <1>3
<1>5. Seen(3)
  BY <1>2, <1>4
<1>6. \A k \in 0..3 : Seen(k)
  BY <1>1, <1>3, <1>4, <1>5
<1>7. ASSUME NEW k \in 1..4, NEW n
      PROVE  /\ n \in queue[k] <=> /\ n \in found[k] /\ n # source
                                   /\ \A j \in 1..(k - 1) : n \notin found[j]
             /\ n \in found[k] <=> \E m \in queue[k - 1] : n \in Adjacent(m)
  <2>1. k - 1 \in 0..3 /\ k = (k - 1) + 1
    OBVIOUS
  <2>2. found[k] = NeighborsOf(queue[k - 1]) /\ queue[k] = found[k] \ visited[k - 1]
    BY <2>1 DEF SearchRun
  <2>3. n \in visited[k - 1] <=> n = source \/ \E j \in 1..(k - 1) : n \in found[j]
    BY <1>6, <2>1 DEF Seen
  <2>4. n \in NeighborsOf(queue[k - 1]) <=> \E m \in queue[k - 1] : n \in Adjacent(m)
    BY DEF NeighborsOf
  <2> QED BY <2>2, <2>3, <2>4
<1> QED BY <1>7 DEF SearchRun

\* What a search from a node finds: its neighbors, one edge away; the neighbors
\* of whatever it finds, one edge more; and nothing else.
LEMMA PathsSpread ==
  ASSUME GraphInv, NEW source \in Nodes
  PROVE  LET paths == PathsFrom(source)
             reached == {n \in Nodes : paths[n] # NoPath}
             Hops(n) == IF n = source THEN 0 ELSE paths[n]
         IN /\ \A n \in reached \union {source} : \A next \in Adjacent(n) :
                 next \in reached /\ paths[next] <= Hops(n) + 1
            /\ \A n \in reached : \E before \in reached \union {source} :
                 n \in Adjacent(before) /\ paths[n] = Hops(before) + 1
            /\ \A n \in reached : paths[n] \in 1..4
<1> DEFINE paths == PathsFrom(source)
           reached == {n \in Nodes : paths[n] # NoPath}
           Hops(n) == IF n = source THEN 0 ELSE paths[n]
           found == Search(source)
<1>1. PICK queue, visited : SearchRun(source, found, queue, visited)
  BY SearchRounds
<1>2. ASSUME NEW n \in Nodes
      PROVE  /\ n \in reached <=> \E k \in 1..4 : n \in found[k]
             /\ n \in reached => /\ paths[n] \in 1..4 /\ n \in found[paths[n]]
                                 /\ \A k \in 1..4 : n \in found[k] => paths[n] <= k
  BY <1>1, PathLengths
<1>3. /\ \A k \in 1..4 : found[k] \subseteq Nodes
      /\ \A n \in queue[4] : n \in Nodes /\ Height(n) \in Nat /\ Height(n) <= 0
  BY <1>1, RoundsDescend DEF Nodes
<1>4. /\ queue[0] = {source}
      /\ \A k \in 1..4 : \A n :
           n \in queue[k] <=> /\ n \in found[k] /\ n # source
                              /\ \A j \in 1..(k - 1) : n \notin found[j]
      /\ \A k \in 1..4 : \A n :
           n \in found[k] <=> \E m \in queue[k - 1] : n \in Adjacent(m)
  BY <1>1, RoundsVisit
<1> HIDE DEF found, paths
<1>5. \A n \in reached : n \in Nodes
  OBVIOUS
<1> HIDE DEF reached
\* A node is in the queue after the round that finds it first.
<1>6. ASSUME NEW n \in reached \union {source}
      PROVE  Hops(n) \in 0..4 /\ n \in queue[Hops(n)]
  <2>1. CASE n = source
    BY <1>4, <2>1
  <2>2. CASE n # source
    <3>1. n \in Nodes /\ n \in reached /\ Hops(n) = paths[n]
      BY <1>5, <2>2
    <3>2. /\ paths[n] \in 1..4 /\ n \in found[paths[n]]
          /\ \A k \in 1..4 : n \in found[k] => paths[n] <= k
      BY <1>2, <3>1
    <3>3. \A j \in 1..(paths[n] - 1) : n \notin found[j]
      BY <3>2
    <3> QED BY <1>4, <2>2, <3>1, <3>2, <3>3
  <2> QED BY <2>1, <2>2
<1>7. ASSUME NEW k \in 0..4, NEW n \in queue[k]
      PROVE  n \in reached \union {source} /\ Hops(n) = k
  <2>1. CASE k = 0
    BY <1>4, <2>1
  <2>2. CASE k \in 1..4
    <3>1. n \in found[k] /\ n # source /\ \A j \in 1..(k - 1) : n \notin found[j]
      BY <1>4, <2>2
    <3>2. n \in Nodes /\ n \in reached
      BY <1>2, <1>3, <2>2, <3>1
    <3>3. paths[n] \in 1..4 /\ n \in found[paths[n]] /\ paths[n] <= k
      BY <1>2, <2>2, <3>1, <3>2
    <3>4. paths[n] = k
      BY <2>2, <3>1, <3>3
    <3> QED BY <3>1, <3>2, <3>4
  <2> QED BY <2>1, <2>2
<1>8. ASSUME NEW n \in reached \union {source}, NEW next \in Adjacent(n)
      PROVE  next \in reached /\ paths[next] <= Hops(n) + 1
  <2>1. Hops(n) \in 0..4 /\ n \in queue[Hops(n)]
    BY <1>6
  <2>2. CASE Hops(n) = 4
    <3>1. n \in Nodes /\ Height(n) \in Nat /\ Height(n) <= 0
      BY <1>3, <2>1, <2>2
    <3>2. Height(next) \in Nat /\ Height(next) < Height(n)
      BY <3>1, EdgesDescend
    <3> QED BY <3>1, <3>2
  <2>3. CASE Hops(n) # 4
    <3> DEFINE k == Hops(n) + 1
    <3>1. k \in 1..4 /\ k - 1 = Hops(n)
      BY <2>1, <2>3
    <3> HIDE DEF k
    <3>2. next \in found[k]
      BY <1>4, <2>1, <3>1
    <3>3. next \in Nodes
      BY <1>3, <3>1, <3>2
    <3>4. next \in reached /\ paths[next] <= k
      BY <1>2, <3>1, <3>2, <3>3
    <3> QED BY <3>4 DEF k
  <2> QED BY <2>2, <2>3
<1>9. ASSUME NEW n \in reached
      PROVE  \E before \in reached \union {source} :
               n \in Adjacent(before) /\ paths[n] = Hops(before) + 1
  <2>1. paths[n] \in 1..4 /\ n \in found[paths[n]]
    BY <1>2, <1>5
  <2>2. PICK before \in queue[paths[n] - 1] : n \in Adjacent(before)
    BY <1>4, <2>1
  <2>3. paths[n] - 1 \in 0..4
    BY <2>1
  <2>4. before \in reached \union {source} /\ Hops(before) = paths[n] - 1
    BY <1>7, <2>3
  <2>5. paths[n] = Hops(before) + 1
    BY <2>1, <2>4
  <2> QED BY <2>2, <2>4, <2>5
<1>10. \A n \in reached : paths[n] \in 1..4
  BY <1>2, <1>5
<1> QED BY <1>8, <1>9, <1>10 DEF paths, reached

(* No path find_path can be asked for is longer than its default depth     *)
(* (graph.py:187-207), for any registry and with any number of parties:    *)
(* every edge leads down, and from a party there are four steps down.      *)
THEOREM FourHopsAreEnough == SessionSpec => []FourHopsSuffice
<1>1. GraphInv => FourHopsSuffice
  BY PathsSpread DEF FourHopsSuffice
<1> QED BY <1>1, SessionBuilds, PTL

-----------------------------------------------------------------------------
(* What is one edge away from a party.                                     *)

\* The neighbors of a party are what its calls named and the registry has.
LEMMA PartyNeighbors ==
  ASSUME GraphInv, NEW party \in parties, NEW t
  PROVE  LET calls == Given(party)
         IN t \in Adjacent(party) <=>
              \E p \in calls :
                \/ p.country \in Countries /\ t = <<"country", p.country>>
                \/ \E m \in p.methods \intersect SupportedMethods : t = <<"method", m>>
                \/ party[1] = "receiver" /\ t = <<"currency", p.currency>>
<1>1. party \in Nodes /\ party \notin BuiltNodes
  BY NodeTypes DEF Nodes
<1>2. t \in Adjacent(party) <=>
        \E n \in DOMAIN added : /\ party = NodeOf(added[n])
                                /\ t \in Targets(added[n][1], added[n][2]) \intersect BuiltNodes
  BY <1>1, Neighbors
<1>3. \A p : p \in Given(party) <=>
        \E n \in DOMAIN added : NodeOf(added[n]) = party /\ p = added[n][2]
  BY DEF Given, NodeOf
<1>4. ASSUME NEW n \in DOMAIN added, party = NodeOf(added[n])
      PROVE  LET p == added[n][2]
             IN t \in Targets(added[n][1], p) \intersect BuiltNodes <=>
                  \/ p.country \in Countries /\ t = <<"country", p.country>>
                  \/ \E m \in p.methods \intersect SupportedMethods : t = <<"method", m>>
                  \/ party[1] = "receiver" /\ t = <<"currency", p.currency>>
  <2> DEFINE p == added[n][2]
  <2>1. party[1] = added[n][1] /\ p \in Parties
    BY <1>4, NodeTypes DEF NodeOf
  <2>2. p.currency \in Currencies
    BY <2>1, GraphAssumption
  <2> HIDE DEF p
  <2>3. t \in Targets(party[1], p) <=>
          \/ t = <<"country", p.country>>
          \/ \E m \in p.methods : t = <<"method", m>>
          \/ party[1] = "receiver" /\ t = <<"currency", p.currency>>
    BY DEF Targets
  <2>4. /\ <<"country", p.country>> \in BuiltNodes <=> p.country \in Countries
        /\ <<"currency", p.currency>> \in BuiltNodes
        /\ \A m : <<"method", m>> \in BuiltNodes <=> m \in SupportedMethods
    BY <2>2 DEF BuiltNodes
  <2>5. t \in Targets(party[1], p) \intersect BuiltNodes <=>
          \/ p.country \in Countries /\ t = <<"country", p.country>>
          \/ \E m \in p.methods \intersect SupportedMethods : t = <<"method", m>>
          \/ party[1] = "receiver" /\ t = <<"currency", p.currency>>
    BY <2>3, <2>4
  <2> QED BY <2>1, <2>5 DEF p
<1> QED BY <1>2, <1>3, <1>4

\* The first round finds the neighbors, and nothing else is as near.
LEMMA FirstRound ==
  ASSUME GraphInv, NEW party \in parties, NEW n
  PROVE  n \in Nodes /\ PathsFrom(party)[n] = 1 <=> n \in Adjacent(party)
<1> DEFINE paths == PathsFrom(party)
           reached == {m \in Nodes : paths[m] # NoPath}
           Hops(m) == IF m = party THEN 0 ELSE paths[m]
<1>1. /\ \A m \in reached \union {party} : \A next \in Adjacent(m) :
           next \in reached /\ paths[next] <= Hops(m) + 1
      /\ \A m \in reached : \E before \in reached \union {party} :
           m \in Adjacent(before) /\ paths[m] = Hops(before) + 1
      /\ \A m \in reached : paths[m] \in 1..4
  BY PathsSpread DEF Nodes
<1> HIDE DEF paths
<1>2. ASSUME n \in Adjacent(party) PROVE n \in Nodes /\ paths[n] = 1
  BY <1>1, <1>2
<1>3. ASSUME n \in Nodes, paths[n] = 1 PROVE n \in Adjacent(party)
  <2>1. n \in reached
    BY <1>3 DEF NoPath
  <2>2. PICK before \in reached \union {party} :
          n \in Adjacent(before) /\ paths[n] = Hops(before) + 1
    BY <1>1, <2>1
  <2>3. before = party
    BY <1>1, <1>3, <2>2
  <2> QED BY <2>2, <2>3
<1> QED BY <1>2, <1>3 DEF paths

(* One edge away from a party is what the calls that added it named, all   *)
(* of them (graph.py:128-151, 187-207), for any parties and any registry.  *)
THEOREM PartiesReachWhatTheySaid == SessionSpec => []PartiesReach
<1>1. GraphInv => PartiesReach
  <2> SUFFICES ASSUME GraphInv, NEW party \in parties
               PROVE  LET calls == Given(party)
                          paths == PathsFrom(party)
                      IN {n \in Nodes : paths[n] = 1} =
                           ({"country"} \X ({p.country : p \in calls} \intersect Countries))
                             \union ({"method"} \X ((UNION {p.methods : p \in calls})
                                                      \intersect SupportedMethods))
                             \union (IF party[1] = "receiver"
                                     THEN {"currency"} \X {p.currency : p \in calls} ELSE {})
    BY DEF PartiesReach
  <2> DEFINE calls == Given(party)
             home == {p.country : p \in calls} \intersect Countries
             near == {n \in Nodes : PathsFrom(party)[n] = 1}
             methods == (UNION {p.methods : p \in calls}) \intersect SupportedMethods
             money == {p.currency : p \in calls}
             named == ({"country"} \X home) \union ({"method"} \X methods)
                        \union (IF party[1] = "receiver" THEN {"currency"} \X money ELSE {})
  <2>1. \A n : n \in near <=> n \in Adjacent(party)
    BY FirstRound
  <2>2. \A n : n \in near <=>
          \E p \in calls :
            \/ p.country \in Countries /\ n = <<"country", p.country>>
            \/ \E m \in p.methods \intersect SupportedMethods : n = <<"method", m>>
            \/ party[1] = "receiver" /\ n = <<"currency", p.currency>>
    BY <2>1, PartyNeighbors
  <2>3. /\ \A m : m \in methods <=> m \in SupportedMethods /\ \E p \in calls : m \in p.methods
        /\ \A c : c \in home <=> c \in Countries /\ \E p \in calls : c = p.country
        /\ \A c : c \in money <=> \E p \in calls : c = p.currency
    OBVIOUS
  <2> HIDE DEF calls, home, near, methods, money
  <2>4. ASSUME NEW n \in near PROVE n \in named
    BY <2>2, <2>3, <2>4
  <2>5. ASSUME NEW n \in named PROVE n \in near
    <3>1. CASE n \in {"country"} \X home
      BY <2>2, <2>3, <3>1
    <3>2. CASE n \in {"method"} \X methods
      BY <2>2, <2>3, <3>2
    <3>3. CASE party[1] = "receiver" /\ n \in {"currency"} \X money
      BY <2>2, <2>3, <3>3
    <3> QED BY <2>5, <3>1, <3>2, <3>3
  <2> HIDE DEF named
  <2>6. near = named
    BY <2>4, <2>5
  <2> QED BY <2>6 DEF calls, home, near, methods, money, named
<1> QED BY <1>1, SessionBuilds, PTL
=============================================================================

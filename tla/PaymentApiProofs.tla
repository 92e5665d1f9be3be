-------------------------- MODULE PaymentApiProofs --------------------------
(* Safety of PaymentApi for every number of threads, receivers, routes and *)
(* intents.  Typing and handle resolution are proved together, because a   *)
(* stored intent is well typed only if the second lookup of the receiver   *)
(* finds one.                                                              *)
EXTENDS PaymentApi, NumberLemmas, TLAPS

-----------------------------------------------------------------------------
\* routes[0] is one of the routes, for any ranking.
LEMMA BestRouteIsARoute ==
  ASSUME NEW routes \in SUBSET Routes, routes # {},
         NEW by, by.rank \in [Routes -> Nat]
  PROVE  BestRoute(routes, by) \in routes
<1> DEFINE ranks == {by.rank[r] : r \in routes}
<1>1. PICK m \in ranks : \A n \in ranks : m <= n
  <2>1. ranks \in SUBSET Nat /\ ranks # {}
    OBVIOUS
  <2> HIDE DEF ranks
  <2> QED BY <2>1, LeastNatural
<1>2. PICK r \in routes : by.rank[r] = m
  OBVIOUS
<1>3. \A q \in routes : by.rank[r] <= by.rank[q]
  BY <1>1, <1>2
<1> QED BY <1>2, <1>3 DEF BestRoute

\* What a registration stores is a preference object of that receiver.
LEMMA StoredIsPreference ==
  ASSUME NEW r \in Receivers, NEW c \in Choices, NEW v \in Nat
  PROVE  /\ Stored(r, c, v) \in Preference
         /\ Stored(r, c, v).receiver = r
         /\ Stored(r, c, v) # None
<1>1. c \in Choice
  BY RouteAssumption
<1> QED BY <1>1, NoneAssumption DEF Stored, Preference, Choice

LEMMA PreferenceIsNotNone == None \notin Preference
  BY NoneAssumption

LEMMA NoneIsNoIntent == None \notin Intent
  BY NoneAssumption

-----------------------------------------------------------------------------
(* The inductive invariant of the directory.  To TypeOK and HandlesResolve *)
(* it adds that preferences are stored under their own receiver, that a    *)
(* handle about to be bound already has its preferences, and what the      *)
(* routes held by a request have been filtered by.                         *)
PreferencesKeyed ==
  \A r \in Receivers : preferences[r] # None => preferences[r].receiver = r

BoundNext ==
  \A t \in Threads : pc[t] = "bind" => preferences[req[t].receiver] # None

RequestHonoursReceiver(t) ==
  /\ pc[t] = "filter" => req[t].routes \subseteq req[t].prefs.routable
  /\ pc[t] = "store" =>
       /\ req[t].routes \subseteq
            req[t].prefs.routable \intersect req[t].checked.accepts
       /\ req[t].checked.receiver = req[t].prefs.receiver

DirectoryInv ==
  /\ TypeOK
  /\ PreferencesKeyed
  /\ HandlesResolve
  /\ BoundNext
  /\ \A t \in Threads : RequestHonoursReceiver(t)
  /\ RoutesHonourReceiver

\* What the invariant says of one thread.
ThreadInv(t) ==
  /\ LocalsOK(t)
  /\ pc[t] \in {"describe", "filter", "store"} =>
       preferences[req[t].prefs.receiver] # None
  /\ pc[t] = "bind" => preferences[req[t].receiver] # None
  /\ RequestHonoursReceiver(t)

\* What the invariant says of the variables and of one intent.
VariablesInv ==
  /\ preferences \in [Receivers -> Preference \union {None}]
  /\ PreferencesKeyed
  /\ handles \in [Names -> Receivers \union {None}]
  /\ \A n \in Names : handles[n] # None => preferences[handles[n]] # None
  /\ intents \in [IntentIds -> Intent \union {None}]
  /\ pc \in [Threads -> {"idle", "lookup", "describe", "filter", "store",
                         "bind", "recheck", "advance", "report"}]
  /\ DOMAIN req = Threads
  /\ reply \in [Threads -> [op : {"confirm", "get"}, state : IntentStates]
                          \union {None}]
  /\ version \in 0..MaxVersion
  /\ answered \subseteq [receiver : Receivers, handle : Handles, ver : Nat]
  /\ passed \in [IntentIds -> Nat]
  /\ RoutesHonourReceiver

LEMMA DirectoryInvByThread ==
  DirectoryInv <=> VariablesInv /\ \A t \in Threads : ThreadInv(t)
BY DEF DirectoryInv, VariablesInv, ThreadInv, TypeOK, HandlesResolve, BoundNext

\* Preferences are replaced and intents are rewritten; neither is removed.
NothingRemoved ==
  /\ \A r \in Receivers : preferences[r] # None => preferences'[r] # None
  /\ \A i \in IntentIds : intents[i] # None => intents'[i] # None

\* A step of one thread leaves what the invariant says of another.
LEMMA OtherThreads ==
  ASSUME NEW u \in Threads, ThreadInv(u), NothingRemoved,
         pc'[u] = pc[u], req'[u] = req[u]
  PROVE  ThreadInv(u)'
BY DEF ThreadInv, LocalsOK, RequestHonoursReceiver, NothingRemoved, Query,
       Registration, Confirmation, Preference

\* What a step of thread t has to establish.
Preserved(t) ==
  /\ VariablesInv'
  /\ ThreadInv(t)'
  /\ NothingRemoved
  /\ \A u \in Threads \ {t} : pc'[u] = pc[u] /\ req'[u] = req[u]

\* A response: the thread is idle again and the others are as they were.
LEMMA AnswerEffect ==
  ASSUME VariablesInv, NEW t \in Threads, NEW r, Answer(t, r),
         r \in [op : {"confirm", "get"}, state : IntentStates] \union {None}
  PROVE  /\ pc' \in [Threads -> {"idle", "lookup", "describe", "filter",
                                 "store", "bind", "recheck", "advance",
                                 "report"}]
         /\ DOMAIN req' = Threads
         /\ reply' \in [Threads -> [op : {"confirm", "get"},
                                    state : IntentStates] \union {None}]
         /\ pc'[t] = "idle" /\ req'[t] = None
         /\ \A u \in Threads \ {t} : pc'[u] = pc[u] /\ req'[u] = req[u]
BY DEF VariablesInv, Answer, Goto

LEMMA IdleThread ==
  ASSUME NEW t \in Threads, pc'[t] = "idle", req'[t] = None
  PROVE  ThreadInv(t)'
BY DEF ThreadInv, LocalsOK, RequestHonoursReceiver

\* A handler that only answers.
LEMMA AnswerPreserves ==
  ASSUME VariablesInv, NEW t \in Threads, NEW r, Answer(t, r),
         r \in [op : {"confirm", "get"}, state : IntentStates] \union {None},
         UNCHANGED <<store, version, answered>>, passed' \in [IntentIds -> Nat]
  PROVE  Preserved(t)
<1>1. ThreadInv(t)' /\ NothingRemoved
  BY AnswerEffect, IdleThread DEF NothingRemoved, store
<1>2. VariablesInv'
  BY AnswerEffect DEF VariablesInv, PreferencesKeyed, RoutesHonourReceiver, store
<1> QED BY <1>1, <1>2, AnswerEffect DEF Preserved

LEMMA ResolveHandlePreserves ==
  ASSUME VariablesInv, NEW t \in Threads, ThreadInv(t),
         NEW op \in {"create", "list", "resolve"}, NEW name \in Names,
         NEW offer \in SUBSET Routes, NEW id \in IntentIds \union {None},
         op = "create" => id # None,
         ResolveHandle(t, op, name, offer, id)
  PROVE  Preserved(t)
<1> DEFINE rid == IF handles[name] # None THEN handles[name] ELSE name
           known == {a.ver : a \in {b \in answered : b.receiver = rid}}
           q == [op |-> op, id |-> id, rid |-> rid, offer |-> offer,
                 prefs |-> None, checked |-> None, routes |-> {},
                 known |-> known]
<1>1. q \in Query
  <2>1. rid \in Names
    BY ReceiverAssumption DEF VariablesInv
  <2>2. known \in SUBSET Nat
    BY DEF VariablesInv
  <2> HIDE DEF rid, known
  <2> QED BY <2>1, <2>2 DEF Query
<1>2. /\ req' = [req EXCEPT ![t] = q] /\ pc' = [pc EXCEPT ![t] = "lookup"]
      /\ reply' = [reply EXCEPT ![t] = None]
      /\ UNCHANGED <<preferences, handles, intents, version, answered, passed>>
  BY DEF ResolveHandle, Goto, store, history
<1>3. q.op = op /\ q.id = id
  OBVIOUS
<1> HIDE DEF q
<1>4. ThreadInv(t)'
  BY <1>1, <1>2, <1>3 DEF VariablesInv, ThreadInv, LocalsOK, RequestHonoursReceiver
<1>5. VariablesInv'
  BY <1>2 DEF VariablesInv, PreferencesKeyed, RoutesHonourReceiver
<1> QED BY <1>2, <1>4, <1>5 DEF Preserved, NothingRemoved, VariablesInv

LEMMA LookupPreferencesPreserves ==
  ASSUME VariablesInv, NEW t \in Threads, ThreadInv(t), LookupPreferences(t)
  PROVE  Preserved(t)
<1> DEFINE prefs == Lookup(req[t].rid)
           max == IF req[t].op = "create" THEN MaxIntentRoutes
                                          ELSE MaxListRoutes
<1>1. CASE prefs = None
  BY <1>1, AnswerPreserves DEF LookupPreferences, history, VariablesInv
<1>2. CASE prefs # None
  <2>1. /\ req[t].rid \in Receivers
        /\ prefs = preferences[req[t].rid]
        /\ prefs \in Preference
        /\ preferences[prefs.receiver] # None
    BY <1>2 DEF Lookup, VariablesInv, PreferencesKeyed
  <2>2. FindRoutes(req[t].offer, prefs, max) \in SUBSET Routes
        /\ FindRoutes(req[t].offer, prefs, max) \subseteq prefs.routable
    BY <2>1 DEF FindRoutes, Preference
  <2>3. req[t] \in Query /\ (req[t].op = "create" => req[t].id # None)
    BY DEF LookupPreferences, ThreadInv, LocalsOK
  <2> DEFINE r1 == [req[t] EXCEPT !.prefs = prefs]
             r2 == [r1 EXCEPT !.routes = FindRoutes(req[t].offer, prefs, max)]
  <2>4. /\ r1 \in Query /\ r1.prefs = prefs /\ r1.op = req[t].op
        /\ r1.id = req[t].id
    BY <2>1, <2>3 DEF Query
  <2>5. /\ r2 \in Query /\ r2.prefs = prefs /\ r2.op = req[t].op
        /\ r2.id = req[t].id
        /\ r2.routes = FindRoutes(req[t].offer, prefs, max)
    BY <2>1, <2>2, <2>3 DEF Query
  <2>6. /\ UNCHANGED <<preferences, handles, intents, version, answered, passed>>
        /\ \/ /\ req[t].op = "resolve"
              /\ req' = [req EXCEPT ![t] = r1]
              /\ pc' = [pc EXCEPT ![t] = "describe"] /\ UNCHANGED reply
           \/ /\ req[t].op \in {"create", "list"}
              /\ req' = [req EXCEPT ![t] = r2]
              /\ pc' = [pc EXCEPT ![t] = "filter"] /\ UNCHANGED reply
    BY <1>2 DEF LookupPreferences, Goto, store, history, VariablesInv
  <2> HIDE DEF prefs, r1, r2, max
  <2>7. ThreadInv(t)'
    BY <2>1, <2>2, <2>3, <2>4, <2>5, <2>6
       DEF VariablesInv, ThreadInv, LocalsOK, RequestHonoursReceiver
  <2>8. VariablesInv'
    BY <2>6 DEF VariablesInv, PreferencesKeyed, RoutesHonourReceiver
  <2> QED BY <2>6, <2>7, <2>8 DEF Preserved, NothingRemoved, VariablesInv
<1> QED BY <1>1, <1>2

LEMMA DescribeReceiverPreserves ==
  ASSUME VariablesInv, NEW t \in Threads, ThreadInv(t), DescribeReceiver(t)
  PROVE  Preserved(t)
BY AnswerPreserves DEF DescribeReceiver, history, VariablesInv

LEMMA FilterByReceiverPreserves ==
  ASSUME VariablesInv, NEW t \in Threads, ThreadInv(t), FilterByReceiver(t)
  PROVE  Preserved(t)
<1> DEFINE prefs == preferences[req[t].prefs.receiver]
           kept == FilterRoutes(req[t].routes, prefs)
           r1 == [req[t] EXCEPT !.checked = prefs]
           r2 == [r1 EXCEPT !.routes = kept]
<1>1. CASE req[t].op = "list" \/ (req[t].op = "create" /\ kept = {})
  <2>1. Answer(t, None) /\ UNCHANGED <<store, history>>
    BY <1>1 DEF FilterByReceiver
  <2> QED BY <2>1, AnswerPreserves DEF history, VariablesInv
<1>2. CASE req[t].op = "create" /\ kept # {}
  <2>1. /\ pc[t] = "filter" /\ req[t] \in Query /\ req[t].id # None
        /\ req[t].prefs \in Preference /\ req[t].prefs.receiver \in Receivers
        /\ req[t].routes \subseteq req[t].prefs.routable
    BY <1>2 DEF FilterByReceiver, ThreadInv, LocalsOK, RequestHonoursReceiver,
                Preference
  <2>2. /\ prefs \in Preference
        /\ prefs.receiver = req[t].prefs.receiver
    BY <2>1 DEF ThreadInv, VariablesInv, PreferencesKeyed
  <2>3. /\ kept \in SUBSET Routes
        /\ kept \subseteq req[t].prefs.routable \intersect prefs.accepts
    BY <2>1, <2>2, PreferenceIsNotNone DEF FilterRoutes, Query
  <2>4. /\ r2 \in Query /\ r2.prefs = req[t].prefs /\ r2.op = req[t].op
        /\ r2.id = req[t].id /\ r2.checked = prefs /\ r2.routes = kept
    BY <2>1, <2>2, <2>3 DEF Query
  <2>5. /\ UNCHANGED <<preferences, handles, intents, version, answered, passed>>
        /\ req' = [req EXCEPT ![t] = r2]
        /\ pc' = [pc EXCEPT ![t] = "store"] /\ UNCHANGED reply
    BY <1>2 DEF FilterByReceiver, Goto, store, history, VariablesInv
  <2>6. preferences[req[t].prefs.receiver] # None
    BY <2>1 DEF ThreadInv
  <2> HIDE DEF prefs, kept, r1, r2
  <2>7. ThreadInv(t)'
    BY <1>2, <2>1, <2>2, <2>3, <2>4, <2>5, <2>6
       DEF VariablesInv, ThreadInv, LocalsOK, RequestHonoursReceiver
  <2>8. VariablesInv'
    BY <2>5 DEF VariablesInv, PreferencesKeyed, RoutesHonourReceiver
  <2> QED BY <2>5, <2>7, <2>8 DEF Preserved, NothingRemoved, VariablesInv
<1> QED BY <1>1, <1>2 DEF FilterByReceiver

LEMMA StoreIntentPreserves ==
  ASSUME VariablesInv, NEW t \in Threads, ThreadInv(t), StoreIntent(t)
  PROVE  Preserved(t)
<1> DEFINE q == req[t]
           n == [receiver |-> q.prefs, routes |-> q.routes,
                 selected |-> BestRoute(q.routes, q.prefs), state |-> "created",
                 checked |-> q.checked, known |-> q.known]
<1>1. /\ q \in Query /\ q.id \in IntentIds
      /\ q.prefs \in Preference /\ q.checked \in Preference
      /\ q.routes # {}
      /\ q.routes \subseteq q.prefs.routable \intersect q.checked.accepts
      /\ q.checked.receiver = q.prefs.receiver
  BY DEF StoreIntent, ThreadInv, LocalsOK, RequestHonoursReceiver, Query
<1>2. /\ q.routes \in SUBSET Routes /\ q.prefs.rank \in [Routes -> Nat]
      /\ q.known \in SUBSET Nat
  BY <1>1 DEF Query, Preference
<1>3. BestRoute(q.routes, q.prefs) \in q.routes
  BY <1>1, <1>2, BestRouteIsARoute
<1>4. n \in Intent /\ n.selected \in n.routes /\ n.receiver = q.prefs
      /\ n.checked = q.checked /\ n.routes = q.routes
  BY <1>1, <1>2, <1>3 DEF Intent, IntentStates
<1>5. /\ intents' = [intents EXCEPT ![q.id] = n]
      /\ Answer(t, None)
      /\ UNCHANGED <<preferences, handles, version, answered, passed>>
  BY DEF StoreIntent, history
<1> HIDE DEF n
<1>6. n # None
  BY <1>1, <1>4, NoneIsNoIntent
<1>7. ThreadInv(t)'
  BY <1>5, AnswerEffect, IdleThread
<1>8. intents' \in [IntentIds -> Intent \union {None}]
  BY <1>4, <1>5 DEF VariablesInv
<1>9. RoutesHonourReceiver'
  BY <1>1, <1>4, <1>5 DEF VariablesInv, RoutesHonourReceiver
<1>10. VariablesInv'
  BY <1>5, <1>8, <1>9, AnswerEffect DEF VariablesInv, PreferencesKeyed
<1> QED BY <1>5, <1>6, <1>7, <1>10, AnswerEffect
        DEF Preserved, NothingRemoved, VariablesInv

LEMMA RegisterPreferencesPreserves ==
  ASSUME VariablesInv, NEW t \in Threads, ThreadInv(t), NEW r \in Receivers,
         NEW h \in Handles, NEW c \in Choices, RegisterPreferences(t, r, h, c)
  PROVE  Preserved(t)
<1> DEFINE p == Stored(r, c, version + 1)
           q == [op |-> "register", receiver |-> r, handle |-> h,
                 ver |-> version + 1]
<1>1. /\ version + 1 \in Nat /\ version + 1 \in 0..MaxVersion
      /\ version < MaxVersion
  BY BoundAssumption DEF VariablesInv, RegisterPreferences
<1>2. p \in Preference /\ p.receiver = r /\ p # None
  BY <1>1, StoredIsPreference
<1>3. q \in Registration /\ q.receiver = r
  BY <1>1 DEF Registration
<1>4. /\ preferences' = [preferences EXCEPT ![r] = p]
      /\ req' = [req EXCEPT ![t] = q] /\ pc' = [pc EXCEPT ![t] = "bind"]
      /\ reply' = [reply EXCEPT ![t] = None]
      /\ version' = version + 1
      /\ UNCHANGED <<handles, intents, answered, passed>>
  BY DEF RegisterPreferences, Goto
<1> HIDE DEF p, q
<1>5. ThreadInv(t)'
  BY <1>2, <1>3, <1>4 DEF VariablesInv, ThreadInv, LocalsOK, RequestHonoursReceiver
<1>6. NothingRemoved
  BY <1>2, <1>4 DEF NothingRemoved, VariablesInv
<1>7. VariablesInv'
  BY <1>1, <1>2, <1>4 DEF VariablesInv, PreferencesKeyed, RoutesHonourReceiver
<1> QED BY <1>4, <1>5, <1>6, <1>7 DEF Preserved, VariablesInv

LEMMA BindHandlePreserves ==
  ASSUME VariablesInv, NEW t \in Threads, ThreadInv(t), BindHandle(t)
  PROVE  Preserved(t)
<1> DEFINE q == req[t]
<1>1. /\ q \in Registration /\ q.receiver \in Receivers /\ q.handle \in Handles
      /\ q.ver \in Nat /\ preferences[q.receiver] # None
  BY DEF BindHandle, ThreadInv, LocalsOK, Registration
<1>2. /\ handles' = [handles EXCEPT ![q.handle] = q.receiver]
      /\ answered' = answered \union
           {[receiver |-> q.receiver, handle |-> q.handle, ver |-> q.ver]}
      /\ Answer(t, None)
      /\ UNCHANGED <<preferences, intents, version, passed>>
  BY DEF BindHandle
<1>3. ThreadInv(t)' /\ NothingRemoved
  BY <1>2, AnswerEffect, IdleThread DEF NothingRemoved
<1>4. VariablesInv'
  BY <1>1, <1>2, AnswerEffect, ReceiverAssumption
     DEF VariablesInv, PreferencesKeyed, RoutesHonourReceiver
<1> QED BY <1>2, <1>3, <1>4, AnswerEffect DEF Preserved

LEMMA BeginConfirmPreserves ==
  ASSUME VariablesInv, NEW t \in Threads, ThreadInv(t),
         NEW i \in IntentIds, BeginConfirm(t, i)
  PROVE  Preserved(t)
<1> DEFINE q == [op |-> "confirm", intent |-> i, step |-> 1]
<1>1. CASE intents[i] = None
  BY <1>1, AnswerPreserves DEF BeginConfirm, history, VariablesInv
<1>2. CASE intents[i] # None
  <2>1. q \in Confirmation /\ q.intent = i /\ q.step = 1
    BY DEF Confirmation, LastStep
  <2>2. /\ req' = [req EXCEPT ![t] = q] /\ reply' = [reply EXCEPT ![t] = None]
        /\ \E l \in {"report", "recheck"} : pc' = [pc EXCEPT ![t] = l]
        /\ UNCHANGED <<preferences, handles, intents, version, answered, passed>>
    BY <1>2 DEF BeginConfirm, Goto, store, history
  <2> HIDE DEF q
  <2>3. ThreadInv(t)'
    BY <1>2, <2>1, <2>2
       DEF VariablesInv, ThreadInv, LocalsOK, RequestHonoursReceiver
  <2>4. VariablesInv'
    BY <2>2 DEF VariablesInv, PreferencesKeyed, RoutesHonourReceiver
  <2> QED BY <2>2, <2>3, <2>4 DEF Preserved, NothingRemoved, VariablesInv
<1> QED BY <1>1, <1>2

LEMMA RecheckConfirmPreserves ==
  ASSUME VariablesInv, NEW t \in Threads, ThreadInv(t), RecheckConfirm(t)
  PROVE  Preserved(t)
<1> DEFINE i == req[t].intent
<1>1. /\ pc[t] = "recheck" /\ req[t] \in Confirmation /\ i \in IntentIds
      /\ intents[i] # None
  BY DEF RecheckConfirm, ThreadInv, LocalsOK, Confirmation
<1>2. CASE intents[i].state # "created"
  BY <1>2, AnswerPreserves DEF RecheckConfirm, VariablesInv
<1>3. CASE intents[i].state = "created"
  <2>1. /\ passed' = [passed EXCEPT ![i] = @ + 1]
        /\ pc' = [pc EXCEPT ![t] = "advance"]
        /\ UNCHANGED <<preferences, handles, intents, version, answered, req, reply>>
    BY <1>3 DEF RecheckConfirm, Goto, store
  <2>2. ThreadInv(t)'
    BY <1>1, <2>1 DEF VariablesInv, ThreadInv, LocalsOK, RequestHonoursReceiver
  <2>3. passed' \in [IntentIds -> Nat]
    BY <1>1, <2>1 DEF VariablesInv
  <2>4. VariablesInv'
    BY <2>1, <2>3 DEF VariablesInv, PreferencesKeyed, RoutesHonourReceiver
  <2> QED BY <2>1, <2>2, <2>4 DEF Preserved, NothingRemoved, VariablesInv
<1> QED BY <1>2, <1>3

LEMMA AdvanceIntentPreserves ==
  ASSUME VariablesInv, NEW t \in Threads, ThreadInv(t), AdvanceIntent(t)
  PROVE  Preserved(t)
<1> DEFINE i == req[t].intent
           n == req[t].step
           moved == [intents[i] EXCEPT !.state = Lifecycle[n]]
           r1 == [req[t] EXCEPT !.step = n + 1]
<1>1. /\ pc[t] = "advance" /\ req[t] \in Confirmation /\ i \in IntentIds
      /\ n \in 1..LastStep /\ intents[i] # None /\ intents[i] \in Intent
  BY DEF AdvanceIntent, ThreadInv, LocalsOK, Confirmation, VariablesInv
<1>2. /\ moved \in Intent /\ moved # None
      /\ moved.receiver = intents[i].receiver /\ moved.routes = intents[i].routes
      /\ moved.selected = intents[i].selected
      /\ moved.checked = intents[i].checked
  <2>1. Lifecycle[n] \in IntentStates
    BY <1>1 DEF IntentStates
  <2> QED BY <1>1, <2>1, NoneIsNoIntent DEF Intent
<1>3. intents' = [intents EXCEPT ![i] = moved]
  BY <1>1 DEF AdvanceIntent, VariablesInv
<1>4. /\ UNCHANGED <<preferences, handles, reply, version, answered, passed>>
      /\ \/ n < LastStep /\ req' = [req EXCEPT ![t] = r1] /\ UNCHANGED pc
         \/ UNCHANGED req /\ pc' = [pc EXCEPT ![t] = "report"]
  BY <1>1 DEF AdvanceIntent, LoopEnds, Goto, history, VariablesInv, LastStep
<1>5. n < LastStep => r1 \in Confirmation /\ r1.intent = i
  BY <1>1 DEF Confirmation, LastStep
<1> HIDE DEF moved, r1
<1>6. ThreadInv(t)'
  BY <1>1, <1>2, <1>3, <1>4, <1>5
     DEF VariablesInv, ThreadInv, LocalsOK, RequestHonoursReceiver
<1>7. NothingRemoved
  BY <1>1, <1>2, <1>3, <1>4 DEF NothingRemoved, VariablesInv
<1>8. intents' \in [IntentIds -> Intent \union {None}] /\ RoutesHonourReceiver'
  BY <1>1, <1>2, <1>3 DEF VariablesInv, RoutesHonourReceiver
<1>9. VariablesInv'
  BY <1>4, <1>8 DEF VariablesInv, PreferencesKeyed
<1> QED BY <1>4, <1>6, <1>7, <1>9 DEF Preserved, VariablesInv

LEMMA ReportConfirmPreserves ==
  ASSUME VariablesInv, NEW t \in Threads, ThreadInv(t), ReportConfirm(t)
  PROVE  Preserved(t)
<1> DEFINE s == intents[req[t].intent].state
<1>1. s \in IntentStates
  BY DEF ReportConfirm, ThreadInv, LocalsOK, Confirmation, VariablesInv, Intent
<1>2. [op |-> "confirm", state |-> s] \in [op : {"confirm", "get"}, state : IntentStates]
  BY <1>1
<1> QED BY <1>2, AnswerPreserves DEF ReportConfirm, history, VariablesInv

LEMMA GetIntentPreserves ==
  ASSUME VariablesInv, NEW t \in Threads, ThreadInv(t),
         NEW i \in IntentIds, GetIntent(t, i)
  PROVE  Preserved(t)
<1>1. intents[i] # None => intents[i].state \in IntentStates
  BY DEF VariablesInv, Intent
<1> QED BY <1>1, AnswerPreserves DEF GetIntent, history, VariablesInv

-----------------------------------------------------------------------------
LEMMA DirectoryInit == Init => DirectoryInv
<1> SUFFICES ASSUME Init PROVE DirectoryInv
  OBVIOUS
<1>1. PICK c \in [DefaultReceivers -> Choices] :
        preferences = [r \in Receivers |->
          IF r \in DefaultReceivers THEN Stored(r, c[r], 0) ELSE None]
  BY DEF Init
<1>2. \A r \in DefaultReceivers :
        /\ Stored(r, c[r], 0) \in Preference
        /\ Stored(r, c[r], 0).receiver = r
        /\ Stored(r, c[r], 0) # None
  BY StoredIsPreference, ReceiverAssumption
<1>3. /\ preferences \in [Receivers -> Preference \union {None}]
      /\ PreferencesKeyed
      /\ \A r \in DefaultReceivers : preferences[r] # None
  BY <1>1, <1>2, ReceiverAssumption DEF PreferencesKeyed
<1>4. VariablesInv
  BY <1>3, ReceiverAssumption, BoundAssumption
     DEF Init, VariablesInv, RoutesHonourReceiver
<1>5. \A t \in Threads : ThreadInv(t)
  BY DEF Init, ThreadInv, LocalsOK, RequestHonoursReceiver
<1> QED BY <1>4, <1>5, DirectoryInvByThread

\* Every step of every handler keeps the invariant.
LEMMA DirectoryNext == DirectoryInv /\ [Next]_vars => DirectoryInv'
<1> SUFFICES ASSUME DirectoryInv, [Next]_vars PROVE DirectoryInv'
  OBVIOUS
<1>1. VariablesInv /\ \A t \in Threads : ThreadInv(t)
  BY DirectoryInvByThread
<1>2. ASSUME NEW t \in Threads, Preserved(t) PROVE DirectoryInv'
  <2>1. \A u \in Threads : ThreadInv(u)'
    BY <1>1, <1>2, OtherThreads DEF Preserved
  <2> QED BY <1>2, <2>1
         DEF Preserved, DirectoryInv, VariablesInv, ThreadInv, TypeOK,
             HandlesResolve, BoundNext
<1>3. ASSUME NEW t \in Threads, Request(t) PROVE DirectoryInv'
  <2>1. ASSUME NEW n \in Names, NEW o \in Offers, NEW i \in IntentIds,
               ResolveHandle(t, "create", n, o, i)
        PROVE  Preserved(t)
    BY <1>1, <2>1, ResolveHandlePreserves, RouteAssumption, NoneAssumption
  <2>2. ASSUME NEW n \in Names, ResolveHandle(t, "list", n, ListOffer, None)
        PROVE  Preserved(t)
    BY <1>1, <2>2, ResolveHandlePreserves, RouteAssumption
  <2>3. ASSUME NEW n \in Names, ResolveHandle(t, "resolve", n, {}, None)
        PROVE  Preserved(t)
    BY <1>1, <2>3, ResolveHandlePreserves
  <2>4. ASSUME NEW r \in Receivers, NEW h \in Handles, NEW c \in Choices,
               RegisterPreferences(t, r, h, c)
        PROVE  Preserved(t)
    BY <1>1, <2>4, RegisterPreferencesPreserves
  <2>5. ASSUME NEW i \in IntentIds, BeginConfirm(t, i) \/ GetIntent(t, i)
        PROVE  Preserved(t)
    BY <1>1, <2>5, BeginConfirmPreserves, GetIntentPreserves
  <2> QED BY <1>2, <1>3, <2>1, <2>2, <2>3, <2>4, <2>5 DEF Request
<1>4. ASSUME NEW t \in Threads, Continue(t) PROVE DirectoryInv'
  <2>1. Preserved(t)
    BY <1>1, <1>4, LookupPreferencesPreserves, DescribeReceiverPreserves,
       FilterByReceiverPreserves, StoreIntentPreserves, BindHandlePreserves,
       RecheckConfirmPreserves, AdvanceIntentPreserves, ReportConfirmPreserves
       DEF Continue
  <2> QED BY <1>2, <2>1
<1>5. CASE UNCHANGED vars
  <2>1. /\ UNCHANGED <<preferences, handles, intents, pc, req, reply>>
        /\ UNCHANGED <<version, answered, passed>>
    BY <1>5 DEF vars, store, history
  <2>2. VariablesInv'
    BY <1>1, <2>1 DEF VariablesInv, PreferencesKeyed, RoutesHonourReceiver
  <2>3. \A u \in Threads : ThreadInv(u)'
    BY <1>1, <2>1, OtherThreads DEF NothingRemoved
  <2> QED BY <2>2, <2>3
         DEF DirectoryInv, VariablesInv, ThreadInv, TypeOK, HandlesResolve,
             BoundNext
<1> QED BY <1>3, <1>4, <1>5 DEF Next

THEOREM DirectorySafe == Spec => []DirectoryInv
BY DirectoryInit, DirectoryNext, PTL DEF Spec

(* In every reachable state of any number of handlers the shared dicts and *)
(* the locals of every handler of api.py have the types its code assumes.  *)
THEOREM TypeCorrect == Spec => []TypeOK
BY DirectorySafe, PTL DEF DirectoryInv

(* A handle that resolves keeps resolving, for the later lookups of the    *)
(* same request too: to_dict and filter_routes always find the receiver.   *)
THEOREM HandlesAlwaysResolve == Spec => []HandlesResolve
BY DirectorySafe, PTL DEF DirectoryInv

(* No interleaving of registrations with create_payment_intent stores an   *)
(* intent with a route that its receiver's preferences, the ones resolved  *)
(* or the ones filtered by, did not let through.                           *)
THEOREM IntentsHonourReceiver == Spec => []RoutesHonourReceiver
BY DirectorySafe, PTL DEF DirectoryInv

-----------------------------------------------------------------------------
(* Confirms.  While an intent has passed the "created" check at most once, *)
(* at most one handler is inside the loop for it, and the state of the     *)
(* intent is the one that handler wrote in its previous iteration.         *)
Confirming(t, i) == pc[t] = "advance" /\ req[t].intent = i

Before(n) == IF n = 1 THEN "created" ELSE Lifecycle[n - 1]

SerialInv(i) ==
  /\ intents[i] = None => passed[i] = 0
  /\ passed[i] = 0 => /\ \A t \in Threads : ~ Confirming(t, i)
                      /\ intents[i] # None => intents[i].state = "created"
  /\ passed[i] = 1 =>
       \A t \in Threads : Confirming(t, i) =>
         /\ intents[i].state = Before(req[t].step)
         /\ \A u \in Threads : Confirming(u, i) => u = t

\* The id a create request has drawn is nobody else's.
Drawing(t) == pc[t] \in {"lookup", "filter", "store"} /\ req[t].op = "create"

FreshIds ==
  \A t \in Threads : Drawing(t) =>
    /\ intents[req[t].id] = None
    /\ \A u \in Threads : Drawing(u) /\ req[u].id = req[t].id => u = t

ConfirmInv == AtRest /\ FreshIds /\ \A i \in IntentIds : SerialInv(i)

\* A step of t outside the loop that creates no intent and draws no id.
Quiet(t) ==
  /\ UNCHANGED <<intents, passed>>
  /\ \A u \in Threads \ {t} : pc'[u] = pc[u] /\ req'[u] = req[u]
  /\ pc[t] # "advance" /\ pc'[t] # "advance"
  /\ Drawing(t)' => Drawing(t) /\ req'[t].id = req[t].id

LEMMA QuietPreserves ==
  ASSUME ConfirmInv, NEW t \in Threads, Quiet(t)
  PROVE  ConfirmInv'
<1>1. AtRest'
  BY DEF ConfirmInv, Quiet, AtRest
<1>2. FreshIds'
  BY DEF ConfirmInv, Quiet, FreshIds, Drawing
<1>3. ASSUME NEW i \in IntentIds PROVE SerialInv(i)'
  <2>1. \A u \in Threads : Confirming(u, i)' => Confirming(u, i) /\ req'[u] = req[u]
    BY DEF Quiet, Confirming
  <2> QED BY <2>1 DEF ConfirmInv, Quiet, SerialInv
<1> QED BY <1>1, <1>2, <1>3 DEF ConfirmInv

\* A response sent from outside the loop is such a step.
LEMMA AnswerIsQuiet ==
  ASSUME TypeOK, NEW t \in Threads, NEW r, Answer(t, r), pc[t] # "advance",
         UNCHANGED <<intents, passed>>
  PROVE  Quiet(t)
BY DEF TypeOK, Answer, Goto, Quiet, Drawing

\* So is a step that only moves the program counter and rewrites the locals
\* of a request, keeping its operation and its id.
LEMMA MoveIsQuiet ==
  ASSUME TypeOK, NEW t \in Threads, NEW l, NEW q,
         pc' = [pc EXCEPT ![t] = l], req' = [req EXCEPT ![t] = q],
         pc[t] # "advance", l # "advance",
         UNCHANGED <<intents, passed>>,
         l \in {"lookup", "filter", "store"} =>
           q.op # "create" \/ (Drawing(t) /\ q.id = req[t].id)
  PROVE  Quiet(t)
BY DEF TypeOK, Quiet, Drawing

LEMMA LookupIsQuiet ==
  ASSUME TypeOK, NEW t \in Threads, LookupPreferences(t)
  PROVE  Quiet(t)
<1> DEFINE prefs == Lookup(req[t].rid)
           r1 == [req[t] EXCEPT !.prefs = prefs]
           found == FindRoutes(req[t].offer, prefs,
                      IF req[t].op = "create" THEN MaxIntentRoutes ELSE MaxListRoutes)
           r2 == [r1 EXCEPT !.routes = found]
<1>1. pc[t] = "lookup" /\ req[t] \in Query
  BY DEF LookupPreferences, TypeOK, LocalsOK
<1>2. CASE Answer(t, None)
  BY <1>1, <1>2, AnswerIsQuiet DEF LookupPreferences, store, history
<1>3. CASE req' = [req EXCEPT ![t] = r1] /\ pc' = [pc EXCEPT ![t] = "describe"]
  BY <1>1, <1>3, MoveIsQuiet DEF LookupPreferences, store, history
<1>4. CASE req' = [req EXCEPT ![t] = r2] /\ pc' = [pc EXCEPT ![t] = "filter"]
  <2>1. r2.op = req[t].op /\ r2.id = req[t].id
    BY <1>1 DEF Query
  <2>2. UNCHANGED <<intents, passed>>
    BY DEF LookupPreferences, store, history
  <2> HIDE DEF r2
  <2> QED BY <1>1, <1>4, <2>1, <2>2, MoveIsQuiet DEF Drawing
<1>5. \/ Answer(t, None)
      \/ req' = [req EXCEPT ![t] = r1] /\ pc' = [pc EXCEPT ![t] = "describe"]
      \/ req' = [req EXCEPT ![t] = r2] /\ pc' = [pc EXCEPT ![t] = "filter"]
  BY DEF LookupPreferences, Goto, TypeOK
<1> QED BY <1>2, <1>3, <1>4, <1>5

LEMMA FilterIsQuiet ==
  ASSUME TypeOK, NEW t \in Threads, FilterByReceiver(t)
  PROVE  Quiet(t)
<1> DEFINE prefs == preferences[req[t].prefs.receiver]
           r1 == [req[t] EXCEPT !.checked = prefs]
           r2 == [r1 EXCEPT !.routes = FilterRoutes(req[t].routes, prefs)]
<1>1. pc[t] = "filter" /\ req[t] \in Query
  BY DEF FilterByReceiver, TypeOK, LocalsOK
<1>2. UNCHANGED <<intents, passed>>
  BY DEF FilterByReceiver, store, history
<1>3. CASE Answer(t, None)
  BY <1>1, <1>2, <1>3, AnswerIsQuiet
<1>4. CASE req' = [req EXCEPT ![t] = r2] /\ pc' = [pc EXCEPT ![t] = "store"]
  <2>1. r2.op = req[t].op /\ r2.id = req[t].id
    BY <1>1 DEF Query
  <2> HIDE DEF r2
  <2> QED BY <1>1, <1>2, <1>4, <2>1, MoveIsQuiet DEF Drawing
<1>5. \/ Answer(t, None)
      \/ req' = [req EXCEPT ![t] = r2] /\ pc' = [pc EXCEPT ![t] = "store"]
  BY DEF FilterByReceiver, Goto, TypeOK
<1> QED BY <1>3, <1>4, <1>5

LEMMA RecheckKeepsConfirmInv ==
  ASSUME TypeOK, ConfirmInv, NEW t \in Threads, RecheckConfirm(t)
  PROVE  ConfirmInv'
<1>1. PICK i \in IntentIds :
        /\ req[t].intent = i
        /\ pc[t] = "recheck" /\ req[t] \in Confirmation /\ intents[i] # None
  BY DEF RecheckConfirm, TypeOK, LocalsOK, Confirmation
<1>2. UNCHANGED intents
  BY DEF RecheckConfirm, store
<1>3. CASE intents[i].state # "created"
  BY <1>1, <1>2, <1>3, AnswerIsQuiet, QuietPreserves DEF RecheckConfirm
<1>4. CASE intents[i].state = "created"
  <2>1. /\ passed' = [passed EXCEPT ![i] = @ + 1]
        /\ pc' = [pc EXCEPT ![t] = "advance"] /\ UNCHANGED req
    BY <1>1, <1>4 DEF RecheckConfirm, Goto
  <2>2. AtRest'
    BY <1>1, <1>2, <2>1 DEF ConfirmInv, AtRest, TypeOK
  <2>3. FreshIds'
    BY <1>2, <2>1 DEF ConfirmInv, FreshIds, Drawing, TypeOK
  <2>4. ASSUME NEW j \in IntentIds, j # i PROVE SerialInv(j)'
    <3>1. \A u \in Threads : Confirming(u, j)' <=> Confirming(u, j)
      BY <1>1, <2>1, <2>4 DEF Confirming, TypeOK
    <3> QED BY <1>2, <2>1, <2>4, <3>1 DEF ConfirmInv, SerialInv, TypeOK
  <2>5. SerialInv(i)'
    <3>1. passed[i] \in Nat /\ passed'[i] = passed[i] + 1
      BY <1>1, <2>1 DEF TypeOK
    <3>2. CASE passed[i] = 0
      <4>1. \A u \in Threads : Confirming(u, i)' => u = t
        BY <1>1, <2>1, <3>2 DEF ConfirmInv, SerialInv, Confirming, TypeOK
      <4>2. intents'[i].state = Before(req'[t].step)
        <5>1. req[t].step = 1
          BY <1>1 DEF TypeOK, LocalsOK
        <5> QED BY <1>2, <1>4, <2>1, <5>1 DEF Before
      <4> QED BY <1>1, <1>2, <3>1, <3>2, <4>1, <4>2 DEF SerialInv
    <3>3. CASE passed[i] # 0
      BY <1>1, <1>2, <3>1, <3>3 DEF SerialInv
    <3> QED BY <3>2, <3>3
  <2> QED BY <2>2, <2>3, <2>4, <2>5 DEF ConfirmInv
<1> QED BY <1>3, <1>4

LEMMA StoreKeepsConfirmInv ==
  ASSUME TypeOK, ConfirmInv, NEW t \in Threads, StoreIntent(t)
  PROVE  ConfirmInv'
<1> DEFINE n == [receiver |-> req[t].prefs, routes |-> req[t].routes,
                 selected |-> BestRoute(req[t].routes, req[t].prefs),
                 state |-> "created",
                 checked |-> req[t].checked, known |-> req[t].known]
<1>1. PICK i \in IntentIds :
        /\ req[t].id = i /\ Drawing(t)
        /\ intents[i] = None /\ passed[i] = 0
  <2>1. /\ pc[t] = "store" /\ req[t] \in Query
        /\ req[t].op = "create" /\ req[t].id # None
    BY DEF StoreIntent, TypeOK, LocalsOK
  <2>2. Drawing(t) /\ req[t].id \in IntentIds
    BY <2>1 DEF Drawing, Query
  <2> QED BY <2>2 DEF ConfirmInv, FreshIds, SerialInv
<1>2. n.state = "created"
  OBVIOUS
<1>3. intents' = [intents EXCEPT ![i] = n] /\ UNCHANGED passed
  BY <1>1 DEF StoreIntent, history
<1> HIDE DEF n
<1>4. /\ pc'[t] = "idle"
      /\ \A u \in Threads \ {t} : pc'[u] = pc[u] /\ req'[u] = req[u]
  BY DEF StoreIntent, Answer, Goto, TypeOK
<1>5. \A u \in Threads, j \in IntentIds :
        Confirming(u, j)' <=> Confirming(u, j)
  BY <1>1, <1>4 DEF Confirming, Drawing
<1>6. AtRest'
  BY <1>1, <1>2, <1>3, <1>4 DEF ConfirmInv, AtRest, TypeOK, Drawing
<1>7. FreshIds'
  <2>1. \A u \in Threads : Drawing(u)' => u # t /\ Drawing(u) /\ req'[u] = req[u]
    BY <1>4 DEF Drawing
  <2>2. \A u \in Threads : Drawing(u)' => req[u].id # i
    BY <1>1, <2>1 DEF ConfirmInv, FreshIds
  <2>3. \A j : j # i => intents'[j] = intents[j]
    BY <1>1, <1>3 DEF TypeOK
  <2> QED BY <2>1, <2>2, <2>3 DEF ConfirmInv, FreshIds
<1>8. ASSUME NEW j \in IntentIds PROVE SerialInv(j)'
  <2>1. \A u \in Threads : Confirming(u, j)' => u # t /\ req'[u] = req[u]
    BY <1>4 DEF Confirming
  <2>2. CASE j = i
    BY <1>1, <1>2, <1>3, <1>5, <2>2 DEF ConfirmInv, SerialInv, TypeOK
  <2>3. CASE j # i
    BY <1>3, <1>5, <2>1, <2>3 DEF ConfirmInv, SerialInv, TypeOK
  <2> QED BY <2>2, <2>3
<1> QED BY <1>6, <1>7, <1>8 DEF ConfirmInv

LEMMA AdvanceKeepsConfirmInv ==
  ASSUME TypeOK, ConfirmInv, NEW t \in Threads, AdvanceIntent(t)
  PROVE  ConfirmInv'
<1>1. PICK i \in IntentIds, n \in 1..LastStep :
        /\ req[t].intent = i /\ req[t].step = n
        /\ pc[t] = "advance" /\ req[t] \in Confirmation
        /\ intents[i] \in Intent
  BY DEF AdvanceIntent, TypeOK, LocalsOK, Confirmation
<1> DEFINE moved == [intents[i] EXCEPT !.state = Lifecycle[n]]
           r1 == [req[t] EXCEPT !.step = n + 1]
<1>2. moved.state = Lifecycle[n] /\ moved # None
  BY <1>1, NoneIsNoIntent DEF Intent, IntentStates
<1>3. intents' = [intents EXCEPT ![i] = moved] /\ UNCHANGED passed
  BY <1>1 DEF AdvanceIntent, TypeOK, history
<1>4. \/ n < LastStep /\ req' = [req EXCEPT ![t] = r1] /\ UNCHANGED pc
      \/ n = LastStep /\ UNCHANGED req /\ pc' = [pc EXCEPT ![t] = "report"]
  BY <1>1 DEF AdvanceIntent, LoopEnds, Goto, TypeOK, LastStep
<1>5. r1.intent = i /\ r1.step = n + 1
  BY <1>1 DEF Confirmation
<1> HIDE DEF moved, r1
<1>6. \A u \in Threads \ {t} : pc'[u] = pc[u] /\ req'[u] = req[u]
  BY <1>4 DEF TypeOK
<1>7. \A u \in Threads, j \in IntentIds : Confirming(u, j)' => Confirming(u, j)
  BY <1>1, <1>4, <1>5 DEF Confirming, TypeOK
<1>8. AtRest'
  <2>1. ASSUME NEW j \in IntentIds, intents'[j] # None
        PROVE  \/ intents'[j].state \in {"created", "settled"}
               \/ \E u \in Threads : pc'[u] = "advance" /\ req'[u].intent = j
    <3>1. CASE j = i
      <4>1. CASE n < LastStep
        <5>1. pc'[t] = "advance" /\ req'[t].intent = j
          BY <1>1, <1>4, <1>5, <3>1, <4>1 DEF TypeOK, LastStep
        <5> QED BY <5>1
      <4>2. CASE n = LastStep
        <5>1. intents'[j].state = Lifecycle[LastStep]
          BY <1>1, <1>2, <1>3, <3>1, <4>2 DEF TypeOK
        <5> QED BY <5>1 DEF Lifecycle, LastStep
      <4> QED BY <1>4, <4>1, <4>2
    <3>2. CASE j # i
      <4>1. intents'[j] = intents[j]
        BY <1>3, <3>2
      <4>2. CASE intents[j].state \in {"created", "settled"}
        BY <4>1, <4>2
      <4>3. CASE intents[j].state \notin {"created", "settled"}
        <5>1. PICK u \in Threads : pc[u] = "advance" /\ req[u].intent = j
          BY <2>1, <4>1, <4>3 DEF ConfirmInv, AtRest
        <5> QED BY <1>1, <1>6, <3>2, <5>1
      <4> QED BY <4>2, <4>3
    <3> QED BY <3>1, <3>2
  <2> QED BY <2>1 DEF AtRest
<1>9. FreshIds'
  <2>1. \A u \in Threads : Drawing(u)' => u # t /\ Drawing(u) /\ req'[u] = req[u]
    BY <1>1, <1>4, <1>6 DEF Drawing, TypeOK
  <2>2. \A u \in Threads : Drawing(u) => req[u].id # i
    BY <1>1, NoneIsNoIntent DEF ConfirmInv, FreshIds
  <2>3. \A j : j # i => intents'[j] = intents[j]
    BY <1>1, <1>3 DEF TypeOK
  <2> QED BY <2>1, <2>2, <2>3 DEF ConfirmInv, FreshIds
<1>10. ASSUME NEW j \in IntentIds PROVE SerialInv(j)'
  <2>1. CASE j = i
    <3>1. Confirming(t, i)
      BY <1>1 DEF Confirming
    <3>2. passed[i] # 0
      BY <1>1, <3>1 DEF ConfirmInv, SerialInv
    <3>3. ASSUME passed[i] = 1, NEW u \in Threads, Confirming(u, i)'
          PROVE  /\ intents'[i].state = Before(req'[u].step)
                 /\ \A v \in Threads : Confirming(v, i)' => v = u
      <4>1. u = t /\ \A v \in Threads : Confirming(v, i)' => v = t
        BY <1>1, <1>7, <3>1, <3>3 DEF ConfirmInv, SerialInv
      <4>2. req'[t].step = n + 1 /\ n < LastStep
        BY <1>4, <1>5, <3>3, <4>1 DEF TypeOK, Confirming
      <4> QED BY <1>1, <1>2, <1>3, <4>1, <4>2 DEF Before, TypeOK, LastStep
    <3>4. intents'[i] # None
      BY <1>1, <1>2, <1>3 DEF TypeOK
    <3> QED BY <1>3, <2>1, <3>2, <3>3, <3>4 DEF SerialInv
  <2>2. CASE j # i
    <3>1. \A u \in Threads : Confirming(u, j)' => req'[u] = req[u]
      BY <1>1, <1>6, <1>7, <2>2 DEF Confirming
    <3> QED BY <1>3, <1>7, <2>2, <3>1 DEF ConfirmInv, SerialInv, TypeOK
  <2> QED BY <2>1, <2>2
<1> QED BY <1>8, <1>9, <1>10 DEF ConfirmInv

LEMMA ConfirmInit == Init => ConfirmInv
BY DEF Init, ConfirmInv, AtRest, FreshIds, Drawing, SerialInv, Confirming

LEMMA ResolveKeepsConfirmInv ==
  ASSUME TypeOK, ConfirmInv, NEW t \in Threads, NEW op, NEW name, NEW offer,
         NEW id, op = "create" => Fresh(id),
         ResolveHandle(t, op, name, offer, id)
  PROVE  ConfirmInv'
<1> DEFINE rid == IF handles[name] # None THEN handles[name] ELSE name
           q == [op |-> op, id |-> id, rid |-> rid, offer |-> offer,
                 prefs |-> None, checked |-> None, routes |-> {},
                 known |-> {a.ver : a \in {b \in answered : b.receiver = rid}}]
<1>1. /\ req' = [req EXCEPT ![t] = q] /\ q.op = op /\ q.id = id
      /\ pc' = [pc EXCEPT ![t] = "lookup"]
  BY DEF ResolveHandle, Goto
<1> HIDE DEF q
<1>2. pc[t] = "idle" /\ UNCHANGED <<intents, passed>>
  BY DEF ResolveHandle, store, history
<1>3. CASE op # "create"
  BY <1>1, <1>2, <1>3, MoveIsQuiet, QuietPreserves
<1>4. CASE op = "create"
  <2>1. AtRest'
    BY <1>1, <1>2 DEF ConfirmInv, AtRest, TypeOK
  <2>2. FreshIds'
    <3>1. \A u \in Threads \ {t} : /\ Drawing(u)' <=> Drawing(u)
                                   /\ req'[u] = req[u]
      BY <1>1 DEF Drawing, TypeOK
    <3>2. req'[t].id = id
      BY <1>1 DEF TypeOK
    <3>3. intents[id] = None /\ \A u \in Threads : Drawing(u) => req[u].id # id
      BY <1>4 DEF Fresh, Drawing
    <3> QED BY <1>2, <3>1, <3>2, <3>3 DEF ConfirmInv, FreshIds
  <2>3. ASSUME NEW i \in IntentIds PROVE SerialInv(i)'
    <3>1. \A u \in Threads : Confirming(u, i)' => Confirming(u, i) /\ req'[u] = req[u]
      BY <1>1 DEF Confirming, TypeOK
    <3> QED BY <1>2, <3>1 DEF ConfirmInv, SerialInv
  <2> QED BY <2>1, <2>2, <2>3 DEF ConfirmInv
<1> QED BY <1>3, <1>4

LEMMA ConfirmNext == TypeOK /\ ConfirmInv /\ [Next]_vars => ConfirmInv'
<1> SUFFICES ASSUME TypeOK, ConfirmInv, [Next]_vars PROVE ConfirmInv'
  OBVIOUS
<1>1. ASSUME NEW t \in Threads, Request(t) PROVE ConfirmInv'
  <2>1. ASSUME NEW n \in Names, NEW o \in Offers, NEW i \in IntentIds,
               Fresh(i), ResolveHandle(t, "create", n, o, i)
        PROVE  ConfirmInv'
    BY <2>1, ResolveKeepsConfirmInv
  <2>2. ASSUME NEW n \in Names, ResolveHandle(t, "list", n, ListOffer, None)
        PROVE  ConfirmInv'
    BY <2>2, ResolveKeepsConfirmInv
  <2>3. ASSUME NEW n \in Names, ResolveHandle(t, "resolve", n, {}, None)
        PROVE  ConfirmInv'
    BY <2>3, ResolveKeepsConfirmInv
  <2>4. ASSUME NEW r \in Receivers, NEW h \in Handles, NEW c \in Choices,
               RegisterPreferences(t, r, h, c)
        PROVE  ConfirmInv'
    BY <2>4, MoveIsQuiet, QuietPreserves DEF RegisterPreferences, Goto
  <2>5. ASSUME NEW i \in IntentIds, BeginConfirm(t, i) PROVE ConfirmInv'
    <3>1. pc[t] = "idle" /\ UNCHANGED <<intents, passed>>
      BY <2>5 DEF BeginConfirm, store, history
    <3>2. CASE intents[i] = None
      BY <2>5, <3>1, <3>2, AnswerIsQuiet, QuietPreserves DEF BeginConfirm
    <3>3. CASE intents[i] # None
      BY <2>5, <3>1, <3>3, MoveIsQuiet, QuietPreserves DEF BeginConfirm, Goto
    <3> QED BY <3>2, <3>3
  <2>6. ASSUME NEW i \in IntentIds, GetIntent(t, i) PROVE ConfirmInv'
    BY <2>6, AnswerIsQuiet, QuietPreserves DEF GetIntent, store, history
  <2> QED BY <1>1, <2>1, <2>2, <2>3, <2>4, <2>5, <2>6 DEF Request
<1>2. ASSUME NEW t \in Threads, Continue(t) PROVE ConfirmInv'
  <2>1. CASE LookupPreferences(t) \/ FilterByReceiver(t)
    BY <2>1, LookupIsQuiet, FilterIsQuiet, QuietPreserves
  <2>2. CASE DescribeReceiver(t) \/ ReportConfirm(t)
    BY <2>2, AnswerIsQuiet, QuietPreserves
       DEF DescribeReceiver, ReportConfirm, store, history
  <2>3. CASE BindHandle(t)
    BY <2>3, AnswerIsQuiet, QuietPreserves DEF BindHandle
  <2>4. CASE StoreIntent(t) \/ RecheckConfirm(t) \/ AdvanceIntent(t)
    BY <2>4, StoreKeepsConfirmInv, RecheckKeepsConfirmInv, AdvanceKeepsConfirmInv
  <2> QED BY <1>2, <2>1, <2>2, <2>3, <2>4 DEF Continue
<1>3. CASE UNCHANGED vars
  BY <1>3 DEF vars, store, history, ConfirmInv, AtRest, FreshIds, Drawing,
              SerialInv, Confirming
<1> QED BY <1>1, <1>2, <1>3 DEF Next

THEOREM ConfirmSafe == Spec => []ConfirmInv
BY TypeCorrect, ConfirmInit, ConfirmNext, PTL DEF Spec

(* An intent no handler is confirming is either created or settled: the    *)
(* intermediate states of confirm_payment_intent's loop never outlive it.  *)
THEOREM ConfirmComesToRest == Spec => []AtRest
BY ConfirmSafe, PTL DEF ConfirmInv

-----------------------------------------------------------------------------
LEMMA ProgressOfLifecycle ==
  ASSUME NEW n \in 1..LastStep
  PROVE  Progress(Lifecycle[n]) = n /\ Progress(Before(n)) = n - 1
<1>1. \A m, k \in 1..LastStep : Lifecycle[m] = Lifecycle[k] => m = k
  BY DEF Lifecycle, LastStep
<1>2. \A m \in 1..LastStep : Lifecycle[m] # "created"
  BY DEF Lifecycle, LastStep
<1>3. \A m \in 1..LastStep : Progress(Lifecycle[m]) = m
  <2>1. TAKE m \in 1..LastStep
  <2>2. \A k \in 1..LastStep : Lifecycle[k] = Lifecycle[m] <=> k = m
    BY <1>1
  <2> QED BY <1>2, <2>2 DEF Progress
<1>4. CASE n = 1
  BY <1>3, <1>4 DEF Before, Progress
<1>5. CASE n # 1
  BY <1>3, <1>5 DEF Before, LastStep
<1> QED BY <1>3, <1>4, <1>5

\* Only two actions write intents.
LEMMA IntentWriters ==
  ASSUME [Next]_vars
  PROVE  \/ UNCHANGED intents
         \/ \E t \in Threads : StoreIntent(t) \/ AdvanceIntent(t)
BY ZenonT(30)
   DEF Next, Request, Continue, vars, store, ResolveHandle,
       RegisterPreferences, BeginConfirm, GetIntent, LookupPreferences,
       DescribeReceiver, FilterByReceiver, BindHandle, RecheckConfirm,
       ReportConfirm

LEMMA StepForward ==
  TypeOK /\ ConfirmInv /\ [Next]_vars =>
    \A i \in IntentIds :
      intents[i] # None /\ passed[i] <= 1 =>
        Progress(intents[i].state) <= Progress(intents'[i].state)
<1> SUFFICES ASSUME TypeOK, ConfirmInv, [Next]_vars, NEW i \in IntentIds,
                    intents[i] # None, passed[i] <= 1
             PROVE  Progress(intents[i].state) <= Progress(intents'[i].state)
  OBVIOUS
<1>1. Progress(intents[i].state) \in Nat
  <2>1. intents[i].state \in IntentStates
    BY DEF TypeOK, Intent
  <2> QED BY <2>1, ProgressOfLifecycle DEF IntentStates, Progress, LastStep
<1>2. CASE intents'[i] = intents[i]
  BY <1>1, <1>2
<1>3. ASSUME NEW t \in Threads, StoreIntent(t) PROVE intents'[i] = intents[i]
  <2>1. Drawing(t) /\ req[t].id # i
    BY <1>3 DEF StoreIntent, TypeOK, LocalsOK, Drawing, ConfirmInv, FreshIds
  <2> QED BY <1>3, <2>1 DEF StoreIntent, TypeOK
<1>4. ASSUME NEW t \in Threads, AdvanceIntent(t)
      PROVE  Progress(intents[i].state) <= Progress(intents'[i].state)
  <2>1. CASE req[t].intent # i
    <3>1. intents'[i] = intents[i]
      BY <1>4, <2>1 DEF AdvanceIntent, TypeOK
    <3> QED BY <1>1, <3>1
  <2>2. CASE req[t].intent = i
    <3>1. PICK n \in 1..LastStep : req[t].step = n
      BY <1>4 DEF AdvanceIntent, TypeOK, LocalsOK, Confirmation
    <3>2. Confirming(t, i) /\ passed[i] \in Nat
      BY <1>4, <2>2 DEF AdvanceIntent, Confirming, TypeOK
    <3>3. intents[i].state = Before(n)
      BY <3>1, <3>2 DEF ConfirmInv, SerialInv
    <3>4. intents'[i].state = Lifecycle[n]
      <4>1. intents[i] \in Intent
        BY DEF TypeOK
      <4> QED BY <1>4, <2>2, <3>1, <4>1 DEF AdvanceIntent, TypeOK, Intent
    <3> QED BY <3>1, <3>3, <3>4, ProgressOfLifecycle
  <2> QED BY <2>1, <2>2
<1>5. ASSUME UNCHANGED intents PROVE intents'[i] = intents[i]
  BY <1>5
<1> QED BY <1>2, <1>3, <1>4, <1>5, IntentWriters

(* Confirms that do not overlap only ever move an intent forwards along    *)
(* the lifecycle: it takes two handlers past the "created" check of        *)
(* confirm_payment_intent to rewind a state.                               *)
THEOREM SerialConfirms == Spec => SerialConfirmsAdvance
<1>1. TypeOK /\ ConfirmInv /\ [Next]_vars =>
        [\A i \in IntentIds :
           intents[i] # None /\ passed[i] <= 1 =>
             Progress(intents[i].state) <= Progress(intents'[i].state)]_vars
  BY StepForward
<1> QED BY <1>1, TypeCorrect, ConfirmSafe, PTL DEF Spec, SerialConfirmsAdvance

-----------------------------------------------------------------------------
(* What a confirm reads after its loop.  A handler about to report finds   *)
(* the intent settled, and only a second handler past the check rewinds    *)
(* it: the first is the only one in the loop, and never finds it settled.  *)
ReportsSettled ==
  \A t \in Threads : pc[t] = "report" /\ passed[req[t].intent] <= 1 =>
    intents[req[t].intent].state = "settled"

LEMMA NeverSettledBefore ==
  ASSUME NEW n \in 1..LastStep
  PROVE  Before(n) # "settled"
<1>1. n - 1 \in 1..(LastStep - 1) \/ n = 1
  BY DEF LastStep
<1> QED BY <1>1 DEF Before, Lifecycle, LastStep

LEMMA ReportInit == Init => ReportsSettled
BY DEF Init, ReportsSettled

\* A settled intent stays settled unless two confirms have passed the check.
LEMMA SettledStays ==
  ASSUME TypeOK, ConfirmInv, [Next]_vars, NEW i \in IntentIds,
         intents[i] # None, intents[i].state = "settled", passed[i] <= 1
  PROVE  intents'[i].state = "settled"
<1>1. CASE intents'[i] = intents[i]
  BY <1>1
<1>2. ASSUME NEW t \in Threads, StoreIntent(t) PROVE intents'[i] = intents[i]
  <2>1. Drawing(t) /\ req[t].id # i
    BY <1>2 DEF StoreIntent, TypeOK, LocalsOK, Drawing, ConfirmInv, FreshIds
  <2> QED BY <1>2, <2>1 DEF StoreIntent, TypeOK
<1>3. ASSUME NEW t \in Threads, AdvanceIntent(t) PROVE intents'[i] = intents[i]
  <2>1. CASE req[t].intent # i
    BY <1>3, <2>1 DEF AdvanceIntent, TypeOK
  <2>2. CASE req[t].intent = i
    <3>1. req[t].step \in 1..LastStep
      BY <1>3 DEF AdvanceIntent, TypeOK, LocalsOK, Confirmation
    <3>2. Confirming(t, i) /\ passed[i] \in Nat
      BY <1>3, <2>2 DEF AdvanceIntent, Confirming, TypeOK
    <3>3. intents[i].state = Before(req[t].step)
      BY <3>2 DEF ConfirmInv, SerialInv
    <3> QED BY <3>1, <3>3, NeverSettledBefore
  <2> QED BY <2>1, <2>2
<1> QED BY <1>1, <1>2, <1>3, IntentWriters

\* No step lowers the number of confirms that saw an intent "created".
LEMMA PassedGrows ==
  ASSUME TypeOK, [Next]_vars, NEW i \in IntentIds, passed'[i] <= 1
  PROVE  passed[i] <= 1
<1>1. \A j \in IntentIds : passed[j] \in Nat
  BY DEF TypeOK
<1>2. CASE UNCHANGED passed
  BY <1>2
<1>3. CASE \E t \in Threads : RecheckConfirm(t)
  BY <1>1, <1>3 DEF RecheckConfirm, TypeOK
<1>4. UNCHANGED passed \/ \E t \in Threads : RecheckConfirm(t)
  BY ZenonT(30)
     DEF Next, Request, Continue, vars, history, ResolveHandle,
         RegisterPreferences, BeginConfirm, GetIntent, LookupPreferences,
         DescribeReceiver, FilterByReceiver, StoreIntent, BindHandle,
         AdvanceIntent, ReportConfirm
<1> QED BY <1>2, <1>3, <1>4

\* How a thread comes to report: the intent is settled already, or the loop
\* has just written its last state.
LEMMA ReportBegins ==
  ASSUME TypeOK, [Next]_vars, NEW u \in Threads, pc'[u] = "report"
  PROVE  \/ pc[u] = "report" /\ req'[u] = req[u]
         \/ /\ req'[u].intent \in IntentIds
            /\ intents'[req'[u].intent].state = "settled"
<1>1. ASSUME NEW t \in Threads, Request(t) \/ Continue(t), t # u
      PROVE  pc'[u] = pc[u] /\ req'[u] = req[u]
  <2>1. CASE Request(t)
    BY <1>1, <2>1 DEF TypeOK, Request, ResolveHandle, RegisterPreferences,
       BeginConfirm, GetIntent, Answer, Goto
  <2>2. CASE Continue(t)
    BY <1>1, <2>2 DEF TypeOK, Continue, LookupPreferences, DescribeReceiver,
       FilterByReceiver, StoreIntent, BindHandle, RecheckConfirm,
       AdvanceIntent, ReportConfirm, Answer, Goto
  <2> QED BY <1>1, <2>1, <2>2
<1>2. CASE UNCHANGED vars
  BY <1>2 DEF vars
<1>3. CASE Request(u)
  <2>1. PICK i \in IntentIds : BeginConfirm(u, i)
    BY <1>3 DEF TypeOK, Request, ResolveHandle, RegisterPreferences,
                GetIntent, Answer, Goto
  <2>2. /\ intents[i].state = "settled" /\ UNCHANGED intents
        /\ req' = [req EXCEPT ![u] =
             [op |-> "confirm", intent |-> i, step |-> 1]]
    BY <2>1 DEF BeginConfirm, Answer, Goto, store, TypeOK
  <2> QED BY <2>2 DEF TypeOK
<1>4. CASE Continue(u)
  <2>1. AdvanceIntent(u)
    BY <1>4 DEF TypeOK, Continue, LookupPreferences, DescribeReceiver,
                FilterByReceiver, StoreIntent, BindHandle, RecheckConfirm,
                ReportConfirm, Answer, Goto
  <2>2. PICK i \in IntentIds :
          req[u].intent = i /\ intents[i] \in Intent /\ pc[u] = "advance"
    BY <2>1 DEF AdvanceIntent, TypeOK, LocalsOK, Confirmation
  <2>3. UNCHANGED req /\ LoopEnds(req[u].step)
    BY <2>1, <2>2 DEF AdvanceIntent
  <2>4. Lifecycle[req[u].step] = "settled"
    BY <2>3 DEF LoopEnds, LastStep, Lifecycle
  <2>5. intents'[i].state = Lifecycle[req[u].step]
    BY <2>1, <2>2 DEF AdvanceIntent, TypeOK, Intent
  <2> QED BY <2>2, <2>3, <2>4, <2>5
<1> QED BY <1>1, <1>2, <1>3, <1>4 DEF Next

LEMMA ReportNext ==
  TypeOK /\ ConfirmInv /\ ReportsSettled /\ [Next]_vars => ReportsSettled'
<1> SUFFICES ASSUME TypeOK, ConfirmInv, ReportsSettled, [Next]_vars,
                    NEW u \in Threads, pc'[u] = "report",
                    passed'[req'[u].intent] <= 1
             PROVE  intents'[req'[u].intent].state = "settled"
  BY DEF ReportsSettled
<1>1. CASE pc[u] = "report" /\ req'[u] = req[u]
  <2>1. PICK i \in IntentIds : req[u].intent = i /\ intents[i] # None
    BY <1>1 DEF TypeOK, LocalsOK, Confirmation
  <2>2. passed[i] <= 1
    BY <1>1, <2>1, PassedGrows
  <2>3. intents[i].state = "settled"
    BY <1>1, <2>1, <2>2 DEF ReportsSettled
  <2> QED BY <1>1, <2>1, <2>2, <2>3, SettledStays
<1>2. CASE intents'[req'[u].intent].state = "settled"
  BY <1>2
<1> QED BY <1>1, <1>2, ReportBegins

THEOREM ReportSafe == Spec => []ReportsSettled
BY TypeCorrect, ConfirmSafe, ReportInit, ReportNext, PTL DEF Spec

\* A handler about to report sends its response in no step but ReportConfirm.
LEMMA OnlyReportReplies ==
  ASSUME TypeOK, [Next]_vars, NEW u \in Threads, pc[u] = "report",
         reply'[u] # reply[u]
  PROVE  ReportConfirm(u)
<1>1. ASSUME NEW t \in Threads, Request(t) \/ Continue(t), t # u
      PROVE  reply'[u] = reply[u]
  <2>1. CASE Request(t)
    BY <1>1, <2>1 DEF TypeOK, Request, ResolveHandle, RegisterPreferences,
       BeginConfirm, GetIntent, Answer
  <2>2. CASE Continue(t)
    BY <1>1, <2>2 DEF TypeOK, Continue, LookupPreferences, DescribeReceiver,
       FilterByReceiver, StoreIntent, BindHandle, RecheckConfirm,
       AdvanceIntent, ReportConfirm, Answer
  <2> QED BY <1>1, <2>1, <2>2
<1>2. CASE UNCHANGED vars
  BY <1>2 DEF vars
<1>3. ~Request(u)
  BY DEF Request, ResolveHandle, RegisterPreferences, BeginConfirm, GetIntent
<1>4. CASE Continue(u)
  BY <1>4 DEF Continue, LookupPreferences, DescribeReceiver, FilterByReceiver,
              StoreIntent, BindHandle, RecheckConfirm, AdvanceIntent
<1> QED BY <1>1, <1>2, <1>3, <1>4 DEF Next

(* A confirm that reports at all reports "settled", unless a second one    *)
(* saw the intent "created": confirm_payment_intent answers what it reads  *)
(* after its loop.                                                         *)
THEOREM ConfirmsReport == Spec => SerialConfirmsReport
<1>1. TypeOK /\ ReportsSettled /\ [Next]_vars =>
        [\A t \in Threads :
           pc[t] = "report" /\ passed[req[t].intent] <= 1
             /\ reply'[t] # reply[t] => reply'[t].state = "settled"]_vars
  <2> SUFFICES ASSUME TypeOK, ReportsSettled, [Next]_vars, NEW t \in Threads,
                      pc[t] = "report", passed[req[t].intent] <= 1,
                      reply'[t] # reply[t]
               PROVE  reply'[t].state = "settled"
    OBVIOUS
  <2>1. ReportConfirm(t)
    BY OnlyReportReplies
  <2>2. intents[req[t].intent].state = "settled"
    BY DEF ReportsSettled
  <2> QED BY <2>1, <2>2 DEF ReportConfirm, Answer, TypeOK
<1> QED BY <1>1, TypeCorrect, ReportSafe, PTL DEF Spec, SerialConfirmsReport
-----------------------------------------------------------------------------
(* Read your writes.  The versions stored for a receiver only grow, so a   *)
(* version reached once stays reached: that of an answered registration,   *)
(* of one about to be answered, and of the object a request has resolved.  *)
Reached(r, v) ==
  r \in Receivers /\ preferences[r] # None /\ v <= preferences[r].ver

VersionsBounded ==
  \A r \in Receivers : preferences[r] # None => preferences[r].ver <= version

AnsweredReached == \A a \in answered : Reached(a.receiver, a.ver)

RequestIsFresh(t) ==
  /\ pc[t] = "bind" => Reached(req[t].receiver, req[t].ver)
  /\ pc[t] = "lookup" => \A v \in req[t].known : Reached(req[t].rid, v)
  /\ pc[t] \in {"filter", "store"} =>
       /\ \A v \in req[t].known : v <= req[t].prefs.ver
       /\ Reached(req[t].prefs.receiver, req[t].prefs.ver)
  /\ pc[t] = "store" => req[t].prefs.ver <= req[t].checked.ver

FreshInv ==
  /\ VersionsBounded
  /\ AnsweredReached
  /\ \A t \in Threads : RequestIsFresh(t)
  /\ IntentsUseFreshPreferences

\* Stored preferences are only replaced by later ones.
NothingOlder ==
  \A r \in Receivers : preferences[r] # None =>
    preferences'[r] # None /\ preferences[r].ver <= preferences'[r].ver

LEMMA ReachedStays ==
  ASSUME TypeOK, TypeOK', NothingOlder, NEW r, NEW v \in Nat, Reached(r, v)
  PROVE  Reached(r, v)'
<1>1. preferences[r] \in Preference /\ preferences'[r] \in Preference
  BY DEF TypeOK, Reached, NothingOlder
<1>2. preferences[r].ver \in Nat /\ preferences'[r].ver \in Nat
  BY <1>1 DEF Preference
<1>3. preferences'[r] # None /\ preferences[r].ver <= preferences'[r].ver
  BY DEF Reached, NothingOlder
<1> QED BY <1>2, <1>3 DEF Reached

\* A step of one thread leaves the other requests as fresh as they were.
LEMMA OthersStayFresh ==
  ASSUME TypeOK, TypeOK', NothingOlder, NEW u \in Threads, RequestIsFresh(u),
         pc'[u] = pc[u], req'[u] = req[u]
  PROVE  RequestIsFresh(u)'
<1>1. CASE pc[u] = "bind"
  <2>1. req[u].ver \in Nat
    BY <1>1 DEF TypeOK, LocalsOK, Registration
  <2> QED BY <1>1, <2>1, ReachedStays DEF RequestIsFresh
<1>2. CASE pc[u] = "lookup"
  <2>1. req[u].known \subseteq Nat
    BY <1>2 DEF TypeOK, LocalsOK, Query
  <2> QED BY <1>2, <2>1, ReachedStays DEF RequestIsFresh
<1>3. CASE pc[u] \in {"filter", "store"}
  <2>1. req[u].prefs.ver \in Nat
    BY <1>3 DEF TypeOK, LocalsOK, Preference
  <2> QED BY <1>3, <2>1, ReachedStays DEF RequestIsFresh
<1>4. CASE pc[u] \notin {"bind", "lookup", "filter", "store"}
  BY <1>4 DEF RequestIsFresh
<1> QED BY <1>1, <1>2, <1>3, <1>4

\* What a step of thread t has to establish.
KeepsFresh(t) ==
  /\ NothingOlder
  /\ VersionsBounded'
  /\ AnsweredReached'
  /\ RequestIsFresh(t)'
  /\ \A u \in Threads \ {t} : pc'[u] = pc[u] /\ req'[u] = req[u]
  /\ IntentsUseFreshPreferences'

LEMMA KeepsFreshSuffices ==
  ASSUME TypeOK, TypeOK', FreshInv, NEW t \in Threads, KeepsFresh(t)
  PROVE  FreshInv'
<1>1. ASSUME NEW u \in Threads PROVE RequestIsFresh(u)'
  <2>1. CASE u = t
    BY <2>1 DEF KeepsFresh
  <2>2. CASE u # t
    BY <2>2, OthersStayFresh DEF KeepsFresh, FreshInv
  <2> QED BY <2>1, <2>2
<1> QED BY <1>1 DEF KeepsFresh, FreshInv

\* The directory and what was answered about it stay as they are.
DirectoryUnchanged == UNCHANGED <<preferences, version, answered>>

LEMMA UnchangedDirectoryIsFresh ==
  ASSUME TypeOK, FreshInv, DirectoryUnchanged
  PROVE  NothingOlder /\ VersionsBounded' /\ AnsweredReached'
<1>1. \A r \in Receivers : preferences[r] # None => preferences[r].ver \in Nat
  BY DEF TypeOK, Preference
<1>2. NothingOlder
  BY <1>1 DEF NothingOlder, DirectoryUnchanged
<1>3. VersionsBounded' /\ AnsweredReached'
  BY DEF FreshInv, VersionsBounded, AnsweredReached, Reached, DirectoryUnchanged
<1> QED BY <1>2, <1>3

\* A step that neither writes the directory nor leaves its thread holding
\* anything read from it.
Inert(t) ==
  /\ DirectoryUnchanged
  /\ pc'[t] \notin {"bind", "lookup", "filter", "store"}
  /\ \A u \in Threads \ {t} : pc'[u] = pc[u] /\ req'[u] = req[u]
  /\ IntentsUseFreshPreferences'

LEMMA InertKeepsFresh ==
  ASSUME TypeOK, TypeOK', FreshInv, NEW t \in Threads, Inert(t)
  PROVE  FreshInv'
<1>1. NothingOlder /\ VersionsBounded' /\ AnsweredReached'
  BY UnchangedDirectoryIsFresh DEF Inert
<1>2. RequestIsFresh(t)'
  BY DEF Inert, RequestIsFresh
<1> QED BY <1>1, <1>2, KeepsFreshSuffices DEF Inert, KeepsFresh

LEMMA AnswerIsInert ==
  ASSUME TypeOK, FreshInv, NEW t \in Threads, NEW r, Answer(t, r),
         UNCHANGED <<preferences, intents, version, answered>>
  PROVE  Inert(t)
<1>1. /\ pc'[t] = "idle"
      /\ \A u \in Threads \ {t} : pc'[u] = pc[u] /\ req'[u] = req[u]
  BY DEF Answer, Goto, TypeOK
<1>2. IntentsUseFreshPreferences'
  BY DEF FreshInv, IntentsUseFreshPreferences
<1> QED BY <1>1, <1>2 DEF Inert, DirectoryUnchanged

LEMMA ResolveKeepsFresh ==
  ASSUME TypeOK, TypeOK', FreshInv, NEW t \in Threads, NEW op, NEW name,
         NEW offer, NEW id, ResolveHandle(t, op, name, offer, id)
  PROVE  FreshInv'
<1> DEFINE rid == IF handles[name] # None THEN handles[name] ELSE name
           known == {a.ver : a \in {b \in answered : b.receiver = rid}}
           q == [op |-> op, id |-> id, rid |-> rid, offer |-> offer,
                 prefs |-> None, checked |-> None, routes |-> {},
                 known |-> known]
<1>1. /\ req' = [req EXCEPT ![t] = q] /\ pc' = [pc EXCEPT ![t] = "lookup"]
      /\ UNCHANGED intents /\ DirectoryUnchanged
  BY DEF ResolveHandle, Goto, store, history, DirectoryUnchanged
<1>2. q.rid = rid /\ q.known = known
  OBVIOUS
<1>3. \A v \in known : Reached(rid, v)
  BY DEF FreshInv, AnsweredReached
<1> HIDE DEF q, known, rid
<1>4. RequestIsFresh(t)'
  BY <1>1, <1>2, <1>3 DEF RequestIsFresh, Reached, DirectoryUnchanged, TypeOK
<1>5. IntentsUseFreshPreferences'
  BY <1>1 DEF FreshInv, IntentsUseFreshPreferences
<1>6. NothingOlder /\ VersionsBounded' /\ AnsweredReached'
  BY <1>1, UnchangedDirectoryIsFresh
<1>7. KeepsFresh(t)
  BY <1>1, <1>4, <1>5, <1>6 DEF KeepsFresh, TypeOK
<1> QED BY <1>7, KeepsFreshSuffices

LEMMA LookupKeepsFresh ==
  ASSUME TypeOK, TypeOK', PreferencesKeyed, FreshInv, NEW t \in Threads,
         LookupPreferences(t)
  PROVE  FreshInv'
<1> DEFINE prefs == Lookup(req[t].rid)
           max == IF req[t].op = "create" THEN MaxIntentRoutes
                                          ELSE MaxListRoutes
           r1 == [req[t] EXCEPT !.prefs = prefs]
           r2 == [r1 EXCEPT !.routes = FindRoutes(req[t].offer, prefs, max)]
<1>1. CASE prefs = None
  <2>1. Answer(t, None) /\ UNCHANGED <<preferences, intents, version, answered>>
    BY <1>1 DEF LookupPreferences, store, history
  <2> QED BY <2>1, AnswerIsInert, InertKeepsFresh
<1>2. CASE prefs # None
  <2>1. /\ UNCHANGED intents /\ DirectoryUnchanged
        /\ \/ /\ req' = [req EXCEPT ![t] = r1]
              /\ pc' = [pc EXCEPT ![t] = "describe"]
           \/ /\ req' = [req EXCEPT ![t] = r2]
              /\ pc' = [pc EXCEPT ![t] = "filter"]
    BY <1>2 DEF LookupPreferences, Goto, store, history,
                DirectoryUnchanged, TypeOK
  <2>2. /\ req[t].rid \in Receivers /\ prefs = preferences[req[t].rid]
        /\ prefs \in Preference /\ prefs.receiver = req[t].rid
        /\ prefs.ver \in Nat
    BY <1>2 DEF Lookup, TypeOK, PreferencesKeyed, Preference
  <2>3. /\ \A v \in req[t].known : v <= prefs.ver
        /\ Reached(prefs.receiver, prefs.ver)
    BY <1>2, <2>2 DEF LookupPreferences, FreshInv, RequestIsFresh, Reached
  <2>4. r2.prefs = prefs /\ r2.known = req[t].known
    BY DEF LookupPreferences, TypeOK, LocalsOK, Query
  <2> HIDE DEF r1, r2, prefs, max
  <2>5. RequestIsFresh(t)'
    BY <2>1, <2>3, <2>4 DEF RequestIsFresh, Reached, DirectoryUnchanged, TypeOK
  <2>6. IntentsUseFreshPreferences'
    BY <2>1 DEF FreshInv, IntentsUseFreshPreferences
  <2>7. NothingOlder /\ VersionsBounded' /\ AnsweredReached'
    BY <2>1, UnchangedDirectoryIsFresh
  <2>8. KeepsFresh(t)
    BY <2>1, <2>5, <2>6, <2>7 DEF KeepsFresh, TypeOK
  <2> QED BY <2>8, KeepsFreshSuffices
<1> QED BY <1>1, <1>2

LEMMA FilterKeepsFresh ==
  ASSUME TypeOK, TypeOK', FreshInv, NEW t \in Threads, FilterByReceiver(t)
  PROVE  FreshInv'
<1> DEFINE prefs == preferences[req[t].prefs.receiver]
           kept == FilterRoutes(req[t].routes, prefs)
           r1 == [req[t] EXCEPT !.checked = prefs]
           r2 == [r1 EXCEPT !.routes = kept]
<1>1. UNCHANGED <<preferences, intents, version, answered>>
  BY DEF FilterByReceiver, store, history
<1>2. CASE Answer(t, None)
  BY <1>1, <1>2, AnswerIsInert, InertKeepsFresh
<1>3. CASE req' = [req EXCEPT ![t] = r2] /\ pc' = [pc EXCEPT ![t] = "store"]
  <2>1. pc[t] = "filter" /\ req[t] \in Query
    BY DEF FilterByReceiver, TypeOK, LocalsOK
  <2>2. /\ r2.prefs = req[t].prefs /\ r2.known = req[t].known
        /\ r2.checked = prefs
    BY <2>1 DEF Query
  <2>3. /\ \A v \in req[t].known : v <= req[t].prefs.ver
        /\ Reached(req[t].prefs.receiver, req[t].prefs.ver)
        /\ req[t].prefs.ver <= prefs.ver
    BY <2>1 DEF FreshInv, RequestIsFresh, Reached
  <2> HIDE DEF r1, r2, prefs, kept
  <2>4. RequestIsFresh(t)'
    BY <1>1, <1>3, <2>2, <2>3 DEF RequestIsFresh, Reached, TypeOK
  <2>5. IntentsUseFreshPreferences'
    BY <1>1 DEF FreshInv, IntentsUseFreshPreferences
  <2>6. NothingOlder /\ VersionsBounded' /\ AnsweredReached'
    BY <1>1, UnchangedDirectoryIsFresh DEF DirectoryUnchanged
  <2>7. KeepsFresh(t)
    BY <1>3, <2>4, <2>5, <2>6 DEF KeepsFresh, TypeOK
  <2> QED BY <2>7, KeepsFreshSuffices
<1>4. Answer(t, None) \/ /\ req' = [req EXCEPT ![t] = r2]
                         /\ pc' = [pc EXCEPT ![t] = "store"]
  BY DEF FilterByReceiver, Goto, TypeOK
<1> QED BY <1>2, <1>3, <1>4

LEMMA StoreKeepsFresh ==
  ASSUME TypeOK, TypeOK', FreshInv, NEW t \in Threads, StoreIntent(t)
  PROVE  FreshInv'
<1> DEFINE n == [receiver |-> req[t].prefs, routes |-> req[t].routes,
                 selected |-> BestRoute(req[t].routes, req[t].prefs),
                 state |-> "created",
                 checked |-> req[t].checked, known |-> req[t].known]
<1>1. /\ intents' = [intents EXCEPT ![req[t].id] = n]
      /\ Answer(t, None) /\ DirectoryUnchanged
  BY DEF StoreIntent, history, DirectoryUnchanged
<1>2. /\ \A v \in n.known : v <= n.receiver.ver
      /\ n.receiver.ver <= n.checked.ver
  BY DEF StoreIntent, FreshInv, RequestIsFresh
<1> HIDE DEF n
<1>3. IntentsUseFreshPreferences'
  BY <1>1, <1>2 DEF FreshInv, IntentsUseFreshPreferences, TypeOK
<1>4. /\ pc'[t] = "idle"
      /\ \A u \in Threads \ {t} : pc'[u] = pc[u] /\ req'[u] = req[u]
  BY <1>1 DEF Answer, Goto, TypeOK
<1>5. Inert(t)
  BY <1>1, <1>3, <1>4 DEF Inert
<1> QED BY <1>5, InertKeepsFresh

LEMMA AdvanceKeepsFresh ==
  ASSUME TypeOK, TypeOK', FreshInv, NEW t \in Threads, AdvanceIntent(t)
  PROVE  FreshInv'
<1>1. PICK i \in IntentIds, n \in 1..LastStep :
        /\ req[t].intent = i /\ req[t].step = n
        /\ pc[t] = "advance" /\ intents[i] \in Intent
  BY DEF AdvanceIntent, TypeOK, LocalsOK, Confirmation
<1> DEFINE moved == [intents[i] EXCEPT !.state = Lifecycle[n]]
           r1 == [req[t] EXCEPT !.step = n + 1]
<1>2. /\ moved.known = intents[i].known /\ moved.checked = intents[i].checked
      /\ moved.receiver = intents[i].receiver
  BY <1>1 DEF Intent
<1>3. intents' = [intents EXCEPT ![i] = moved] /\ DirectoryUnchanged
  BY <1>1 DEF AdvanceIntent, history, DirectoryUnchanged
<1>4. \/ req' = [req EXCEPT ![t] = r1] /\ UNCHANGED pc
      \/ UNCHANGED req /\ pc' = [pc EXCEPT ![t] = "report"]
  BY <1>1 DEF AdvanceIntent, Goto, TypeOK
<1>5. intents[i] # None
  BY <1>1, NoneIsNoIntent
<1> HIDE DEF moved, r1
<1>6. IntentsUseFreshPreferences'
  BY <1>2, <1>3, <1>5 DEF FreshInv, IntentsUseFreshPreferences, TypeOK
<1>7. Inert(t)
  BY <1>1, <1>3, <1>4, <1>6 DEF Inert, TypeOK
<1> QED BY <1>7, InertKeepsFresh

\* version + 1 exceeds every version stored so far.
LEMMA RegisterKeepsFresh ==
  ASSUME TypeOK, TypeOK', FreshInv, NEW t \in Threads, NEW r \in Receivers,
         NEW h \in Handles, NEW c \in Choices, RegisterPreferences(t, r, h, c)
  PROVE  FreshInv'
<1> DEFINE p == Stored(r, c, version + 1)
           q == [op |-> "register", receiver |-> r, handle |-> h,
                 ver |-> version + 1]
<1>1. version \in Nat /\ version + 1 \in Nat
  BY BoundAssumption DEF TypeOK
<1>2. p # None /\ p.ver = version + 1 /\ q.receiver = r /\ q.ver = version + 1
  BY <1>1, StoredIsPreference DEF Stored
<1>3. /\ preferences' = [preferences EXCEPT ![r] = p]
      /\ req' = [req EXCEPT ![t] = q] /\ pc' = [pc EXCEPT ![t] = "bind"]
      /\ version' = version + 1 /\ UNCHANGED <<intents, answered>>
  BY DEF RegisterPreferences, Goto
<1> HIDE DEF p, q
<1>4. \A s \in Receivers : preferences[s] # None =>
        preferences[s].ver \in Nat /\ preferences[s].ver <= version
  BY DEF TypeOK, Preference, FreshInv, VersionsBounded
<1>5. \A s \in Receivers : preferences'[s] = IF s = r THEN p ELSE preferences[s]
  BY <1>3 DEF TypeOK
<1>6. NothingOlder
  BY <1>1, <1>2, <1>4, <1>5 DEF NothingOlder
<1>7. VersionsBounded'
  BY <1>1, <1>2, <1>3, <1>4, <1>5 DEF VersionsBounded
<1>8. AnsweredReached'
  <2>1. \A a \in answered : a.ver \in Nat
    BY DEF TypeOK
  <2> QED BY <1>3, <1>6, <2>1, ReachedStays DEF FreshInv, AnsweredReached
<1>9. RequestIsFresh(t)'
  BY <1>1, <1>2, <1>3, <1>5 DEF RequestIsFresh, Reached, TypeOK
<1>10. IntentsUseFreshPreferences'
  BY <1>3 DEF FreshInv, IntentsUseFreshPreferences
<1>11. KeepsFresh(t)
  BY <1>3, <1>6, <1>7, <1>8, <1>9, <1>10 DEF KeepsFresh, TypeOK
<1> QED BY <1>11, KeepsFreshSuffices

\* A registration is answered only after its preferences were stored.
LEMMA BindKeepsFresh ==
  ASSUME TypeOK, TypeOK', FreshInv, NEW t \in Threads, BindHandle(t)
  PROVE  FreshInv'
<1> DEFINE a == [receiver |-> req[t].receiver, handle |-> req[t].handle,
                 ver |-> req[t].ver]
<1>1. /\ pc[t] = "bind" /\ Answer(t, None) /\ answered' = answered \union {a}
      /\ UNCHANGED <<preferences, intents, version>>
  BY DEF BindHandle
<1>2. Reached(a.receiver, a.ver)
  BY <1>1 DEF FreshInv, RequestIsFresh
<1> HIDE DEF a
<1>3. AnsweredReached'
  BY <1>1, <1>2 DEF FreshInv, AnsweredReached, Reached
<1>4. NothingOlder
  BY <1>1 DEF NothingOlder, TypeOK, Preference
<1>5. VersionsBounded' /\ IntentsUseFreshPreferences'
  BY <1>1 DEF FreshInv, VersionsBounded, IntentsUseFreshPreferences
<1>6. /\ RequestIsFresh(t)'
      /\ \A u \in Threads \ {t} : pc'[u] = pc[u] /\ req'[u] = req[u]
  BY <1>1 DEF Answer, Goto, TypeOK, RequestIsFresh
<1>7. KeepsFresh(t)
  BY <1>3, <1>4, <1>5, <1>6 DEF KeepsFresh
<1> QED BY <1>7, KeepsFreshSuffices

LEMMA ConfirmKeepsFresh ==
  ASSUME TypeOK, TypeOK', FreshInv, NEW t \in Threads,
         \/ \E i \in IntentIds : BeginConfirm(t, i) \/ GetIntent(t, i)
         \/ DescribeReceiver(t) \/ RecheckConfirm(t) \/ ReportConfirm(t)
  PROVE  FreshInv'
<1>1. UNCHANGED <<preferences, intents, version, answered>>
  BY DEF BeginConfirm, GetIntent, DescribeReceiver, RecheckConfirm,
         ReportConfirm, store, history
<1>2. CASE \E r : Answer(t, r)
  BY <1>1, <1>2, AnswerIsInert, InertKeepsFresh
<1>3. CASE ~\E r : Answer(t, r)
  <2>1. /\ pc'[t] \in {"recheck", "report", "advance"}
        /\ \A u \in Threads \ {t} : pc'[u] = pc[u] /\ req'[u] = req[u]
    BY <1>3 DEF BeginConfirm, GetIntent, DescribeReceiver, RecheckConfirm,
                ReportConfirm, Goto, TypeOK
  <2>2. IntentsUseFreshPreferences'
    BY <1>1 DEF FreshInv, IntentsUseFreshPreferences
  <2>3. Inert(t)
    BY <1>1, <2>1, <2>2 DEF Inert, DirectoryUnchanged
  <2> QED BY <2>3, InertKeepsFresh
<1> QED BY <1>2, <1>3

LEMMA FreshInit == Init => FreshInv
<1> SUFFICES ASSUME Init PROVE FreshInv
  OBVIOUS
<1>1. PICK c \in [DefaultReceivers -> Choices] :
        preferences = [r \in Receivers |->
          IF r \in DefaultReceivers THEN Stored(r, c[r], 0) ELSE None]
  BY DEF Init
<1>2. VersionsBounded
  BY <1>1 DEF Init, VersionsBounded, Stored
<1> QED BY <1>2 DEF Init, FreshInv, AnsweredReached, RequestIsFresh,
                    IntentsUseFreshPreferences

LEMMA FreshNext ==
  DirectoryInv /\ TypeOK' /\ FreshInv /\ [Next]_vars => FreshInv'
<1> SUFFICES ASSUME DirectoryInv, TypeOK', FreshInv, [Next]_vars
             PROVE  FreshInv'
  OBVIOUS
<1>1. TypeOK /\ PreferencesKeyed
  BY DEF DirectoryInv
<1>2. ASSUME NEW t \in Threads, Request(t) PROVE FreshInv'
  BY <1>1, <1>2, ResolveKeepsFresh, RegisterKeepsFresh, ConfirmKeepsFresh
     DEF Request
<1>3. ASSUME NEW t \in Threads, Continue(t) PROVE FreshInv'
  BY <1>1, <1>3, LookupKeepsFresh, FilterKeepsFresh, StoreKeepsFresh,
     BindKeepsFresh, AdvanceKeepsFresh, ConfirmKeepsFresh DEF Continue
<1>4. CASE UNCHANGED vars
  BY <1>4 DEF vars, store, history, FreshInv, VersionsBounded,
              AnsweredReached, RequestIsFresh, Reached,
              IntentsUseFreshPreferences
<1> QED BY <1>2, <1>3, <1>4 DEF Next

(* Read your writes: once create_receiver_preference has answered a        *)
(* registration, no create_payment_intent that resolves the handle later   *)
(* stores an intent under older preferences, and filter_routes never reads *)
(* older ones than the resolution did.                                     *)
THEOREM ReadYourWrites == Spec => []IntentsUseFreshPreferences
<1>1. Init => FreshInv
  BY FreshInit
<1>2. DirectoryInv /\ DirectoryInv' /\ FreshInv /\ [Next]_vars => FreshInv'
  BY FreshNext DEF DirectoryInv
<1>3. FreshInv => IntentsUseFreshPreferences
  BY DEF FreshInv
<1> QED BY <1>1, <1>2, <1>3, DirectorySafe, PTL DEF Spec
=============================================================================

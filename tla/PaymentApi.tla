----------------------------- MODULE PaymentApi -----------------------------
(***************************************************************************)
(* UniPayAPI (api.py) and the ReceiverPreferenceEngine it owns, as the     *)
(* handler threads of one ThreadingHTTPServer see them.  Every handler     *)
(* shares three plain dicts -- receiver preferences, handles and payment   *)
(* intents -- and no lock protects them: under the interpreter lock one    *)
(* dict access or one attribute assignment is a step, and other handlers   *)
(* run between any two of them.                                            *)
(*                                                                         *)
(* Abstractions.  A route is a value: a provider with a payer and a        *)
(* settlement method.  A ReceiverPreferences object is what it induces on  *)
(* routes: "routable", those RoutingEngine._evaluate_route lets through    *)
(* for that receiver, "rank", their order by RouteCandidate.score (the     *)
(* server never records outcomes, so it does not move), and "accepts",     *)
(* those _validate_route lets through.  A sender is the set of routes its  *)
(* payment methods can pay for.                                            *)
(***************************************************************************)
EXTENDS Naturals, FiniteSets

CONSTANTS
  Threads,          \* handler threads
  Receivers,        \* receiver ids
  Names,            \* every string a client may send as a handle
  Handles,          \* the strings register_receiver accepts (they contain "@")
  DefaultReceivers, \* receivers present at start-up, reachable by their own id
  Routes,           \* provider, payer method and settlement method
  Choices,          \* the preferences a client may register
  Offers,           \* the route sets a sender's methods can pay for
  ListOffer,        \* the routes list_routes' fixed sender can pay for
  IntentIds,        \* the uuid4 values intents may be given
  MaxVersion,       \* bound: registrations, the default ones included
  MaxIntentRoutes,  \* find_routes(max_results) of create_payment_intent (5)
  MaxListRoutes,    \* find_routes(max_results) of list_routes (10)
  None              \* Python's None

Choice == [rank : [Routes -> Nat], routable : SUBSET Routes,
           accepts : SUBSET Routes]

\* "ver" numbers the registrations; the code has no such field.
Preference == [receiver : Receivers, rank : [Routes -> Nat],
               routable : SUBSET Routes, accepts : SUBSET Routes, ver : Nat]

(* TransactionState values an intent takes, and the loop of                *)
(* confirm_payment_intent: one assignment to intent.state per element.     *)

Lifecycle == <<"route_selected", "payment_initiated", "payment_processing",
               "payment_success", "settlement_pending", "settled">>
LastStep == 6
IntentStates == {"created"} \union {Lifecycle[n] : n \in 1..LastStep}

\* "checked" and "known" are history: the preferences filter_routes saw, and
\* the versions clients had been told of when the request came in.
Intent == [receiver : Preference, routes : SUBSET Routes, selected : Routes,
           state : IntentStates, checked : Preference, known : SUBSET Nat]

ASSUME ReceiverAssumption ==
  /\ Receivers \subseteq Names /\ Handles \subseteq Names
  /\ DefaultReceivers \subseteq Receivers
ASSUME RouteAssumption ==
  /\ Choices \subseteq Choice
  /\ Offers \subseteq SUBSET Routes /\ ListOffer \subseteq Routes
ASSUME BoundAssumption ==
  /\ MaxVersion \in Nat
  /\ MaxIntentRoutes \in Nat \ {0} /\ MaxListRoutes \in Nat \ {0}
ASSUME NoneAssumption ==
  None \notin Names \union IntentIds \union Preference \union Intent

VARIABLES
  preferences, \* ReceiverPreferenceEngine._preferences
  handles,     \* ReceiverPreferenceEngine._handles
  intents,     \* UniPayAPI._payment_intents
  pc,          \* where each handler thread is
  req,         \* the locals of each handler
  reply,       \* the state in the response each thread sent last, if any
  version,     \* history: number of preference objects ever stored
  answered,    \* history: registrations whose response has been sent
  passed       \* history: confirms of an intent that saw it "created"

store == <<preferences, handles, intents>>
history == <<version, answered, passed>>
vars == <<store, pc, req, reply, history>>

-----------------------------------------------------------------------------
\* Position of a state along the lifecycle; "created" comes first.
Progress(s) == IF s = "created" THEN 0
                                ELSE CHOOSE n \in 1..LastStep : Lifecycle[n] = s

\* The object stored for a choice.
Stored(r, c, v) == [receiver |-> r, rank |-> c.rank, routable |-> c.routable,
                    accepts |-> c.accepts, ver |-> v]

\* find_routes: the best max of the routes the sender can pay for and the
\* receiver lets through.
FindRoutes(offer, by, max) ==
  LET found == offer \intersect by.routable
  IN {r \in found : Cardinality({q \in found : by.rank[q] < by.rank[r]}) < max}

\* Mutant: the filter keeps every route.
FilterNothing(routes, prefs) == routes

\* filter_routes, with the preferences looked up again by receiver id.
FilterRoutes(routes, prefs) ==
  IF prefs = None THEN routes ELSE routes \intersect prefs.accepts

\* routes[0]: the best ranked of a non-empty set of routes.
BestRoute(routes, by) ==
  CHOOSE r \in routes : \A q \in routes : by.rank[r] <= by.rank[q]

\* resolve_handle's second read: by the receiver the handle names, else by
\* the string itself.
Lookup(name) == IF name \in Receivers THEN preferences[name] ELSE None

Goto(t, label) == pc' = [pc EXCEPT ![t] = label]
\* Send a response; only the states of confirm and get are remembered.
Answer(t, r) == /\ reply' = [reply EXCEPT ![t] = r]
                /\ req' = [req EXCEPT ![t] = None]
                /\ Goto(t, "idle")

Init ==
  /\ \E c \in [DefaultReceivers -> Choices] :
       preferences = [r \in Receivers |->
         IF r \in DefaultReceivers THEN Stored(r, c[r], 0) ELSE None]
  /\ handles = [n \in Names |-> IF n \in DefaultReceivers THEN n ELSE None]
  /\ intents = [i \in IntentIds |-> None]
  /\ pc = [t \in Threads |-> "idle"]
  /\ req = [t \in Threads |-> None]
  /\ reply = [t \in Threads |-> None]
  /\ version = 0
  /\ answered = {}
  /\ passed = [i \in IntentIds |-> 0]

-----------------------------------------------------------------------------
(* resolve_handle, create_payment_intent, list_routes: the three handlers  *)
(* that start by resolving a handle.  Requests rejected before the first   *)
(* shared access (amount, currency, empty handle) change nothing and are   *)
(* left out.                                                               *)

\* A uuid4 no intent has and no other request has drawn.
Fresh(i) == /\ intents[i] = None
            /\ \A t \in Threads :
                 pc[t] \in {"lookup", "filter", "store"} => req[t].id # i

\* self._handles.get(handle).  The id create_payment_intent draws a little
\* later is a local of the request already.  "known" is a history value: the
\* versions of the receiver's preferences that clients were told are stored.
ResolveHandle(t, op, name, offer, id) ==
  LET rid == IF handles[name] # None THEN handles[name] ELSE name
  IN /\ pc[t] = "idle"
     /\ req' = [req EXCEPT ![t] =
          [op |-> op, id |-> id, rid |-> rid, offer |-> offer,
           prefs |-> None, checked |-> None, routes |-> {},
           known |-> {a.ver : a \in {b \in answered : b.receiver = rid}}]]
     /\ reply' = [reply EXCEPT ![t] = None]
     /\ Goto(t, "lookup")
     /\ UNCHANGED <<store, history>>

\* self._preferences.get(...), then what the handler does with the object it
\* got: find_routes reads nothing the other handlers write.
LookupPreferences(t) ==
  LET q == req[t]
      prefs == Lookup(q.rid)
      max == IF q.op = "create" THEN MaxIntentRoutes ELSE MaxListRoutes
  IN /\ pc[t] = "lookup"
     /\ \/ /\ prefs = None   \* an error, or list_routes unfiltered
           /\ Answer(t, None)
        \/ /\ prefs # None /\ q.op = "resolve"
           /\ req' = [req EXCEPT ![t].prefs = prefs]
           /\ Goto(t, "describe") /\ UNCHANGED reply
        \/ /\ prefs # None /\ q.op \in {"create", "list"}
           /\ req' = [req EXCEPT ![t].prefs = prefs,
                               ![t].routes = FindRoutes(q.offer, prefs, max)]
           /\ Goto(t, "filter") /\ UNCHANGED reply
     /\ UNCHANGED <<store, history>>

\* to_dict(prefs.receiver_id): looks the receiver up once more, and answers
\* {} should it be gone (HandlesResolve: it never is).
DescribeReceiver(t) ==
  /\ pc[t] = "describe"
  /\ Answer(t, None)
  /\ UNCHANGED <<store, history>>

\* Mutant: nobody asks whether the filter left any route.
FilterToNothing(t) ==
  LET q == req[t]
      prefs == preferences[q.prefs.receiver]
      kept == FilterRoutes(q.routes, prefs)
  IN /\ pc[t] = "filter"
     /\ \/ /\ q.op = "list"
           /\ Answer(t, None)
        \/ /\ q.op = "create"
           /\ req' = [req EXCEPT ![t].checked = prefs, ![t].routes = kept]
           /\ Goto(t, "store") /\ UNCHANGED reply
     /\ UNCHANGED <<store, history>>

\* filter_routes(routes, receiver_prefs.receiver_id).
FilterByReceiver(t) ==
  LET q == req[t]
      prefs == preferences[q.prefs.receiver]
      kept == FilterRoutes(q.routes, prefs)
  IN /\ pc[t] = "filter"
     /\ \/ /\ q.op = "list"
           /\ Answer(t, None)
        \/ /\ q.op = "create" /\ kept = {}
           /\ Answer(t, None)   \* error: no routes
        \/ /\ q.op = "create" /\ kept # {}
           /\ req' = [req EXCEPT ![t].checked = prefs, ![t].routes = kept]
           /\ Goto(t, "store") /\ UNCHANGED reply
     /\ UNCHANGED <<store, history>>

\* self._payment_intents[intent.id] = intent.
StoreIntent(t) ==
  LET q == req[t]
  IN /\ pc[t] = "store"
     /\ intents' = [intents EXCEPT ![q.id] =
          [receiver |-> q.prefs, routes |-> q.routes,
           selected |-> BestRoute(q.routes, q.prefs), state |-> "created",
           checked |-> q.checked, known |-> q.known]]
     /\ Answer(t, None)
     /\ UNCHANGED <<preferences, handles, history>>

-----------------------------------------------------------------------------
(* create_receiver_preference: register_receiver writes the preferences,   *)
(* then the handle.                                                        *)

\* Mutant: a receiver's first preferences are kept (setdefault).
RegisterOnce(t, r, h, c) ==
  /\ pc[t] = "idle"
  /\ version < MaxVersion
  /\ version' = version + 1
  /\ preferences' = [preferences EXCEPT ![r] =
       IF @ = None THEN Stored(r, c, version + 1) ELSE @]
  /\ req' = [req EXCEPT ![t] =
       [op |-> "register", receiver |-> r, handle |-> h, ver |-> version + 1]]
  /\ reply' = [reply EXCEPT ![t] = None]
  /\ Goto(t, "bind")
  /\ UNCHANGED <<handles, intents, answered, passed>>

\* Mutant: the handle is bound before the preferences are stored.
RegisterHandleFirst(t, r, h, c) ==
  /\ pc[t] = "idle"
  /\ version < MaxVersion
  /\ version' = version + 1
  /\ handles' = [handles EXCEPT ![h] = r]
  /\ req' = [req EXCEPT ![t] =
       [op |-> "register", receiver |-> r, handle |-> h, ver |-> version + 1]]
  /\ reply' = [reply EXCEPT ![t] = None]
  /\ Goto(t, "bind")
  /\ UNCHANGED <<preferences, intents, answered, passed>>

RegisterPreferences(t, r, h, c) ==
  /\ pc[t] = "idle"
  /\ version < MaxVersion
  /\ version' = version + 1
  /\ preferences' = [preferences EXCEPT ![r] =
       Stored(r, c, version + 1)]
  /\ req' = [req EXCEPT ![t] =
       [op |-> "register", receiver |-> r, handle |-> h, ver |-> version + 1]]
  /\ reply' = [reply EXCEPT ![t] = None]
  /\ Goto(t, "bind")
  /\ UNCHANGED <<handles, intents, answered, passed>>

BindHandle(t) ==
  LET q == req[t]
  IN /\ pc[t] = "bind"
     /\ handles' = [handles EXCEPT ![q.handle] = q.receiver]
     /\ answered' = answered \union
          {[receiver |-> q.receiver, handle |-> q.handle, ver |-> q.ver]}
     /\ Answer(t, None)
     /\ UNCHANGED <<preferences, intents, version, passed>>

-----------------------------------------------------------------------------
(* confirm_payment_intent and get_payment_intent.                          *)

\* Mutant: whatever has left "created" is answered as it is.
BeginConfirmLenient(t, i) ==
  /\ pc[t] = "idle"
  /\ \/ intents[i] = None /\ Answer(t, None)
     \/ /\ intents[i] # None
        /\ req' = [req EXCEPT ![t] = [op |-> "confirm", intent |-> i, step |-> 1]]
        /\ reply' = [reply EXCEPT ![t] = None]
        /\ Goto(t, IF intents[i].state = "created" THEN "recheck" ELSE "report")
  /\ UNCHANGED <<store, history>>

\* The dict lookup and the first read of intent.state.
BeginConfirm(t, i) ==
  /\ pc[t] = "idle"
  /\ \/ /\ intents[i] = None
        /\ Answer(t, None)   \* error: not found
     \/ /\ intents[i] # None
        /\ req' = [req EXCEPT ![t] = [op |-> "confirm", intent |-> i, step |-> 1]]
        /\ reply' = [reply EXCEPT ![t] = None]
        /\ Goto(t, IF intents[i].state = "settled" THEN "report" ELSE "recheck")
  /\ UNCHANGED <<store, history>>

\* Mutant: any state but "settled" may be confirmed.
RecheckNothing(t) ==
  LET i == req[t].intent
  IN /\ pc[t] = "recheck"
     /\ passed' = IF intents[i].state = "created"
                  THEN [passed EXCEPT ![i] = @ + 1] ELSE passed
     /\ Goto(t, "advance")
     /\ UNCHANGED <<req, reply, store, version, answered>>

\* The second read of intent.state: confirmed only from "created".
RecheckConfirm(t) ==
  LET i == req[t].intent
  IN /\ pc[t] = "recheck"
     /\ \/ /\ intents[i].state # "created"
           /\ Answer(t, None)   \* error: cannot be confirmed
           /\ UNCHANGED passed
        \/ /\ intents[i].state = "created"
           /\ passed' = [passed EXCEPT ![i] = @ + 1]
           /\ Goto(t, "advance")
           /\ UNCHANGED <<req, reply>>
     /\ UNCHANGED <<store, version, answered>>

\* Mutant: the last state of the tuple is left out.
LoopEndsEarly(n) == n = LastStep - 1

LoopEnds(n) == n = LastStep

\* One iteration of the loop over the six states.
AdvanceIntent(t) ==
  LET i == req[t].intent
      n == req[t].step
  IN /\ pc[t] = "advance"
     /\ intents' = [intents EXCEPT ![i].state = Lifecycle[n]]
     /\ \/ /\ ~LoopEnds(n)
           /\ req' = [req EXCEPT ![t].step = n + 1] /\ UNCHANGED pc
        \/ /\ LoopEnds(n) /\ Goto(t, "report") /\ UNCHANGED req
     /\ UNCHANGED <<preferences, handles, reply, history>>

\* return self.get_payment_intent(payment_id) | {"simulated": True}
ReportConfirm(t) ==
  /\ pc[t] = "report"
  /\ Answer(t, [op |-> "confirm", state |-> intents[req[t].intent].state])
  /\ UNCHANGED <<store, history>>

GetIntent(t, i) ==
  /\ pc[t] = "idle"
  /\ Answer(t, IF intents[i] = None THEN None
               ELSE [op |-> "get", state |-> intents[i].state])
  /\ UNCHANGED <<store, history>>

-----------------------------------------------------------------------------
\* Steps of a handler already running, and requests that start one.
Continue(t) ==
  \/ LookupPreferences(t) \/ DescribeReceiver(t) \/ FilterByReceiver(t)
  \/ StoreIntent(t) \/ BindHandle(t)
  \/ RecheckConfirm(t) \/ AdvanceIntent(t) \/ ReportConfirm(t)

Request(t) ==
  \/ \E n \in Names, o \in Offers, i \in IntentIds :
       Fresh(i) /\ ResolveHandle(t, "create", n, o, i)
  \/ \E n \in Names : ResolveHandle(t, "list", n, ListOffer, None)
  \/ \E n \in Names : ResolveHandle(t, "resolve", n, {}, None)
  \/ \E r \in Receivers, h \in Handles, c \in Choices :
       RegisterPreferences(t, r, h, c)
  \/ \E i \in IntentIds : BeginConfirm(t, i)
  \/ \E i \in IntentIds : GetIntent(t, i)

Next == \E t \in Threads : Request(t) \/ Continue(t)

Spec == Init /\ [][Next]_vars

\* A handler that has begun is run to its end by the operating system; no
\* client is obliged to send a request.
FairSpec == Spec /\ \A t \in Threads : WF_vars(Continue(t))

-----------------------------------------------------------------------------
Query == [op : {"create", "list", "resolve"},
          id : IntentIds \union {None}, rid : Names,
          offer : SUBSET Routes, prefs : Preference \union {None},
          checked : Preference \union {None}, routes : SUBSET Routes,
          known : SUBSET Nat]
Registration == [op : {"register"}, receiver : Receivers, handle : Handles,
                 ver : Nat]
Confirmation == [op : {"confirm"}, intent : IntentIds, step : 1..LastStep]

\* What each program point requires of a thread's locals.
LocalsOK(t) ==
  /\ pc[t] = "idle" => req[t] = None
  /\ pc[t] \in {"lookup", "describe", "filter", "store"} =>
       req[t] \in Query /\ (req[t].op = "create" => req[t].id # None)
  /\ pc[t] = "describe" => req[t].prefs \in Preference
  /\ pc[t] = "filter" => /\ req[t].op \in {"create", "list"}
                         /\ req[t].prefs \in Preference
  /\ pc[t] = "store" => /\ req[t].op = "create"
                        /\ req[t].prefs \in Preference
                        /\ req[t].checked \in Preference
                        /\ req[t].routes # {}
  /\ pc[t] = "bind" => req[t] \in Registration
  /\ pc[t] \in {"recheck", "advance", "report"} =>
       req[t] \in Confirmation /\ intents[req[t].intent] # None
  /\ pc[t] = "recheck" => req[t].step = 1

(* Every variable has its type, and the locals of a handler are the ones   *)
(* its program point in api.py uses.                                       *)
TypeOK ==
  /\ preferences \in [Receivers -> Preference \union {None}]
  /\ handles \in [Names -> Receivers \union {None}]
  /\ intents \in [IntentIds -> Intent \union {None}]
  /\ pc \in [Threads -> {"idle", "lookup", "describe", "filter", "store",
                         "bind", "recheck", "advance", "report"}]
  /\ DOMAIN req = Threads
  /\ \A t \in Threads : LocalsOK(t)
  /\ reply \in [Threads -> [op : {"confirm", "get"}, state : IntentStates]
                          \union {None}]
  /\ version \in 0..MaxVersion
  /\ answered \subseteq [receiver : Receivers, handle : Handles, ver : Nat]
  /\ passed \in [IntentIds -> Nat]

-----------------------------------------------------------------------------
(* register_receiver stores the preferences before the handle, and neither *)
(* is ever deleted: a handle a client can see always leads to preferences, *)
(* and the later lookups of the same request (to_dict, filter_routes) find *)
(* the receiver the first one found.                                       *)
HandlesResolve ==
  /\ \A n \in Names : handles[n] # None => preferences[handles[n]] # None
  /\ \A t \in Threads : pc[t] \in {"describe", "filter", "store"} =>
       preferences[req[t].prefs.receiver] # None

(* create_payment_intent looks the receiver up twice, and a registration   *)
(* may fall in between.  Whatever the interleaving, the routes of a stored *)
(* intent, the selected one among them, were let through by the            *)
(* preferences the request resolved and by the ones filter_routes saw, and *)
(* both are of the same receiver.                                          *)
RoutesHonourReceiver ==
  \A i \in IntentIds : intents[i] # None =>
    LET n == intents[i]
    IN /\ n.checked.receiver = n.receiver.receiver
       /\ n.routes \subseteq n.receiver.routable \intersect n.checked.accepts
       /\ n.selected \in n.routes

(* Read your writes: once a registration has been answered, no request     *)
(* that resolves the handle afterwards stores an intent under older        *)
(* preferences, and the second lookup never sees older ones than the first.*)
IntentsUseFreshPreferences ==
  \A i \in IntentIds : intents[i] # None =>
    /\ \A v \in intents[i].known : v <= intents[i].receiver.ver
    /\ intents[i].receiver.ver <= intents[i].checked.ver

(* confirm_payment_intent exposes the intermediate states of its loop, but *)
(* only while a handler is inside it: an intent nobody is confirming is    *)
(* either created or settled, never stuck half way.                        *)
AtRest ==
  \A i \in IntentIds : intents[i] # None =>
    \/ intents[i].state \in {"created", "settled"}
    \/ \E t \in Threads : pc[t] = "advance" /\ req[t].intent = i

(* The state of an intent moves backwards only if two confirms both saw it *)
(* "created": confirms that do not overlap walk the lifecycle forwards.    *)
SerialConfirmsAdvance ==
  [][\A i \in IntentIds :
       intents[i] # None /\ passed[i] <= 1 =>
         Progress(intents[i].state) <= Progress(intents'[i].state)]_vars

(* Likewise the answer: unless a second confirm saw the intent "created",  *)
(* a confirm that reports at all reports "settled".                        *)
SerialConfirmsReport ==
  [][\A t \in Threads :
       pc[t] = "report" /\ passed[req[t].intent] <= 1 /\ reply'[t] # reply[t]
         => reply'[t].state = "settled"]_vars

(* Confirms may rewind each other's writes, but the last write any of them *)
(* makes is "settled": an intent that passed the check ends up settled for *)
(* good.                                                                   *)
ConfirmedSettlesForGood ==
  \A i \in IntentIds :
    (passed[i] > 0) ~> [](intents[i] # None /\ intents[i].state = "settled")

-----------------------------------------------------------------------------
(* API.md, "Confirm Payment Intent": a confirm that succeeds answers       *)
(* "state": "settled".  The code answers what it reads after its loop.     *)
ConfirmReportsSettled ==
  \A t \in Threads :
    reply[t] # None => (reply[t].op = "confirm" => reply[t].state = "settled")
=============================================================================

# UniPay Router in TLA+

Specifications of the UniPay router (`src/unipay_router`), the TLC instances
that model-check them, and TLAPS proofs of their central properties.

The router picks, for a payment between a sender and a receiver, a provider and
a pair of payment methods; it keeps the preferences of receivers, the payment
intents of clients, a cache of exchange rates, a request limiter, metrics, and
an engine that reconciles what providers report. It is a Python program: a
`ThreadingHTTPServer` runs one thread per connection, all threads share one
`UniPayAPI` object and everything below it, and almost nothing is locked.

Names in the modules are those of the code; comments name the files and lines
that matter, and `map` in `PROJECT.json` gives the lines behind every definition.

- [1. The system](#1-the-system)
- [2. Modules](#2-modules)
- [3. What is checked](#3-what-is-checked)
- [4. What is proved](#4-what-is-proved)
- [5. Where the code and its documents disagree](#5-where-the-code-and-its-documents-disagree)
- [6. Not modelled](#6-not-modelled)
- [7. Plan](#7-plan)

## 1. The system

| component | code | state | operations | modelled |
|---|---|---|---|---|
| API | `api.py` | `_payment_intents` | create, confirm and get an intent; register preferences; resolve a handle; list routes | `PaymentApi` |
| Receiver preferences | `receiver_preferences.py` | `_preferences`, `_handles` | `register_receiver`, `resolve_handle`, `filter_routes`, `to_dict` | `PaymentApi` |
| In-memory limiter | `rate_limiter.py` | a deque of times per key, under a lock | `check` | `InMemoryRateLimiter`, `SlidingWindow` |
| Redis limiter | `rate_limiter.py` | a counter per key and clock window, in Redis | `check` | `RedisRateLimiter` |
| Routing engine | `routing.py`, `models.py` | `_success_stats` | `find_routes`, `record_outcome`, `get_recovery_routes` | `Routing` |
| Provider registry | `providers.py`, `models.py` | the table of five providers | `find_*`, fees, speeds, FX pairs | `Providers` |
| Reconciliation | `reconciliation.py` | `_records`, `_by_intent`, `_by_provider` | `create_record`, `update_from_provider`, the listings | `Reconciliation`, `Notifications` |
| Webhook handler | `webhook_handler.py`, `vercel_app.py` | none; the secrets in the environment | `process`, behind the server or the WSGI adapter | `Webhooks` |
| FX engine | `fx_engine.py` | `_cache` | `get_rate` | `FxEngine` |
| HTTP server, metrics | `server.py`, `metrics.py` | the connection, `_in_flight`, counters | one request after the other on each connection | `HttpServer`, `Clients` |
| Server process | `server.py`, `rate_limiter.py` | one limiter, one API, one registry of metrics | `UniPayHTTPServer`, `build_rate_limiter` | `Service` |
| Transactions | `models.py` | state and history of one transaction | `transition` | `Transactions` |
| Payment graph | `graph.py` | nodes and edges | `add_receiver`, `add_merchant`, `find_path` | `PaymentGraph` |
| Command line | `cli.py` | one registry and one engine | the demos | `Session` |
| Hyperswitch client, tracing | | none of their own | | no |

**How they interact.** `server.py` counts a request in, asks the limiter, checks
the API key, and calls one method of `UniPayAPI`, which calls the receiver
preference engine, the routing engine and the FX engine directly, in the
thread of the request. The routing engine reads the registry, and the payment
graph is built from it. Nothing but the command line demos calls
`record_outcome`, `get_recovery_routes`, `Transaction` or the graph's `add_*` and
`find_path`, and nothing at all the reconciliation engine; the server only
parses webhooks and answers what they say.

**What is hard about it.**

- *Threads without locks.* The API's dicts are read and written by every
  handler. Under the interpreter lock one access to a dict or to an attribute
  is a step and everything else interleaves: two confirms of one intent, a
  registration between the two lookups of a create, two misses of one cache
  entry.
- *Clocks read before locks.* The in-memory limiter reads the time before it
  takes its lock, so times are recorded out of order; the Redis limiter makes
  two calls of which either may fail, while the window changes under it.
- *Failures on the way.* A source of exchange rates, Redis, an argument, the
  client's socket: each takes a handler past the code that would have closed
  the books on its request. A body that nobody reads stays in the connection.
- *Delivery.* Providers repeat notifications and overtake their own, sign what
  the entry points write anew, and leave out what the engine calls `lower` on.
  A client whose reply was lost asks again.
- *Retries.* What failed last must be left alone by the retry, while other
  payments change the scores the retry is chosen by.

**What makes each component correct.**

- *API and preferences*: a handle leads to preferences; an intent holds only
  routes its receiver lets through, under preferences no older than the ones a
  client was told are stored; an intent that was confirmed ends up settled.
- *Limiters*: never more than the limit in a window; a caller that waits as long
  as it was told, and a millisecond, is let through; no counter stays for good.
- *Routing*: a retry takes the best route left, not over the provider that has
  just failed, within the receiver's limits; a payment is refused or given up
  only if nothing would do; what does not comply is not used.
- *Reconciliation and webhooks*: the record says what the provider said last;
  mismatches and what has not settled are listed; the indexes list every record once; the handler and the
  engine understand a notification alike; what a provider signed is heard.
- *Transactions*: the history accounts for every attempt and for the settlement.
- *Payment graph*: a path is found wherever there is one, a party is linked to
  what it was added with, and corridors work both ways.
- *FX*: rates are recent; the sources are not asked more often than the cache
  has expired, and all of them before the hardcoded rate is used.
- *HTTP server*: a request that is over is no longer in flight; a connection
  that is kept is in step with its client; a client that tries again has no
  more intents than it can know of.

## 2. Modules

| module | what it is |
|---|---|
| `PaymentApi` | the handlers of `api.py` on the shared dicts, access by access |
| `PythonNone` | `None`, which every component has |
| `RateLimiter` | what both limiters share: settings, clock, the wait they tell |
| `SlidingWindow` | what a sliding-window limiter promises, whatever it stores |
| `InMemoryRateLimiter` | the deque limiter; refines `SlidingWindow` |
| `RedisRateLimiter` | the INCR / EXPIRE limiter of several processes |
| `Providers` | the provider table and the FX pairs, as data |
| `Routing` | the routing engine behind the life of a payment; EXTENDS `Providers` |
| `Transactions` | one transaction under any calls of `transition` |
| `PaymentGraph` | the graph built from the registry, parties, `find_path`; EXTENDS `Providers` |
| `Session` | the command line: one of its demos on `Routing`, `Transactions` or `PaymentGraph` |
| `Reconciliation` | the engine and the providers that notify it |
| `Webhooks` | what becomes of a webhook on the way to the handler's answer: pure functions |
| `Notifications` | `Reconciliation` behind `Webhooks`; implements `Reconciliation` |
| `FxEngine` | the rate cache and its sources |
| `HttpServer` | connections, the responses they get, the in-flight gauge |
| `Clients` | clients that try again to create an intent, over `HttpServer`; implements it |
| `Service` | the server process: a limiter, the connections, the rates or the webhooks |
| `MCPaymentApi`, `MCSession`, `MCService`, `MCReconciliation`, `MCNotifications`, `MCRouting`, `MCFxEngine`, `MCHttpServer` | constants of the TLC instances |
| `NumberLemmas` | facts on naturals and integer division the proofs use |
| `PaymentApiProofs`, `RateLimiterProofs`, `RedisLimiterProofs`, `ReconciliationProofs`, `SessionProofs`, `FxEngineProofs`, `HttpServerProofs` | theorems |

Operators marked "Mutant" are single mistakes one could make in the definition
that follows them. None is part of a specification; with one in place of the
definition it precedes, TLC finds the property named beside it in `mutants`
violated. They are how we know that a property has something to say.

### PaymentApi

State: `preferences`, `handles`, `intents` are the three dicts; `pc` and `req`
are the program point and the locals of each handler thread; `reply` is the last
response. Actions are the stretches of a handler between two accesses to shared
state: `ResolveHandle` is `_handles.get`, `LookupPreferences` the
`_preferences.get` after it and everything that uses only what it returned (for
create and list the whole of `find_routes`), `FilterByReceiver` the second
lookup by receiver id inside `filter_routes`, `StoreIntent` the write;
`RegisterPreferences` and `BindHandle` are the two writes of
`register_receiver`; `BeginConfirm`, `RecheckConfirm`, six times
`AdvanceIntent` and `ReportConfirm` are `confirm_payment_intent`, one read or
write of `intent.state` each.

A route is a value. A preferences object is what it induces on routes: those
`_evaluate_route` lets through, their order, and those `_validate_route` lets
through; `Routing` models where these come from. `version`, `answered` and
`passed` are history variables: they say which registrations clients were told
about, and how many confirms saw an intent `created`.

### RateLimiter, SlidingWindow, InMemoryRateLimiter

`RateLimiter` has the settings and the clock. `time.time()` is finer than a
millisecond, and `max(1, int(wait + 0.999))` rounds up milliseconds: a wait of
1.0005 s becomes 1 s. Ticks may therefore be as short as one likes, and
`RetryAfter` computes in exact arithmetic on them what the code does; the
instances take half a millisecond. A caller has `Waited` if it let pass what it
was told and one millisecond more, which is all that rounding can drop. The
clock reads only the given `Instants`, so that it need not be stepped through
every tick.

`ReadClock` is the first line of `check`, `Check` everything under the lock.
Between them the clock moves, at most `MaxStale`. `events` is the dict of
deques, `PopExpired` the popleft loop: it stops at the first entry that is live,
so that an older entry behind a younger one stays. The abstract
`SlidingWindow` has no deque: it decides on the times at which requests were
let through, up to `Slack`, and the detailed limiter implements it with
`Slack <- MaxStale`.

### RedisRateLimiter

`Workers` are threads of any number of processes. `Incr` and `Expire` are one
Redis call each, with the Python that follows; `Fail` is either call raising,
which ends the check without a decision, and `LoseReply` a call that took effect
and was not answered, after which the check ends or the client library, if it
retries by itself, makes the call again. Redis drops a counter when its time
comes (`Elapse`). The key of the counter holds the window's number, and its
lifetime is the window plus a second.

### Providers, Routing

`Providers` holds the registry of the program as data: methods, currencies,
fees, speeds, success rates and latencies of the five providers. `Routing` takes
the registry as a constant and computes routes as the code does: the union of
the providers `find_routes` looks at, what `_evaluate_route` lets through, the
score in exact integers, the best `max_results`, `_validate_route`. Candidate
sets, scores and validation of all intents used in the instances were compared
with what the Python code computes for them and are equal. Routes of equal score
come in any order, as the code iterates over sets of strings.
`RegistryAssumption` is what any registry must be like: finite, with currencies of
the enum, latencies that are numbers and no method that never succeeds.
`RoomToSubmit` and `RoomToRecover` say of an intent that its routes cannot fill a
list with what is dropped after the cut.

The life of a payment is the one the documents give it: `Submit` (create: find,
filter, take the best), `Outcome` (`record_outcome`), `Recover`
(`get_recovery_routes`, and the attempt over the first route). Payments share
`stats`, what the engine has learned. The demo of the command line does each of
these once; `Recovery` of `Session` lets them go on.

`get_recovery_routes` excludes the provider of the route that failed, and what
its caller passes as `exclude_providers`. No code of the repository passes
anything (`cli.py:226` does not), so the history of a payment, A fails, B fails,
A is tried again, is one of the model (`Excluded`). The parameter is part of the
code all the same: a payment in `Keepers` has a caller that passes every provider
that failed it so far (`tried`).

### Reconciliation

`CreateRecord` and `UpdateFromProvider` are the two operations that write.
`Notify` and `Deliver` are the environment: a provider sends what may follow its
last notification (`Follows`), and notifications arrive late, again or out of
order; the history variable `overtaken` remembers of a record whether one of
its notifications overtook another. Two operations never interleave, as nothing
calls the engine from more than one thread. Cashfree tells of a refund without
the payment: its status is `None` ("null"), `update_from_provider` raises on it,
and `RaiseOnNone` is what it has assigned by then.

### Webhooks, Notifications

`HandleWebhook` is the whole way of a webhook: the API key (`Authorized`), the
processors, the signature (`Verified`), the answer with the normalised event.
No signature is computed. A genuine one verifies exactly if the handler finds it
under the name it looks for and is given the bytes that were signed. `HeaderSeen`
is the name after the entry point copied the headers: `server.py` as they came,
`vercel_app.py` in lower case. `SignedBytesPassed` holds if writing the parsed
body again gives the same bytes, that is if the provider writes a space after
commas and colons as `json.dumps` does. A `Deployment` fixes these choices.

The code ends at the answer. `update_from_provider` is documented as what the
webhook data is for and has no caller; `Notifications` puts between the two what
`ARCHITECTURE.md:128` has there, a program that hands every accepted webhook to
the engine, and keeps the event of the last one about each record (`event`) to
compare the two translations. `Speaks` and `EventName` are the words of the
providers, external. A refused webhook (`NRefuse`) changes nothing.

### Transactions, PaymentGraph, Session

`Transition` and `RefuseTransition` are the two results of `transition`; any
state may be asked for at any time, with or without an error.

`PaymentGraph` keeps the nodes and edges that parties add; those from the
registry are constant (30 nodes and 51 edges for the default one, as the
program counts). `AddParty` is `add_receiver` and `add_merchant`, edges are a
bag as the code appends them again each time. `Search` are the rounds of the
breadth-first search of `find_path`, `PathsFrom` its results for all targets at
once: rounds do not depend on the target until it is found, and the order of
edges decides which path is found, not how long it is.

`Session` is `main` of the command line: one registry and one engine, and the
demo that was asked for. Each demo is generalised: the payments, transitions and
parties are any, not the scripted ones. `all` and the default run one demo after
the other; a demo takes from those before it nothing but `stats`, and only
`demo_failure_recovery` writes these, so its own steps are the ones that matter.

### FxEngine

`GetRate` looks into the cache, `AskSource` is one source answering a rate,
nothing, or a body the code cannot read, `Store` the write and the return. A
rate is the instant its source answered.

### HttpServer

Each connection is a thread that serves one request after the other. `Begin` is
`_request_context` up to `metrics.begin()`, for any method with any body: none,
one with a `Content-Length`, a chunked one. `CheckLimit` is the limiter,
`Authorize` the key, `HandleGet` and `HandlePost` the rest with the statuses they
can answer, `SendResponse` the response on the socket, `Observe` the counter going
down. `Faults` says what may go wrong. `caught` says whether the response is
written inside the `try` of `do_POST`, from which a second response follows.
`unread` is the body that is still in the connection: only `do_POST` reads one
(`ReadBody`), and only one with a length. `Drop` (the thread dies and
`socketserver` closes the connection) and `Misread` (`http.server` finds no
request in what was left unread, and closes the connection) are external. What
was left may also be a request by itself; it is then served like any other, by
`Begin`.

### Clients

Connections of `HttpServer` whose clients have a purpose: a buyer posts a
payment intent and does so again until it hears of one. `Stores` is when
`create_payment_intent` reaches its last lines, `Announces` a reply that says so.
`ReplyTo` adds to `SendResponse` that a response which was written may be lost on
the way all the same. `AskOther` and `ServeOther` are everything else.

### Service

`UniPayHTTPServer` creates one limiter, the one `build_rate_limiter` chooses, one
API with its FX engine, and serves connections. In the code as in the
models these parts share no state: the limiter answers yes or no, which
`HttpServer` leaves open, a rate is looked up, a webhook is translated. A step of
one is a step of no other, and what a run says of them all at once it says of
each by itself. `serving` picks the part that requests reach; the parts a request
does not reach stand still. `PaymentApi` stays by itself: its run also
checks liveness, under the fairness of its handlers.

## 3. What is checked

Three runs are expected to pass; each asks its questions of one program.

| run | instance | shows |
|---|---|---|
| `api_handlers` | the API: 2 threads, 2 receivers, 1 handle that is also a receiver's id, 3 routes, 2 registrations, 1 intent | handles never dangle; intents hold only routes let through, under preferences at least as new as the ones clients were told of; no intent is left half way, states go back and confirms answer short of the end only under overlapping confirms; what was confirmed settles for good |
| `routing_recovery` | the command line: 2 payments, 6 kinds of intent, the real registry; a transaction of 17 transitions; 3 calls that add one of 4 parties | retries, refusals, giving up, compliance, learning; the history accounts for the money; what a party is linked to and that four edges find every path |
| `service_parts` | the server process, one part at a time | see below |

`service_parts` has five parts:

| part | instance | shows |
|---|---|---|
| in-memory limiter | 2 threads, limit 2, a window of 2 s, ticks of half a millisecond, 8 readings of the clock | at most `Limit` in `Window - MaxStale`; `retry_after` is enough but for a millisecond; the limiter implements `SlidingWindow` |
| Redis limiter | 2 workers, the same clock, 1 call that fails or loses its reply | at most `Limit` per clock window; `retry_after` reaches the next one but for a millisecond; counters that stay for good are no more than the failures |
| connections | 2 connections, any method with any body, all faults, 1 dropped request, 1 client of an intent that tries twice | the gauge drifts by the dropped requests exactly; only a refusal leaves the body of a POST that has a length; a retry duplicates an intent only after a lost reply |
| rates | 2 threads, 1 pair, time to live 3, fetches of 1 | rates are recent; each thread fetches once per time to live |
| webhooks | 2 records, 2 intents, 3 providers, 5 deployments, 3 notifications each, in any order, repeated | the indexes are complete; the record is current unless notifications overtook each other; what is flagged; where the handler's event and the record differ |

The other nine runs are expected to end with a counterexample: section 5.

**Bounds, and why they are enough.** Two threads are the least that race, and
every race found involves two; the theorems on confirms hold for any number.
Two registrations and the default one let a request see an old and a new object
of one receiver, and two receivers contend for one name. Limit 2 lets a late
entry lie between two others. The readings of the clock lie around the ends of
windows and of seconds, with half a millisecond to spare on either side, and go
on for more than a window after: a denied caller whose wait was cut short by the
rounding is among them (at reading 1999, a second and half a millisecond before
the window ends, it is told to wait a second), and one that waits long enough. Three
notifications reach every status a provider writes, and one that was overtaken or
is repeated, and two intents with two records are enough for an intent to have
two attempts and for the indexes to be confused. The five deployments are those that differ in what
they refuse: no secrets; secrets, with either way to write JSON, behind the
server; secrets behind the WSGI adapter; an API key. Seventeen transitions are
the longest history with three attempts, a settlement and a refund: two failures
and recoveries and then a success. Three calls add a party twice and another
beside it, from a country, a method or a currency that the graph has or does not
have. One retry shows both outcomes of a lost reply. Of the two payments one has
a caller that passes its failures to `get_recovery_routes` and one, like the
demo, has not. No intent of `routing_recovery` has so many routes that the cuts
hide one that would do (`RoomAssumption` of `MCSession`):
`GivesUpOnlyWhenExhausted` and `RefusalsJustified` are about such intents (section
5 says what happens beyond).

`Instants`, `MaxInstant`, `MaxVersion`, `MaxSent`, `MaxOutcomes`, `MaxFailures`,
`MaxDropped`, `MaxHistory`, `MaxAdded` and `MaxTries` cap clocks and counters and
are guards of the model, not of the code; counts above the limit in Redis are
kept at `Limit + 1`, above which the code does not tell them apart. `MaxOutcomes`
also ends the retries of a payment, for which the code has no bound. Threads,
workers, handlers and record ids are symmetric in `service_parts`: as only one
part moves, exchanging the two of every kind at once (`Alike`) is as good as
exchanging those of the part that does.

**Assumptions on time.** `MaxStale` and `MaxFetch` bound how long a thread may
be held up between two of its steps. No code enforces them; the properties say
how much is lost per unit of it. `FixedWindowBound` needs `MaxStale` at most one
second, the second by which a counter outlives its window: with a longer delay
the counter is dropped and a late worker creates it anew. The run has half a
second.

**Fairness.** Only `PaymentApi` has any. `FairSpec` is weak fairness of the steps
of a handler that has begun: nothing in them waits, so the operating system
runs them to their end. No client has to send anything. That retrying a payment
ends is not claimed: with nothing passed to `get_recovery_routes`, two providers
that fail by turns are tried by turns for as long as the caller asks, and
`Transaction.max_attempts`, which could end it, is never read. Deadlock is
checked everywhere but in the runs on `Routing` and `Session`, which come to
their end when every payment is over, has met `MaxOutcomes`, or no more parties
are added.

## 4. What is proved

For every value of the constants that satisfies the named assumptions:

| theorem | says |
|---|---|
| `TypeCorrect`, `HandlesAlwaysResolve`, `IntentsHonourReceiver` | `TypeOK`, `HandlesResolve`, `RoutesHonourReceiver` of `PaymentApi` |
| `ConfirmComesToRest`, `SerialConfirms`, `ConfirmsReport` | `AtRest`, `SerialConfirmsAdvance`, `SerialConfirmsReport` of `PaymentApi` |
| `ReadYourWrites` | `IntentsUseFreshPreferences` of `PaymentApi` |
| `LimiterTypeCorrect`, `WindowBoundHolds`, `RetryAfterHolds` | `MemoryTypeOK`, `WindowBound`, `RetryAfterHonoured` of `InMemoryRateLimiter` |
| `LimiterImplements` | the deque limiter implements `SlidingWindow` |
| `RedisTypeCorrect`, `FixedWindowBoundHolds`, `RetriesLandLater`, `LeaksAreFailures` | `RedisTypeOK`, `FixedWindowBound`, `RetryLandsLater`, `LeaksCostFailures` of `RedisRateLimiter` |
| `EngineTypeCorrect`, `IndexesHold`, `FlagsHold`, `ViewHolds` | `ReconciliationTypeOK`, `IndexesComplete`, `FlaggedOnUnknown`, `ViewIsCurrent` of `Reconciliation` |
| `WebhooksDriveEngine` | `Notifications` implements `Reconciliation` |
| `EventsStayMatched` | `EventsMatchRecords` of `Notifications` |
| `RecoveryTypeCorrect`, `RetriesGoNextBest`, `AttemptsStayAcceptable` | `TypeOK`, `RetriesTakeNextBest`, `AttemptsAcceptable` of `Routing`, in `Session` |
| `NonCompliantComesLast`, `EveryFailureDemotes` | `NonCompliantIsLastResort`, `FailuresDemote` of `Routing`, in `Session` |
| `GivesUpWhenExhausted`, `RefusalsAreJustified` | `GivesUpOnlyWhenExhausted`, `RefusalsJustified` of `Routing`, in `Session` |
| `HistoryAccounts` | `AttemptsAccounted` of `Transactions`, in `Session` |
| `FourHopsAreEnough`, `PartiesReachWhatTheySaid` | `FourHopsSuffice`, `PartiesReach` of `PaymentGraph`, in `Session` |
| `FxTypeCorrect`, `RatesStayRecent`, `FetchesStayBounded` | `FxTypeOK`, `RatesAreRecent`, `FetchesBounded` of `FxEngine` |
| `ServerTypeCorrect`, `OnlyRefusalsLeaveBodies`, `GaugeDrift` | `ServerTypeOK`, `BodyLeftOnRefusal`, `GaugeDriftsByDrops` of `HttpServer` |
| `ClientsDriveServer` | `Clients` implements `HttpServer` |
| `RetriesDuplicate` | `DuplicatesAreLostReplies` of `Clients` |

**PaymentApi.** `DirectoryInv` is `TypeOK`, `HandlesResolve` and what each
handler has in its locals: between `lookup` and `store` the routes are those its
first preference object lets through, and from `store` on also those the second
does, both of the same receiver. `HandlesResolve` alone is not inductive: the
handler about to bind a handle has to be known to have stored the preferences.
`ConfirmInv` adds to `AtRest` two facts. `FreshIds`: an id a create has drawn is
not in use and no other create has it, so storing an intent never overwrites
one. `SerialInv`: while no confirm has passed the test for `created`, nobody is
in the loop of the intent and it is `created` still; while exactly one has, at
most one thread is in the loop, and it finds the intent in the state before its
own step. With the action this gives `SerialConfirmsAdvance`. It also gives
`ReportsSettled`, from which `SerialConfirmsReport` follows: a handler about to
report finds its intent settled, and a single handler in the loop never finds it
so. `FreshInv`, for `IntentsUseFreshPreferences`, adds which versions a
receiver has `Reached`: those of answered registrations, of registrations about
to be answered, and of the objects requests have resolved. They stay reached, as
stored preferences are only replaced by later ones (`NothingOlder`). Each action
has a lemma of its own; the effect of `Answer`, common to most handlers, is
proved once.

**InMemoryRateLimiter.** The difficulty is that the deque is not sorted: times
are recorded in the order of the lock. `WindowInv` therefore says of a deque
only that it is a suffix of the log of admissions, that everything before the
suffix was let through at least `Window - MaxStale` ago, that a recorded time is
at most `MaxStale` before the admission, and that admissions (unlike recorded
times) are in order. From it, an admission with fewer than `Limit` live entries
means that the `Limit`-th last admission is `Window - MaxStale` ago.
`RetryAfterHolds` adds a promise per thread: as long as no other request of
the key was let through, the head of the deque the denial saw is still its
head, or has been expired. Nothing is assumed of the clock: the code adds 0.999
before it cuts, so the wait it tells is short by less than a millisecond
(whatever `TicksPerSecond` is), and that millisecond is what `Waited` adds.
`LimiterImplements` is the refinement: every step is a step of `SlidingWindow`
under the mapping, or a stutter.

**RedisRateLimiter.** `CounterInv` relates a counter to the admissions of its
window: while the counter lives it is at least their number, the one of its
creator included, which has counted but not been let through yet; while there is
none, either nothing of the window was let through or about to be, or the window
has been over for a second. In that case no check of the window is under way any
more (`NoneLate`), as `FixedWindowBoundHolds` assumes `MaxStale <=
TicksPerSecond`: that is what the second added to the lifetime is for, and
TLC finds the bound violated without it. `RetriesLandLater`
assumes nothing of the clock, like `RetryAfterHolds`. For `LeaksAreFailures` it is
shown that every step but `Fail` and `LoseReply` leaves the set of leaked
counters as it is or makes it smaller, and these two add at most the counter of
the worker they happen to.

**Reconciliation.** The tables of statuses come first: which status the engine
takes over, and that a flag is raised for the unknown ones only
(`KnownIsConsistent`, `UnknownIsInconsistent`). With them a record is a function
of the notifications it was given, in the order it was given them. The rest is
about delivery: `Delivered` says that what has arrived has been sent, and
`ViewHolds` that a record none of whose notifications was overtaken has heard a
prefix of them in order.

**Notifications.** Every step of `NNext` is one of `Reconciliation` or changes
nothing of it (`WebhooksDriveEngine`), so what is proved of the engine holds
behind the webhooks. `AcceptedFacts` says what the echo of an accepted webhook
has in it.
`EventInv` is the induction for `EventsStayMatched`: whatever was sent about a
record is a status its provider speaks (`Spoken`), and record and event are what
one notification makes of some earlier record (`AsTold`). The rest is a case
for each status of each provider, on constants.

**Session.** In every demo but its own, a component's variables stand still, so
each invariant is proved of its component. `RecoveryInv` says of a payment under
way that its route was evaluated for its intent and, if none failed before, is
fast enough (`UnderWay`, `Chosen`), that a payment which failed was tried, and of
the learned rates that no provider succeeded more often than it was tried. For
these it does not matter where the lists are cut: a cut list has nothing in it
that the uncut one has not (`TopWithin`).

For the next four it does matter, and two lemmas say what a cut keeps:
`CutKeepsBest` (whatever is left out scores no better than everything that is
kept) and `CutIsFull` (something is left out only of a list that is full).
`RetriesGoNextBest` follows from the first, wherever the cut is: the retry is over
the best of the routes kept whose provider is not excluded, and what was cut off
is no better. It takes no view of the caller: what is excluded is what the call
excludes, in the demo's case the provider that failed last.
`NonCompliantComesLast` follows from the first, wherever the cut is, once the score
of every compliant route is below that of the others (`ScoreBounds`). The code
has an infinite float for these; the model has a number, and `InfinityAssumption`
says that it is above every fixed score with the largest probability penalty
(`ProbabilityBounds`). `GivesUpWhenExhausted` and `RefusalsAreJustified` are false
without a hypothesis on the intents: the code cuts its lists before it drops
what is excluded or does not validate, so ten routes of excluded providers hide
an eleventh. The hypotheses say that they cannot: `RoomToRecover`, that
the routes of the other providers alone do not fill the recovery list, and
`RoomToSubmit`, that the routes that do not validate alone do not fill the
first. `MCSession` assumes both of its intents, so the run shows that the program's
own registry satisfies them. `EveryFailureDemotes` needs a rate of success above
zero, which `RegistryAssumption` states of the table as the program ships it, and
at most six outcomes of a provider and method: up to there what the learned rate
adds is a whole number of the model's units (`WholeShares`), so dropping the
remainder loses nothing, and one failure more lowers it (`ShareFalls`). The code
divides in floating point; beyond six it is the model that may lose the
difference, not the program.

For `HistoryAccounts` the four numbers of the history are tied to the state by `Book`,
one line per state, and one lemma on numbers, `BookKept`, says that every pair of
the table keeps it; `SettlementFollows` remembers why the settlement began.

**Payment graph.** `GraphInv` ties what the graph holds to the calls that were
made: the parties are those the calls named, and an edge leaves a party exactly
if some call asked for it and the registry gave its target a node. From it
`EdgesDescend`: every edge lowers the `Height` of a node, which is 4 for a party,
3 for India, 2 for the US, 1 for the EU and for providers, and 0 for what no edge
leaves. No path has more than four edges, and that is why the default depth of
`find_path` is enough. `SearchRun` unrolls the rounds of the search, one
fact for each of the four instead of an induction. After the fourth nothing is
left to look at (`RoundsDescend`), and so `PathsSpread` holds: a search
finds the neighbors of whatever it finds, and only neighbors of what it found a
round before. With it and the definition of `FourHopsSuffice`, `FourHopsAreEnough`
is immediate. For `PartiesReachWhatTheySaid` the first round is what the edges
of the party lead to (`FirstRound`), and these are what its calls named, as far
as the graph has nodes for it (`PartyNeighbors`).

**FxEngine.** A cache entry was stored at most `MaxFetch` after its source
answered (`EntryInv`), as a fetch that is under way has begun no longer ago than
that (`FetchInv`). It does not matter which of two racing handlers stores last:
either entry has that age. `FetchesStayBounded` is about the log of all fetches.
`QuotaInv` says of it that every fetch but the last few, as many as there are handlers still asking, was
stored, and not before it began (`FetchesStored`). A handler that begins to fetch
is not one of those asking, so of `N` handlers the `N`-th fetch before its own is
among the stored ones, and it fetches only because the entry has expired: the two
are a time to live apart (`Spaced`). The bound cannot be one fetch per time to
live, as handlers that miss at once all ask. The set of handlers must be finite,
so that they can be counted.

**HttpServer.** Requests have any method and any body. `BodyInv` is about the
POSTs among them whose body has a length: where they can be with it unread is up
to `do_POST`, and after it only with a status the code sends before reading. A
response written inside the `try` is one to a request whose body was read, so the
second response after a socket error never leaves one. `GaugeDriftsByDrops`
is inductive on top of the types: each step starts a request, ends one, drops
one or leaves the set of busy connections as it is, and the lemmas `ActiveGrows`
and `ActiveShrinks` say what that does to its cardinality. It needs the set of
connections to be finite, nothing else.

**Clients.** Every step is one of the server (`ClientsDriveServer`). For
`RetriesDuplicate`, `BuyInv` says that an intent is created by a POST only and
that a client that was told has no request for one under way; with it the
balance of each client is inductive: a stored intent is announced in the reply
that is due next, and that reply is heard or lost.

**Only model-checked.** Liveness (`ConfirmedSettlesForGood`) and anything with
ENABLED are out of the prover's reach; so is induction over data and what
RECURSIVE operators compute (no module here declares one). Every invariant and
every other action property of a run that passes is the statement of a theorem,
about the component that has it: `Service` and `Session` let one of their
components move at a time. `TypeOK` of `Service` is the conjunction of five that
are proved one by one.

## 5. Where the code and its documents disagree

Each of these has a run that TLC ends with a counterexample.

| run | property | in short |
|---|---|---|
| `api_confirm_reply` | `ConfirmReportsSettled` | of two overlapping confirms one answers an intermediate state |
| `recon_conflict` | `ConflictFlagged` | settled here, failed there: overwritten before compared |
| `recon_unsettled` | `UnsettledAreListed` | a payment that is authorised and not captured is not listed as unsettled (`reconciliation.py:131`) |
| `webhooks_signed` | `SignedAreVerified` | a webhook its provider signed is refused (`PROVIDERS.md:127`, `SECURITY.md:60`) |
| `routing_bridge` | `BridgesAcceptBoth` | bridges need not take the payer's method, and are then free |
| `routing_compliance` | `RoutesComply` | a route that does not comply is selected when no other is left (`ROUTING.md:37`, `ROUTING.md:120`, `routing.py:12`) |
| `graph_corridors` | `CorridorsWorkBothWays` | corridors marked bidirectional lead one way only (`graph.py:114`) |
| `fx_sources` | `EverySourceAsked` | the second source is not asked when the first is down |
| `http_gauge` | `GaugeExact` | an argument that does not parse leaves the gauge too high |

Others were met on the way. They are visible in the modules and have no run of
their own:

- The second of two overlapping confirms puts an intent that has settled back to
  an intermediate state (`api.py`; the runs check only that it settles again).
- `register_receiver` takes over a handle that is in use without a word
  (`receiver_preferences.py:68`), where `ARCHITECTURE.md:150` gives a handle one
  owner.
- `INCR` and `EXPIRE` are two calls: a failure between them, or a reply to
  `INCR` that is lost, may leave a counter in Redis for good.
  `LeaksCostFailures` says that it is never more than one per such call.
- `int(x + 0.999)` rounds up milliseconds, and the clock is finer: a caller may be
  told to wait up to a millisecond too short and be denied again
  (`rate_limiter.py:39` and `73`). `OPERATIONS.md` promises a `Retry-After` header and
  does not say how exact it is.
- `get_recovery_routes` takes ten routes and filters afterwards
  (`routing.py:244`), so with more routes a payment can be given up while another
  provider would do; called as the demo calls it, it may return a provider that
  failed the payment before the last one (`routing.py:241`); and nothing on its
  way looks at the receiver's speed, which only `filter_routes` does
  (`AttemptsAcceptable` claims the speed of the first attempt only).
- Of the signatures: both entry points hand the handler the parsed body written
  again by `json.dumps` (`server.py:245`, `vercel_app.py:68`), and `server.py` the
  headers under the names they came with, while the handler looks for lower case
  (`webhook_handler.py:94`). With a secret set, Razorpay's webhooks are refused
  behind the server whatever their bytes, and both providers' behind either
  entry point unless they write JSON as Python does.
- The body of a GET, an OPTIONS, a refused POST or a chunked POST is never read
  (`server.py:163`), and the connection is kept: what is left is taken for the
  next request (`Misread`, or `Begin` if it is one).
- A webhook changes nothing: `ARCHITECTURE.md:126` has "Update payment status" and
  line 128 "Update reconciliation"; `handle_webhook` echoes (`api.py:292`).
- An event the tables do not know, `refund.processed` of Razorpay among them, is
  a failed payment (`webhook_handler.py:113`), and Cashfree's refund, which comes
  without the payment, has the status `None`, on which `update_from_provider`
  raises half way (`EventsMatchRecords` names both as exceptions; no document says
  what an unknown event should become).
- A transaction can be settled that never succeeded, from `payment_failed`
  (`models.py:255`, `AttemptsAccounted`). `max_attempts` is never read, so recovery
  has no end of its own, and the error of a failure stays after a retry succeeded.
- No edge leads to a provider: the demo that looks for a path from Bob to PayPal
  (`cli.py:305`) never finds one. Adding a party again takes none of its edges
  back (`PartiesReach`). `graph.py:35` and `ARCHITECTURE.md:211` have the graph grow with
  every receiver; `create_receiver_preference` does not add it. `API.md:274` shows
  34 nodes and 67 edges, the graph has 30 and 51, as `PROVIDERS.md:77` says.
- Creating an intent is not idempotent (`DEPLOYMENT.md:69` lists this as to be
  done): a client that tries again after a lost reply has two
  (`DuplicatesAreLostReplies`).
- The cache of rates allows one fetch of a pair per thread and 300 seconds
  (`FetchesBounded`), 8640 a month for one thread; the first source is free up to
  1500 (`fx_engine.py:4`).

## 6. Not modelled

- `hyperswitch_client.py` (one HTTP request per operation, nothing kept) and
  `tracing.py` (spans without effect on responses).
- `send_outgoing` of the webhook handler: one request to a merchant, which nothing
  calls. `get_stats`, `node_count`, `edge_count` and `stats`: they count. The demos
  that only find routes and print them. The routes of `vercel_app.py` but
  the webhook's: those of the server again, one request at a time.
- Signatures themselves: whether bytes and header can verify is modelled, not HMAC.
- In what is modelled: the text of responses, headers and logs; validation that
  rejects a request before any shared state is touched; histograms and
  counters of the metrics, which only grow; `ProviderRegistry.register` at run
  time; exchange rates as numbers (a rate is when it was obtained); floating
  point (scores and fees are exact; one intent of the instances has a fee exactly
  at a limit, on which model and program agree).

## 7. Plan

The first two blocks are done.

1. `PaymentApi`, the limiters, `Reconciliation`, `Routing`, `FxEngine`,
   `HttpServer`; proofs about all of them but `Routing`.
2. `Transactions`, `PaymentGraph` and `Session`; `Webhooks` and `Notifications`;
   `Clients`; proofs about all of them and about `Routing`.
3. Model more:
   - In `Service`, `PaymentApi` behind `HttpServer` and the limiter, so that a
     request that dies in one is seen in the others.
   - An abstract specification of the preference directory (a map from handles to
     preferences, written and read at one instant) and of an intent that is
     confirmed once, which `PaymentApi` implements under serial confirms.
   - `Routing` with the rates of `FxEngine`, to bound how far the rate of a route
     is from the one a client is shown.
4. Prove more:
   - `FailuresDemote` for any number of outcomes, with the learned rate kept as a
     fraction instead of a division that drops the remainder.
   - The hypotheses `RoomToSubmit` and `RoomToRecover` from bounds on the registry
     (at most two providers for a pair of methods, say) instead of on the intents.
   - The two refinements of item 3.

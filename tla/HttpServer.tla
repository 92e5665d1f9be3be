------------------------------ MODULE HttpServer ------------------------------
(* UniPayRequestHandler (server.py) and the in-flight gauge of             *)
(* MetricsRegistry (metrics.py): one thread per connection, which serves   *)
(* one request after the other as HTTP/1.1 keeps connections open.  What   *)
(* fails on the way -- the limiter's Redis, the arguments of a GET, the    *)
(* client's socket -- takes the thread past the steps that would have      *)
(* closed the books on the request.                                        *)
EXTENDS Integers, FiniteSets, PythonNone

CONSTANTS
  Connections, \* connections, each with its thread
  Faults,      \* what may fail: subset of {"limiter", "arguments", "socket"}
  MaxDropped   \* bound on the requests that are dropped

Methods == {"GET", "POST", "OPTIONS"}

\* The body of a request: with a Content-Length, chunked, or none.
Bodies == {"none", "sized", "chunked"}

ASSUME ConnectionsFinite == IsFiniteSet(Connections)
ASSUME ServerAssumption ==
  /\ Faults \subseteq {"limiter", "arguments", "socket"} /\ MaxDropped \in Nat
  /\ None \notin Methods

VARIABLES
  in_flight, \* MetricsRegistry._in_flight
  pc,        \* what each thread does next
  method,    \* the method of its request
  status,    \* the status it is about to send, then the one it sent
  caught,    \* its response is sent inside the try of do_POST
  unread,    \* the body of its request that nobody has read
  dropped    \* history: requests whose thread died over them

connection == <<pc, method, status, caught, unread>>
server == <<in_flight, connection, dropped>>

-----------------------------------------------------------------------------
ServerInit ==
  /\ in_flight = 0
  /\ pc = [t \in Connections |-> "idle"]
  /\ method = [t \in Connections |-> None]
  /\ status = [t \in Connections |-> None]
  /\ caught = [t \in Connections |-> FALSE]
  /\ unread = [t \in Connections |-> "none"]
  /\ dropped = 0

Proceed(t, label) == pc' = [pc EXCEPT ![t] = label]

Respond(t, code) == status' = [status EXCEPT ![t] = code] /\ Proceed(t, "send")

\* An exception nobody catches: socketserver closes the connection, and the
\* thread of the next one takes its place in the model.
Drop(t) ==
  /\ dropped < MaxDropped
  /\ dropped' = dropped + 1
  /\ pc' = [pc EXCEPT ![t] = "idle"]
  /\ method' = [method EXCEPT ![t] = None]
  /\ status' = [status EXCEPT ![t] = None]
  /\ caught' = [caught EXCEPT ![t] = FALSE]
  /\ unread' = [unread EXCEPT ![t] = "none"]
  /\ UNCHANGED in_flight

\* _request_context up to metrics.begin(), for any method with any body.  What
\* was left unread may be a request itself, which is served like any other;
\* or the connection was closed, and this is the first request of the next.
Begin(t, m, body) ==
  /\ pc[t] = "idle"
  /\ in_flight' = in_flight + 1
  /\ method' = [method EXCEPT ![t] = m]
  /\ status' = [status EXCEPT ![t] = None]
  /\ caught' = [caught EXCEPT ![t] = FALSE]
  /\ unread' = [unread EXCEPT ![t] = body]
  /\ Proceed(t, "limit")
  /\ UNCHANGED dropped

\* What was left unread is no request: an error page from http.server, which
\* none of this code sees, and the connection is closed.
Misread(t) ==
  /\ pc[t] = "idle" /\ unread[t] # "none"
  /\ method' = [method EXCEPT ![t] = None]
  /\ status' = [status EXCEPT ![t] = None]
  /\ unread' = [unread EXCEPT ![t] = "none"]
  /\ UNCHANGED <<in_flight, pc, caught, dropped>>

\* rate_limiter.check, for which there is no try.
CheckLimit(t) ==
  /\ pc[t] = "limit"
  /\ \/ Respond(t, 429) /\ UNCHANGED <<in_flight, method, caught, unread, dropped>>
     \/ /\ IF method[t] = "OPTIONS" THEN Respond(t, 204)
           ELSE Proceed(t, "authorize") /\ UNCHANGED status
        /\ UNCHANGED <<in_flight, method, caught, unread, dropped>>
     \/ "limiter" \in Faults /\ Drop(t)

Authorize(t) ==
  /\ pc[t] = "authorize"
  /\ \/ Respond(t, 401)
     \/ Proceed(t, "handle") /\ UNCHANGED status
  /\ UNCHANGED <<in_flight, method, caught, unread, dropped>>

\* The rest of do_GET: float(amount) may raise.
HandleGet(t) ==
  /\ pc[t] = "handle" /\ method[t] = "GET"
  /\ \/ /\ \E code \in {200, 401, 404} : Respond(t, code)
        /\ UNCHANGED <<in_flight, method, caught, unread, dropped>>
     \/ "arguments" \in Faults /\ Drop(t)

\* _read_json: Content-Length bytes, none of a body that has no length.
ReadBody(t) ==
  unread' = [unread EXCEPT ![t] = IF @ = "sized" THEN "none" ELSE @]

\* Mutant: unknown paths are refused before the body is read.
PathBeforeBody(t) ==
  /\ pc[t] = "handle" /\ method[t] = "POST"
  /\ \/ Respond(t, 404) /\ UNCHANGED <<caught, unread>>
     \/ /\ \E code \in {200, 400} : Respond(t, code)
        /\ caught' = [caught EXCEPT ![t] = TRUE]
        /\ ReadBody(t)
  /\ UNCHANGED <<in_flight, method, dropped>>

\* The try of do_POST.  A Content-Length that is too large or no number is
\* refused before the body is read; what the API answers is sent inside the
\* try, what it raises is answered outside.
HandlePost(t) ==
  /\ pc[t] = "handle" /\ method[t] = "POST"
  /\ \/ unread[t] = "sized" /\ Respond(t, 400) /\ UNCHANGED <<caught, unread>>
     \/ /\ \/ /\ \E code \in {200, 400, 404} : Respond(t, code)
              /\ caught' = [caught EXCEPT ![t] = TRUE]
           \/ /\ \E code \in {400, 500} : Respond(t, code)
              /\ UNCHANGED caught
        /\ ReadBody(t)
  /\ UNCHANGED <<in_flight, method, dropped>>

\* Mutant: the request is counted out before the response is written.
SendCountsFirst(t) ==
  /\ pc[t] = "send"
  /\ \/ Proceed(t, "observe")
        /\ UNCHANGED <<in_flight, method, status, caught, unread, dropped>>
     \/ /\ "socket" \in Faults /\ caught[t]
        /\ Respond(t, 500)
        /\ caught' = [caught EXCEPT ![t] = FALSE]
        /\ in_flight' = IF in_flight > 0 THEN in_flight - 1 ELSE 0
        /\ UNCHANGED <<method, unread, dropped>>

\* _send: the response is written, or the client is gone.  If that happens
\* inside the try of do_POST, a second response is sent.
SendResponse(t) ==
  /\ pc[t] = "send"
  /\ \/ Proceed(t, "observe")
        /\ UNCHANGED <<in_flight, method, status, caught, unread, dropped>>
     \/ /\ "socket" \in Faults /\ caught[t]
        /\ Respond(t, 500)
        /\ caught' = [caught EXCEPT ![t] = FALSE]
        /\ UNCHANGED <<in_flight, method, unread, dropped>>
     \/ "socket" \in Faults /\ ~ caught[t] /\ Drop(t)

\* metrics.observe, under its lock.
Observe(t) ==
  /\ pc[t] = "observe"
  /\ in_flight' = IF in_flight > 0 THEN in_flight - 1 ELSE 0
  /\ Proceed(t, "idle")
  /\ UNCHANGED <<method, status, caught, unread, dropped>>

ServerNext == \E t \in Connections :
  \/ \E m \in Methods, body \in Bodies : Begin(t, m, body)
  \/ Misread(t) \/ CheckLimit(t) \/ Authorize(t) \/ HandleGet(t) \/ HandlePost(t)
  \/ SendResponse(t) \/ Observe(t)

ServerSpec == ServerInit /\ [][ServerNext]_server

-----------------------------------------------------------------------------
Active == {t \in Connections : pc[t] # "idle"}

\* The variables have their types.
ServerTypeOK ==
  /\ in_flight \in Nat
  /\ pc \in [Connections -> {"idle", "limit", "authorize", "handle", "send", "observe"}]
  /\ method \in [Connections -> Methods \union {None}]
  /\ status \in [Connections -> {200, 204, 400, 401, 404, 429, 500, None}]
  /\ caught \in [Connections -> BOOLEAN]
  /\ unread \in [Connections -> Bodies]
  /\ dropped \in 0..MaxDropped

(* Every request is counted in once and, unless its thread died over it,   *)
(* counted out once, whatever responses failed in between: the gauge is    *)
(* too high by the dropped requests, and never too low.                    *)
GaugeDriftsByDrops == in_flight = Cardinality(Active) + dropped

(* The body of a POST that says how long it is gets left in the connection *)
(* by a refusal only: over the limit, without the key, or of a length that *)
(* is not accepted.  Whatever else becomes of the request, a second        *)
(* response after a broken one included, its body was read.                *)
BodyLeftOnRefusal ==
  \A t \in Connections :
    pc[t] = "idle" /\ method[t] = "POST" /\ unread[t] = "sized" =>
      status[t] \in {400, 401, 429}

(* "Current requests being processed." (metrics.py:69)                     *)
GaugeExact == in_flight = Cardinality(Active)
=============================================================================

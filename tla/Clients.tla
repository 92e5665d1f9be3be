-------------------------------- MODULE Clients --------------------------------
(* Clients that create a payment intent over HTTP and try again, on the    *)
(* same connection or a new one, until they hear of one.  Nothing in a     *)
(* request tells a retry from a new payment: create_payment_intent (api.py)*)
(* stores an intent under a new id each time, as its last step.            *)
EXTENDS HttpServer

CONSTANTS
  Buyers,  \* the clients that want an intent
  MaxTries \* bound on the requests each creates it with

ASSUME ClientAssumption == Buyers \subseteq Connections /\ MaxTries \in Nat

VARIABLES
  creating, \* the request of each client is POST /v1/payment-intents
  tries,    \* history: how many of those it sent
  stored,   \* history: the intents in _payment_intents that are its own
  told,     \* it heard of an intent
  lost      \* history: replies with an intent that did not reach it

client == <<creating, tries, stored, told, lost>>

\* Mutant: the intent is stored before its routes are looked for.
StoresEarly(t) == creating[t] /\ unread'[t] = "none"

\* create_payment_intent reached its last lines.
Stores(t) == creating[t] /\ status'[t] = 200

\* The reply of a request says an intent was created.
Announces(t) == creating[t] /\ status[t] = 200

ClientInit ==
  /\ ServerInit
  /\ creating = [t \in Connections |-> FALSE] /\ told = [t \in Connections |-> FALSE]
  /\ tries = [t \in Connections |-> 0] /\ stored = [t \in Connections |-> 0]
  /\ lost = [t \in Connections |-> 0]

\* The client asks for an intent,
AskIntent(t) ==
  /\ t \in Buyers /\ Begin(t, "POST", "sized") /\ ~ told[t] /\ tries[t] < MaxTries
  /\ creating' = [creating EXCEPT ![t] = TRUE]
  /\ tries' = [tries EXCEPT ![t] = @ + 1]
  /\ UNCHANGED <<stored, told, lost>>

\* or for anything else.
AskOther(t) ==
  /\ \E m \in Methods, body \in Bodies : Begin(t, m, body)
  /\ creating' = [creating EXCEPT ![t] = FALSE]
  /\ UNCHANGED <<tries, stored, told, lost>>

Handle(t) ==
  /\ HandlePost(t)
  /\ stored' = IF Stores(t) THEN [stored EXCEPT ![t] = @ + 1] ELSE stored
  /\ UNCHANGED <<creating, tries, told, lost>>

\* A response that was written may yet not reach the client.
ReplyTo(t) ==
  /\ SendResponse(t)
  /\ \/ pc'[t] = "observe" /\ told' = [told EXCEPT ![t] = @ \/ Announces(t)] /\ UNCHANGED lost
     \/ /\ "socket" \in Faults
        /\ lost' = IF Announces(t) THEN [lost EXCEPT ![t] = @ + 1] ELSE lost
        /\ UNCHANGED told
  /\ UNCHANGED <<creating, tries, stored>>

ServeOther(t) == Misread(t) \/ CheckLimit(t) \/ Authorize(t) \/ HandleGet(t) \/ Observe(t)

ClientNext == \E t \in Connections :
  \/ AskIntent(t) \/ AskOther(t) \/ Handle(t) \/ ReplyTo(t)
  \/ ServeOther(t) /\ UNCHANGED client

ClientSpec == ClientInit /\ [][ClientNext]_<<server, client>>

-----------------------------------------------------------------------------
(* A client that tries again until it is told has one intent, and one more *)
(* for every reply that was lost on the way: an error, an unread body, a   *)
(* second response after a failed one, the death of a thread leave nothing *)
(* behind that no reply announced.  Creation is not idempotent yet         *)
(* (DEPLOYMENT.md:69).                                                     *)
DuplicatesAreLostReplies ==
  \A t \in Connections :
    LET OnTheWay == pc[t] = "send" /\ Announces(t)
    IN stored[t] = lost[t] + (IF told[t] \/ OnTheWay THEN 1 ELSE 0)
=============================================================================

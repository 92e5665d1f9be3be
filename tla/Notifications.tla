----------------------------- MODULE Notifications -----------------------------
(* The reconciliation engine behind the webhooks.  The code stops at       *)
(* handle_webhook, which echoes what it parsed; update_from_provider is    *)
(* there to "update record from provider webhook data" (reconciliation.py: *)
(* 71) and ARCHITECTURE.md:128 has the router call it.  Here the program   *)
(* around the router does: it hands every echo to the engine.              *)
EXTENDS Reconciliation, Webhooks

CONSTANT Deployments

ASSUME DeploymentAssumption ==
  Deployments \subseteq Deployment /\ Providers = Processors

VARIABLES
  deployment, \* the configuration of the process, read from its environment
  event       \* history: the event of the last webhook about a record

nvars == <<reconciliation, deployment, event>>

-----------------------------------------------------------------------------
\* The statuses each provider writes.
Speaks == [
  razorpay |-> {"authorized", "captured", "failed", "refunded", "disputed"},
  cashfree |-> {"SUCCESS", "FAILED", "null"},
  payu |-> {"pending", "processing", "success", "failure", "refunded"}]

\* The event a status comes with.  Razorpay says refund.processed, which is in
\* no table; PayU's event is its status.
EventName(provider, status) ==
  CASE provider = "razorpay" /\ status = "disputed" -> "dispute_created"
    [] provider = "razorpay" /\ status = "refunded" -> "refund_processed"
    [] status = "null" -> "REFUND_CREATED"
    [] OTHER -> status

Request(provider, status) == [
  provider |-> provider, name |-> EventName(provider, status), status |-> status,
  payment |-> PaymentNamed(status),
  header |-> IF provider = "razorpay" THEN "X-Razorpay-Signature"
                                      ELSE "x-webhook-signature"]

NInit ==
  /\ ReconciliationInit
  /\ deployment \in Deployments
  /\ event = [id \in Ids |-> None]

NCreate(id, i, p) == CreateRecord(id, i, p) /\ UNCHANGED <<deployment, event>>

NSend(id) ==
  /\ Notify(id) /\ Last(sent[id]') \in Speaks[records[id].provider]
  /\ UNCHANGED <<deployment, event>>

\* handle_webhook's reply to the n-th notification about a record.
Reply(id, n) == HandleWebhook(deployment, Request(records[id].provider, sent[id][n]))

\* A webhook is accepted, and its echo handed to the engine.
NDeliver(id, n) ==
  /\ Accepted(Reply(id, n))
  /\ Deliver(id, n)
  /\ event' = [event EXCEPT ![id] = Reply(id, n).event]
  /\ UNCHANGED deployment

\* A webhook is refused, which changes nothing; it may be sent again.
NRefuse(id, n) == ~ Accepted(Reply(id, n)) /\ UNCHANGED nvars

NNext ==
  \/ \E id \in Ids, i \in Intents, p \in Providers : NCreate(id, i, p)
  \/ \E id \in Known : NSend(id)
  \/ \E id \in Known : \E n \in 1..Len(sent[id]) : NDeliver(id, n)
  \/ \E id \in Known : \E n \in 1..Len(sent[id]) : NRefuse(id, n)

NSpec == NInit /\ [][NNext]_nvars

-----------------------------------------------------------------------------
(* The two translations of one notification, the handler's event and the   *)
(* engine's status, agree: what is captured is settled, what is authorised *)
(* is a success (for PayU, which calls it pending, in process), what a     *)
(* table calls failed has failed.  A refund is one, or comes without a     *)
(* status and leaves the engine's view as it was.  A dispute is flagged if *)
(* the payment is settled or failed.                                       *)
EventsMatchRecords ==
  \A id \in Known : event[id] # None =>
    LET r == records[id]
    IN /\ event[id] = "PAYMENT_CAPTURED" => r.our_status = "settled"
       /\ event[id] = "PAYMENT_AUTHORIZED" =>
            r.our_status = IF r.provider = "payu" THEN "payment_processing"
                                                  ELSE "payment_success"
       /\ event[id] = "PAYMENT_REFUNDED" =>
            r.our_status = "refunded" \/ r.provider_status = "null"
       /\ event[id] = "PAYMENT_DISPUTED" =>
            (r.discrepancy <=> r.our_status \in {"settled", "payment_failed"})
       /\ event[id] = "PAYMENT_FAILED"
          /\ InTable(r.provider, EventName(r.provider, r.provider_status)) =>
            r.our_status = "payment_failed"

(* "The current handler verifies Razorpay's X-Razorpay-Signature and       *)
(* Cashfree's x-webhook-signature when the corresponding secret is set. It *)
(* verifies the raw body" (PROVIDERS.md:127-129): with the secrets set and *)
(* no API key, every webhook a provider signed is accepted.                *)
SignedAreVerified ==
  \A id \in Known : \A n \in 1..Len(sent[id]) :
    deployment.secret /\ ~ deployment.api_key => Accepted(Reply(id, n))
=============================================================================

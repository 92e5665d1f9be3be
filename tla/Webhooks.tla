------------------------------- MODULE Webhooks -------------------------------
(* What becomes of a provider's webhook on its way through the HTTP server *)
(* (server.py) or the WSGI adapter (vercel_app.py) and WebhookHandler      *)
(* (webhook_handler.py): pure functions, nothing is kept.  Only genuine    *)
(* requests occur: the provider signed the bytes it sent with the secret.  *)
(*                                                                         *)
(* A request is [provider, name, status, payment, header, spaced]: the     *)
(* event's name and the payment's status as the provider writes them, the  *)
(* header its signature is in, and whether its JSON has a space after      *)
(* every comma and colon, as Python's json.dumps writes it.                *)

\* A deployment: which entry point it runs behind, whether the API key and
\* the webhook secrets are set, how providers write their JSON.
Deployment == [adapter : {"server", "vercel"}, api_key : BOOLEAN,
               secret : BOOLEAN, spaced : BOOLEAN]

\* WebhookHandler._processors.
Processors == {"razorpay", "cashfree", "payu"}

\* The event_map of each processor, with the event names shortened.
EventMaps == [
  razorpay |-> [authorized |-> "PAYMENT_AUTHORIZED", captured |-> "PAYMENT_CAPTURED",
                failed |-> "PAYMENT_FAILED", refunded |-> "PAYMENT_REFUNDED",
                dispute_created |-> "PAYMENT_DISPUTED"],
  cashfree |-> [AUTHORIZED |-> "PAYMENT_AUTHORIZED", SUCCESS |-> "PAYMENT_CAPTURED",
                FAILED |-> "PAYMENT_FAILED", REFUND_CREATED |-> "PAYMENT_REFUNDED"],
  payu |-> [success |-> "PAYMENT_CAPTURED", failure |-> "PAYMENT_FAILED",
            pending |-> "PAYMENT_AUTHORIZED"]]

InTable(provider, name) == name \in DOMAIN EventMaps[provider]

\* Mutant: Cashfree's success is an authorisation.
EventIfCaptured(provider, name) ==
  IF ~ InTable(provider, name) THEN "PAYMENT_FAILED"
  ELSE IF provider = "cashfree" /\ name = "SUCCESS" THEN "PAYMENT_AUTHORIZED"
  ELSE EventMaps[provider][name]

\* event_map.get(event, WebhookEvent.PAYMENT_FAILED)
Event(provider, name) ==
  IF InTable(provider, name) THEN EventMaps[provider][name] ELSE "PAYMENT_FAILED"

\* The names headers.get is called with; PayU's processor looks at none.
SignatureHeader == [razorpay |-> "x-razorpay-signature",
                    cashfree |-> "x-webhook-signature"]

LowerCase(header) ==
  IF header = "X-Razorpay-Signature" THEN "x-razorpay-signature" ELSE header

\* dict(self.headers), or HTTP_* of the WSGI environment in lower case: the
\* name under which process finds the signature.
HeaderSeen(deployment, header) ==
  IF deployment.adapter = "vercel" THEN LowerCase(header) ELSE header

\* Both entry points pass json.dumps of the parsed body; the signature is
\* that of the bytes they received.
SignedBytesPassed(deployment) == deployment.spaced

\* verify_razorpay and verify_cashfree in front of the two processors.
Verified(deployment, provider, header) ==
  \/ provider = "payu" \/ ~ deployment.secret
  \/ /\ HeaderSeen(deployment, header) = SignatureHeader[provider]
     /\ SignedBytesPassed(deployment)

\* do_POST and app up to handle_webhook: a provider sends no API key.
Authorized(deployment) == ~ deployment.api_key

\* handle_webhook of what process returns, or the error reply.
HandleWebhook(deployment, request) ==
  IF /\ Authorized(deployment)
     /\ request.provider \in Processors
     /\ Verified(deployment, request.provider, request.header)
  THEN [event |-> Event(request.provider, request.name),
        payment_id |-> request.payment, status |-> request.status]
  ELSE [error |-> "Invalid webhook or unknown provider"]

Accepted(reply) == "error" \notin DOMAIN reply
=============================================================================

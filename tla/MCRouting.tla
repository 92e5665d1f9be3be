------------------------------ MODULE MCRouting ------------------------------
(* Instances of the routing engine over the provider table of the program. *)
EXTENDS Routing

From(country, currency, accepts, pct, abs, pref) ==
  [country |-> country, currency |-> currency, accepts |-> accepts,
   max_pct |-> pct, max_abs |-> abs, pref |-> pref]

Pay(amount, currency, methods, receiver) ==
  [amount |-> amount, currency |-> currency, methods |-> methods, receiver |-> receiver]

\* The default ReceiverPreferences, and a receiver paid in dollars.
Default == From("IN", "INR", {"upi", "bank_transfer"}, 100, 100, "instant")
Abroad == From("US", "USD", {"visa", "paypal"}, 450, 5000, "t+1")

\* At most ten candidates each: the recovery list cuts nothing off.  The last
\* two receivers take bank transfers only, which is a day too late for one.
\* Crypto is not compliant in India.
NarrowIntents == {
  Pay(120, "INR", {"visa"}, Default),
  Pay(10, "INR", {"net_banking", "wallet"}, Default),
  Pay(20, "INR", {"visa"}, Abroad),
  Pay(120, "INR", {"crypto", "upi"}, From("IN", "INR", {"upi"}, 10, 100, "instant")),
  Pay(120, "INR", {"upi"}, From("IN", "INR", {"bank_transfer"}, 100, 100, "real_time")),
  Pay(120, "INR", {"upi"}, From("IN", "INR", {"bank_transfer"}, 100, 100, "instant"))}

VisaToUpi == {Pay(120, "INR", {"visa"}, From("IN", "INR", {"upi"}, 300, 5000, "t+1"))}

\* A payer in India who has nothing but crypto.
CryptoToUpi == {Pay(120, "INR", {"crypto"}, From("IN", "INR", {"upi"}, 300, 5000, "t+1"))}
=============================================================================

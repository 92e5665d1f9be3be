------------------------------ MODULE MCSession ------------------------------
(* The intents of MCRouting, and parties for the graph: one receiver added *)
(* again from elsewhere, a country and a method the graph does not have, a *)
(* party without methods.                                                  *)
EXTENDS Session, MCRouting

ASSUME RoomAssumption == \A i \in Intents : RoomToSubmit(i) /\ RoomToRecover(i)

Party(id, country, methods, currency) ==
  [id |-> id, country |-> country, methods |-> methods, currency |-> currency]

SomeParties == {
  Party("bob", "IN", {"upi", "crypto"}, "INR"),
  Party("bob", "US", {"visa", "paypal"}, "USD"),
  Party("bob", "UK", {"bank_transfer"}, "GBP"),
  Party("eve", "SG", {}, "SGD")}
=============================================================================

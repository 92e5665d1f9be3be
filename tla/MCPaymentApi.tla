---------------------------- MODULE MCPaymentApi ----------------------------
(* Instances of PaymentApi: two receivers, the first one present at        *)
(* start-up, the second one with an id that is also a handle; three routes *)
(* of which only the first is fast enough for the strict choice.           *)
EXTENDS PaymentApi

CONSTANTS bob, shop

MCReceivers == {bob, shop}
MCHandles == {shop}
MCDefaults == {bob}
MCRoutes == 1..3
Strict == [rank |-> [r \in MCRoutes |-> r], routable |-> {1, 2, 3},
           accepts |-> {1}]
Slow == [rank |-> [r \in MCRoutes |-> 4 - r], routable |-> {2, 3},
         accepts |-> {2, 3}]
MCChoices == {Strict, Slow}
MCOffers == {{1, 2, 3}}
MCListOffer == {1, 2}
OneChoice == {Strict}
=============================================================================

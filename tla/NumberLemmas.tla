---------------------------- MODULE NumberLemmas ----------------------------
(* Facts about numbers that the proofs of several components use.          *)
EXTENDS Integers, TLAPS, WellFoundedInduction

\* Any non-empty set of naturals has a least element.
LEMMA LeastNatural ==
  ASSUME NEW S \in SUBSET Nat, S # {}
  PROVE  \E m \in S : \A n \in S : m <= n
<1> DEFINE R == {p \in Nat \X Nat : p[1] < p[2]}
<1>1. IsWellFoundedOn(R, Nat)
  BY NatLessThanWellFounded DEF OpToRel
<1> HIDE DEF R
<1>2. PICK m \in S : \A n \in S : ~ (<<n, m>> \in R)
  BY <1>1, WFMin
<1>3. \A n \in S : ~ (n < m)
  BY <1>2 DEF R
<1> QED BY <1>3


\* Integer division rounds down.
LEMMA DivBounds ==
  ASSUME NEW a \in Int, NEW b \in Nat \ {0}
  PROVE  /\ a \div b \in Int
         /\ b * (a \div b) <= a
         /\ a < b * (a \div b) + b
BY Z3

\* Adding 0.999 of a unit before rounding down is at most 0.001 short.
LEMMA NearlyRoundedUp ==
  ASSUME NEW x \in Int, NEW unit \in Nat \ {0}, NEW q,
         q = (1000 * x + 999 * unit) \div (1000 * unit)
  PROVE  q \in Int /\ 1000 * x < unit * (1000 * q + 1)
<1> DEFINE a == 1000 * x + 999 * unit
           b == 1000 * unit
<1>1. a \in Int /\ b \in Nat \ {0}
  OBVIOUS
<1>2. q \in Int /\ a < b * q + b
  <2> HIDE DEF a, b
  <2>1. q = a \div b
    BY DEF a, b
  <2> QED BY <1>1, <2>1, DivBounds
<1>3. 1000 * x + 999 * unit < (1000 * unit) * q + 1000 * unit
  BY <1>2
<1>4. unit * (1000 * q + 1) = (1000 * unit) * q + unit
  BY <1>2
<1> QED BY <1>2, <1>3, <1>4

\* Time enough for wait is seconds and a millisecond.
LongEnough(wait, seconds, unit) == 1000 * wait <= unit * (1000 * seconds + 1)

\* max(1, q) seconds are, if q are.
LEMMA AtLeastASecond ==
  ASSUME NEW wait \in Int, NEW unit \in Nat \ {0}, NEW q \in Int,
         1000 * wait < unit * (1000 * q + 1)
  PROVE  LongEnough(wait, IF q > 1 THEN q ELSE 1, unit)
<1>1. CASE q > 1
  BY <1>1 DEF LongEnough
<1>2. CASE ~ (q > 1)
  <2>1. unit * (1000 * q + 1) <= unit * (1000 * 1 + 1)
    BY <1>2
  <2> QED BY <1>2, <2>1 DEF LongEnough
<1> QED BY <1>1, <1>2

\* A caller that waited them waited long enough.
LEMMA LongEnoughElapsed ==
  ASSUME NEW wait \in Int, NEW seconds \in Nat, NEW unit \in Nat, NEW spent \in Int,
         LongEnough(wait, seconds, unit), 1000 * spent >= unit * (1000 * seconds + 1)
  PROVE  wait <= spent
<1>1. unit * (1000 * seconds + 1) \in Int
  OBVIOUS
<1> QED BY <1>1 DEF LongEnough
=============================================================================

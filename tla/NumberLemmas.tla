---------------------------- MODULE NumberLemmas ----------------------------
(* Facts about numbers that the proofs of several components need.          *)
EXTENDS Integers, WellFoundedInduction, TLAPS

\* Every set of natural numbers that is not empty has a least element.
LEMMA LeastNumber ==
    ASSUME NEW S, S \subseteq Nat, S # {}
    PROVE  \E x \in S : \A y \in S : x <= y
<1> DEFINE R == OpToRel(<, Nat)
<1>1. IsWellFoundedOn(R, Nat)
  BY NatLessThanWellFounded
<1>2. \A x, y \in Nat : <<y, x>> \in R <=> y < x
  BY DEF OpToRel
<1> HIDE DEF R
<1>3. PICK x \in S : \A y \in S : ~ (<<y, x>> \in R)
  BY <1>1, WFMin
<1>4. ASSUME NEW y \in S PROVE x <= y
  <2>1. ~ (y < x)
    BY <1>2, <1>3
  <2>2. QED
    BY <2>1
<1>5. QED
  BY <1>4

\* Division with remainder.
LEMMA Division ==
    ASSUME NEW a \in Nat, NEW b \in Nat \ {0}
    PROVE  a = (a \div b) * b + (a % b) /\ a % b \in 0 .. b - 1 /\ a \div b \in Nat
<1>1. a % b \in 0 .. b - 1
  OBVIOUS
<1>2. a = b * (a \div b) + (a % b)
  OBVIOUS
<1>3. a \div b \in Int
  OBVIOUS
<1>4. a \div b >= 0
  OBVIOUS
<1>5. QED
  BY <1>1, <1>2, <1>3, <1>4

\* There is only one way to divide.
LEMMA DivisionUnique ==
    ASSUME NEW b \in Nat \ {0}, NEW q \in Nat, NEW r \in 0 .. b - 1
    PROVE  (q * b + r) \div b = q /\ (q * b + r) % b = r
OBVIOUS

\* Multiples have no remainder.
LEMMA Multiple ==
    ASSUME NEW b \in Nat \ {0}, NEW q \in Nat
    PROVE  (q * b) \div b = q /\ (q * b) % b = 0
OBVIOUS

\* A common factor cancels.
LEMMA DivideByProduct ==
    ASSUME NEW k \in Nat, NEW b \in Nat \ {0}, NEW p \in Nat \ {0}
    PROVE  (k * b) \div (p * b) = k \div p
OBVIOUS

\* A full period leaves the remainder alone.
LEMMA Periodic ==
    ASSUME NEW k \in Nat, NEW p \in Nat \ {0}, NEW n \in Nat
    PROVE  (k + n * p) % p = k % p /\ (k + n * p) \div p = (k \div p) + n
OBVIOUS
=============================================================================

------------------------------- MODULE Division -------------------------------
(***************************************************************************)
(* What the proofs need to know of quotients, remainders and multiples by  *)
(* a number that is not a literal: the prover's own arithmetic is linear.  *)
(* And an induction over numbers.                                          *)
(***************************************************************************)
EXTENDS Integers, FiniteSetTheorems, TLAPS

(* A multiple grows by a whole factor.                                     *)
LEMMA MultiplesAreApart ==
  ASSUME NEW n \in Nat \ {0}, NEW a \in Int, NEW b \in Int, a < b
  PROVE  n * a + n <= n * b
<1>1. n * (b - a - 1) >= 0
  BY SMT
<1>. QED
  BY <1>1, SMT

(* Division with remainder.                                                *)
LEMMA DivisionWithRemainder ==
  ASSUME NEW n \in Nat \ {0}, NEW x \in Nat
  PROVE  /\ x \div n \in Nat /\ x % n \in 0 .. n - 1
         /\ x = n * (x \div n) + (x % n)
<1>1. x \div n \in Int /\ x % n \in 0 .. n - 1 /\ x = n * (x \div n) + (x % n)
  BY SMT
<1>2. ~(x \div n < 0)
  BY <1>1, MultiplesAreApart, SMT
<1>. QED
  BY <1>1, <1>2

(* Quotient and remainder are the only ones.                               *)
LEMMA DivisionIsUnique ==
  ASSUME NEW n \in Nat \ {0}, NEW q \in Nat, NEW r \in 0 .. n - 1
  PROVE  (n * q + r) \div n = q /\ (n * q + r) % n = r
<1>1. n * q + r \in Nat
  <2>1. n * q \in Nat
    BY SMT
  <2>. QED
    BY <2>1
<1>. DEFINE x == n * q + r  d == x \div n  m == x % n
<1>2. d \in Nat /\ m \in 0 .. n - 1 /\ x = n * d + m
  BY <1>1, DivisionWithRemainder
<1>. HIDE DEF d, m
<1>3. ~(d < q)
  <2>1. d < q => n * d + n <= n * q
    BY <1>2, MultiplesAreApart
  <2>. QED
    BY <2>1, <1>2
<1>4. ~(q < d)
  <2>1. q < d => n * q + n <= n * d
    BY <1>2, MultiplesAreApart
  <2>. QED
    BY <2>1, <1>2
<1>5. d = q
  BY <1>2, <1>3, <1>4
<1>6. m = r
  BY <1>2, <1>5
<1>. QED
  BY <1>5, <1>6 DEF d, m

(* What is less than a multiple has a smaller quotient.                    *)
LEMMA QuotientOfLess ==
  ASSUME NEW n \in Nat \ {0}, NEW a \in Nat, NEW q \in Nat, a < n * q
  PROVE  a \div n \in Nat /\ a \div n < q
<1>1. a \div n \in Nat /\ a % n \in 0 .. n - 1 /\ a = n * (a \div n) + (a % n)
  BY DivisionWithRemainder
<1>. DEFINE d == a \div n  m == a % n
<1>. HIDE DEF d, m
<1>2. d \in Nat /\ m \in Nat /\ a = n * d + m
  BY <1>1 DEF d, m
<1>3. ~(q < d)
  <2>1. q < d => n * q + n <= n * d
    BY <1>2, MultiplesAreApart
  <2>2. n * q \in Int /\ n * d \in Int
    BY <1>2, SMT
  <2>. QED
    BY <2>1, <2>2, <1>2
<1>4. q # d
  <2>1. q = d => n * q = n * d
    OBVIOUS
  <2>2. n * q \in Int /\ n * d \in Int
    BY <1>2, SMT
  <2>. QED
    BY <2>1, <2>2, <1>2
<1>. QED
  BY <1>2, <1>3, <1>4 DEF d

(* Quotients are monotonic.                                                *)
LEMMA QuotientIsMonotonic ==
  ASSUME NEW n \in Nat \ {0}, NEW a \in Nat, NEW b \in Nat, a <= b
  PROVE  a \div n <= b \div n
<1>1. /\ a \div n \in Nat /\ a % n \in 0 .. n - 1 /\ a = n * (a \div n) + (a % n)
      /\ b \div n \in Nat /\ b % n \in 0 .. n - 1 /\ b = n * (b \div n) + (b % n)
  BY DivisionWithRemainder
<1>. DEFINE c == a \div n  d == b \div n  l == a % n  m == b % n
<1>. HIDE DEF c, d, l, m
<1>2. /\ c \in Nat /\ d \in Nat /\ l \in Nat /\ m \in Nat /\ m < n
      /\ a = n * c + l /\ b = n * d + m
  BY <1>1 DEF c, d, l, m
<1>3. ~(d < c)
  <2>1. d < c => n * d + n <= n * c
    BY <1>2, MultiplesAreApart
  <2>2. n * c \in Int /\ n * d \in Int
    BY <1>2, SMT
  <2>. QED
    BY <2>1, <2>2, <1>2
<1>. QED
  BY <1>2, <1>3 DEF c, d

(* Products of positive numbers are positive.                              *)
LEMMA Products ==
  ASSUME NEW a \in Nat \ {0}, NEW b \in Nat \ {0}
  PROVE  a * b \in Nat \ {0}
<1>1. a * b >= a
  <2>1. a * (b - 1) >= 0
    BY SMT
  <2>. QED
    BY <2>1, SMT
<1>. QED
  BY <1>1, SMT

(* To divide twice is to divide by the product.                            *)
LEMMA QuotientOfQuotient ==
  ASSUME NEW a \in Nat \ {0}, NEW b \in Nat \ {0}, NEW v \in Nat
  PROVE  (v \div a) \div b = v \div (b * a)
<1>. DEFINE q == v \div a  r == v % a  qq == q \div b  rr == q % b
<1>1. q \in Nat /\ r \in 0 .. a - 1 /\ v = a * q + r
  BY DivisionWithRemainder
<1>. HIDE DEF q, r
<1>2. qq \in Nat /\ rr \in 0 .. b - 1 /\ q = b * qq + rr
  BY <1>1, DivisionWithRemainder
<1>. HIDE DEF qq, rr
<1>3. a * rr + a <= a * b
  BY <1>2, MultiplesAreApart
<1>4. a * rr + r \in 0 .. (b * a) - 1
  <2>1. a * rr \in Nat /\ a * b \in Nat /\ a * b = b * a
    BY <1>2, SMT
  <2>. QED
    BY <2>1, <1>1, <1>3
<1>5. v = (b * a) * qq + (a * rr + r)
  <2>1. a * (b * qq + rr) = (b * a) * qq + a * rr
    BY <1>2, SMT
  <2>2. a * rr \in Nat /\ (b * a) * qq \in Nat
    BY <1>2, SMT
  <2>. QED
    BY <1>1, <1>2, <2>1, <2>2
<1>6. b * a \in Nat \ {0}
  BY Products
<1>7. ((b * a) * qq + (a * rr + r)) \div (b * a) = qq
  BY <1>2, <1>4, <1>6, DivisionIsUnique, Zenon
<1>8. v \div (b * a) = qq
  BY <1>5, <1>7, Zenon
<1>. QED
  BY <1>8 DEF q, qq

(* A number above a weight is its digit there and what is above that.      *)
LEMMA DigitAndRest ==
  ASSUME NEW weight \in Nat \ {0}, NEW b \in Nat \ {0}, NEW v \in Nat
  PROVE  v \div weight = ((v \div weight) % b) + b * (v \div (b * weight))
<1>1. v \div weight \in Nat
  BY DivisionWithRemainder
<1>. DEFINE q == v \div weight
<1>2. q \in Nat
  BY <1>1
<1>. HIDE DEF q
<1>3. q \div b \in Nat /\ q % b \in Nat /\ q = b * (q \div b) + (q % b)
  <2>1. q \div b \in Nat /\ q % b \in 0 .. b - 1 /\ q = b * (q \div b) + (q % b)
    BY <1>2, DivisionWithRemainder
  <2>. QED
    BY <2>1
<1>. DEFINE p == b * (q \div b)  r == q % b
<1>4. p \in Nat /\ r \in Nat /\ q = p + r
  BY <1>3, SMT
<1>. HIDE DEF p, r
<1>5. q = r + p
  BY <1>4
<1>6. q = (q % b) + b * (q \div b)
  BY <1>5 DEF p, r
<1>7. q \div b = v \div (b * weight)
  BY QuotientOfQuotient DEF q
<1>. QED
  BY <1>6, <1>7 DEF q
-----------------------------------------------------------------------------
(***************************************************************************)
(* Induction up to a number, for a set of numbers: the theorem of the      *)
(* library is about operators, which the provers cannot instantiate.  If   *)
(* the set ended before n, adding 1 would map it into less than itself.    *)
(***************************************************************************)
LEMMA SetInduction ==
  ASSUME NEW T, NEW n \in Nat, 0 \in T, \A k \in 0 .. n - 1 : k \in T => k + 1 \in T
  PROVE  n \in T
<1>. SUFFICES ASSUME n \notin T PROVE FALSE
  OBVIOUS
<1>. DEFINE S == T \cap (0 .. n)
            U == S \ {0}
            next == [k \in S |-> k + 1]
<1>1. IsFiniteSet(S)
  <2>1. S \in SUBSET Nat /\ \A s \in S : s <= n
    OBVIOUS
  <2>. QED
    BY <2>1, FS_BoundedSetOfNaturals
<1>2. IsFiniteSet(U) /\ Cardinality(U) = Cardinality(S) - 1
  <2>1. 0 \in S
    OBVIOUS
  <2>. HIDE DEF S
  <2>. QED
    BY <1>1, <2>1, FS_RemoveElement
<1>3. next \in [S -> U]
  <2>1. ASSUME NEW k \in S PROVE k + 1 \in U
    <3>1. k \in 0 .. n /\ k \in T /\ k # n
      OBVIOUS
    <3>2. k \in 0 .. n - 1
      BY <3>1
    <3>. QED
      BY <3>1, <3>2
  <2>. QED
    BY <2>1
<1>4. Cardinality(U) < Cardinality(S)
  BY <1>1, <1>2, FS_CardinalityType
<1>5. PICK x \in S, y \in S : x # y /\ next[x] = next[y]
  <2>. HIDE DEF S, U, next
  <2>. QED
    BY <1>1, <1>2, <1>3, <1>4, FS_PigeonHole
<1>. QED
  BY <1>5

=============================================================================

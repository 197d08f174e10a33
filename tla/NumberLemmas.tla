---------------------------- MODULE NumberLemmas ----------------------------
(***************************************************************************)
(* Numbers: least elements, and the rounding of byte counts to whole       *)
(* sectors.                                                                *)
(***************************************************************************)
EXTENDS Naturals, FiniteSetTheorems, TLAPS

(* A non-empty set of naturals has a least element: among the intervals    *)
(* below its elements, ordered by inclusion, there is a minimal one.       *)
LEMMA LeastElement ==
    ASSUME NEW S \in SUBSET Nat, S # {}
    PROVE  \E m \in S : \A n \in S : m <= n
<1> DEFINE Below(n) == 0 .. n - 1
           T == {Below(n) : n \in S}
           R == StrictSubsetOrdering(Nat)
<1>1. IsWellFoundedOn(R, FiniteSubsetsOf(Nat))
  BY FS_StrictSubsetOrderingWellFounded
<1>2. T # {}
  OBVIOUS
<1>3. T \subseteq FiniteSubsetsOf(Nat)
  <2>1. \A n \in S : IsFiniteSet(Below(n)) /\ Below(n) \subseteq Nat
    BY FS_Interval
  <2>2. QED
    BY <2>1 DEF FiniteSubsetsOf
<1>4. PICK x \in T : \A y \in T : <<y, x>> \notin R
  <2> HIDE DEF T, R
  <2> QED
    BY <1>1, <1>2, <1>3, WFMin
<1>5. PICK m \in S : x = Below(m)
  OBVIOUS
<1>6. ASSUME NEW n \in S, n < m PROVE FALSE
  <2>1. Below(n) \subseteq Below(m) /\ n \in Below(m) /\ n \notin Below(n)
    BY <1>6
  <2>2. Below(n) # Below(m)
    BY <2>1
  <2>3. Below(n) \in FiniteSubsetsOf(Nat) /\ x \in FiniteSubsetsOf(Nat)
    BY <1>3
  <2>4. <<Below(n), x>> \in R
    BY <2>1, <2>2, <2>3, <1>5 DEF StrictSubsetOrdering, FiniteSubsetsOf
  <2>5. QED
    BY <2>4, <1>4
<1>7. QED
  BY <1>6

(* Induction over a set of naturals rather than over a predicate, which     *)
(* the provers could not be given.                                         *)
LEMMA Induction ==
    ASSUME NEW T, 0 \in T, \A n \in Nat : n \in T => n + 1 \in T
    PROVE  \A n \in Nat : n \in T
<1> DEFINE Rest == Nat \ T
<1> SUFFICES ASSUME Rest # {} PROVE FALSE
  OBVIOUS
<1>1. PICK m \in Rest : \A n \in Rest : m <= n
  BY LeastElement
<1>2. m \in Nat /\ m \notin T /\ m # 0
  OBVIOUS
<1>3. m - 1 \in Nat /\ m - 1 \notin Rest /\ m - 1 + 1 = m
  BY <1>1, <1>2
<1>4. QED
  BY <1>2, <1>3

LEMMA Division ==
    ASSUME NEW a \in Nat, NEW b \in Nat \ {0}
    PROVE  /\ a \div b \in Nat
           /\ a % b \in 0 .. b - 1
           /\ a = (a \div b) * b + (a % b)
  OBVIOUS

LEMMA Products ==
    ASSUME NEW a \in Nat, NEW b \in Nat, NEW c \in Nat
    PROVE  /\ a * c \in Nat
           /\ (a + b) * c = a * c + b * c
           /\ (a - b) * c = a * c - b * c
           /\ a <= b => a * c <= b * c
<1>1. a * c \in Nat /\ (a + b) * c = a * c + b * c /\ (a - b) * c = a * c - b * c
  OBVIOUS
<1>2. a <= b => a * c <= b * c
  OBVIOUS
<1>3. QED
  BY <1>1, <1>2

(* x bytes, rounded up to whole units of b bytes: enough, and no more than *)
(* n units if n units were enough.                                         *)
LEMMA Rounding ==
    ASSUME NEW x \in Nat, NEW b \in Nat \ {0}
    PROVE  LET q == (x + b - 1) \div b
           IN  /\ q \in Nat
               /\ x <= q * b
               /\ \A n \in Nat : x <= n * b => q <= n
<1> DEFINE y == x + b - 1
           q == y \div b
<1>1. y \in Nat
  OBVIOUS
<1> HIDE DEF y
<1>2. q \in Nat /\ y = q * b + (y % b) /\ y % b \in 0 .. b - 1
  BY <1>1, Division
<1> HIDE DEF q
<1>3. q * b \in Nat
  BY <1>2, Products
<1>4. x <= q * b
  BY <1>2, <1>3 DEF y
<1>5. ASSUME NEW n \in Nat, x <= n * b, n + 1 <= q PROVE FALSE
  <2>1. (n + 1) * b <= q * b /\ (n + 1) * b = n * b + 1 * b /\ n * b \in Nat
    <3>1. n + 1 \in Nat /\ b \in Nat
      OBVIOUS
    <3>2. QED
      BY <1>2, <1>5, <3>1, Products
  <2>2. y < n * b + b
    BY <1>5, <2>1 DEF y
  <2>3. QED
    BY <1>2, <1>3, <2>1, <2>2
<1>6. \A n \in Nat : x <= n * b => q <= n
  BY <1>2, <1>5
<1>7. QED
  BY <1>2, <1>4, <1>6 DEF q, y

(* A quotient and its remainder, and a number below the divisor.           *)
LEMMA Quotient ==
    ASSUME NEW q \in Nat, NEW b \in Nat \ {0}, NEW r \in 0 .. b - 1
    PROVE  /\ (q * b + r) \div b = q
           /\ (q * b + r) % b = r
<1> DEFINE a == q * b + r
           p == a \div b
           s == a % b
<1>1. a \in Nat
  BY Products
<1> HIDE DEF a
<1>2. p \in Nat /\ s \in 0 .. b - 1 /\ a = p * b + s
  BY <1>1, Division
<1> HIDE DEF p, s
<1>3. /\ q * b \in Nat /\ p * b \in Nat
      /\ q + 1 <= p => (q + 1) * b <= p * b
      /\ p + 1 <= q => (p + 1) * b <= q * b
      /\ (q + 1) * b = q * b + 1 * b
      /\ (p + 1) * b = p * b + 1 * b
  BY <1>2, Products
<1>4. a = q * b + r
  BY DEF a
<1> DEFINE qb == q * b
           pb == p * b
<1>5. /\ qb \in Nat /\ pb \in Nat
      /\ q + 1 <= p => qb + b <= pb
      /\ p + 1 <= q => pb + b <= qb
      /\ a = qb + r /\ a = pb + s
  BY <1>2, <1>3, <1>4
<1> HIDE DEF qb, pb
<1>6. p = q
  BY <1>2, <1>5
<1>7. s = r
  BY <1>2, <1>5, <1>6 DEF qb, pb
<1>8. QED
  BY <1>6, <1>7 DEF a, p, s

LEMMA BelowDivisor ==
    ASSUME NEW b \in Nat \ {0}, NEW r \in 0 .. b - 1
    PROVE  r \div b = 0 /\ r % b = r
<1>1. 0 * b + r = r
  OBVIOUS
<1>2. QED
  BY <1>1, Quotient

=============================================================================

-------------------------- MODULE ConversionsProofs --------------------------
(***************************************************************************)
(* What the runs check of Conversions, for all widths that the assumption  *)
(* admits and for any numbers.                                             *)
(*                                                                         *)
(* The first half is arithmetic: powers of two, the exponent of a number,  *)
(* and rounding.  A number has b bits if it is a power of two times a      *)
(* number of no more than b bits (KeptIs, ShortKept), so that one of few   *)
(* bits has many (KeptLonger) and what is rounded has as many as it was    *)
(* rounded to (RoundKept).  The nudge of checkInteger is the hard case: it *)
(* is lost in the spacing of large numbers, where the tie falls to the     *)
(* even one, which is the number itself; below a power of two, where the   *)
(* spacing is half as large, this is so from -4 on, but not at -2 and -1.  *)
(*                                                                         *)
(* The invariant of the second half says that the slot holds what was      *)
(* pushed, or its text, and only numbers that a lua_Number holds.          *)
(***************************************************************************)
EXTENDS Conversions, FiniteSetTheorems, WellFoundedInduction, TLAPS

-----------------------------------------------------------------------------
(* Powers of two.                                                           *)

(* The natural numbers are well-ordered, which is induction for sets.       *)
LEMMA LeastOf ==
  ASSUME NEW S \in SUBSET Nat, NEW n \in S
  PROVE  \E m \in S : \A k \in S : m <= k
<1>1. IsWellFoundedOn(OpToRel(<, Nat), Nat)
  BY NatLessThanWellFounded
<1>2. PICK m \in S : \A k \in S : ~ (<<k, m>> \in OpToRel(<, Nat))
  BY <1>1, WFMin
<1>3. \A k \in S : ~(k < m)
  BY <1>2 DEF OpToRel
<1> QED BY <1>3

LEMMA AllNaturals ==
  ASSUME NEW S \in SUBSET Nat, 0 \in S, \A n \in S : n + 1 \in S
  PROVE  \A n \in Nat : n \in S
<1> SUFFICES ASSUME NEW n \in Nat, n \notin S PROVE FALSE
  OBVIOUS
<1>1. PICK m \in Nat \ S : \A k \in Nat \ S : m <= k
  BY LeastOf
<1>2. m # 0 /\ m - 1 \in Nat /\ (m - 1) + 1 = m /\ ~(m <= m - 1)
  BY <1>1
<1>3. m - 1 \in S
  BY <1>1, <1>2
<1> QED BY <1>1, <1>2, <1>3

(* A set has 2^n subsets.                                                   *)
LEMMA PowerCounts ==
  ASSUME NEW n \in Nat
  PROVE  IsFiniteSet(SUBSET (1..n)) /\ Cardinality(SUBSET (1..n)) = 2^n
<1>1. IsFiniteSet(1..n) /\ Cardinality(1..n) = n
  BY FS_Interval
<1> QED BY <1>1, FS_SUBSET

LEMMA PowerType == ASSUME NEW n \in Nat PROVE 2^n \in Nat \ {0}
<1>1. {} \in SUBSET (1..n)
  OBVIOUS
<1> QED BY <1>1, PowerCounts, FS_EmptySet, FS_CardinalityType

(* Half of the subsets hold a given element.                                *)
LEMMA SubsetsDouble ==
  ASSUME NEW S, NEW z, z \notin S, IsFiniteSet(S)
  PROVE  Cardinality(SUBSET (S \cup {z})) = 2 * Cardinality(SUBSET S)
<1> DEFINE A == SUBSET S
           B == (SUBSET (S \cup {z})) \ A
           f == [T \in A |-> T \cup {z}]
<1>1. IsFiniteSet(A) /\ IsFiniteSet(SUBSET (S \cup {z}))
  BY FS_SUBSET, FS_AddElement
<1>2. A \cup B = SUBSET (S \cup {z}) /\ A \cap B = {}
  <2>1. ASSUME NEW T \in A PROVE T \in SUBSET (S \cup {z})
    OBVIOUS
  <2> DEFINE C == SUBSET (S \cup {z})
  <2>2. B = C \ A
    OBVIOUS
  <2> HIDE DEF A, B, C
  <2>3. \A T \in A : T \in C
    BY <2>1 DEF C
  <2>4. A \cup B = C /\ A \cap B = {}
    BY <2>2, <2>3
  <2> QED BY <2>4 DEF C
<1>3. IsFiniteSet(B)
  BY <1>1, <1>2, FS_Subset
<1>4. ExistsBijection(A, B)
  <2>1. f \in [A -> B]
    <3>1. ASSUME NEW T \in A PROVE T \cup {z} \in B
      <4>1. T \cup {z} \in SUBSET (S \cup {z}) /\ z \in T \cup {z}
        OBVIOUS
      <4>2. T \cup {z} \notin A
        BY <4>1
      <4>3. B = (SUBSET (S \cup {z})) \ A
        OBVIOUS
      <4> HIDE DEF A, B
      <4> QED BY <4>1, <4>2, <4>3
    <3> HIDE DEF A, B
    <3> QED BY <3>1
  <2>2. ASSUME NEW T \in A, NEW U \in A, f[T] = f[U] PROVE T = U
    <3>1. T \cup {z} = U \cup {z} /\ z \notin T /\ z \notin U
      BY <2>2
    <3> QED BY <3>1
  <2>3. ASSUME NEW V \in B PROVE \E T \in A : f[T] = V
    <3>1. z \in V
      <4>1. V \subseteq S \cup {z} /\ ~(V \subseteq S)
        OBVIOUS
      <4>2. PICK y \in V : y \notin S
        BY <4>1
      <4> QED BY <4>1, <4>2
    <3>2. V \ {z} \in A /\ f[V \ {z}] = V
      BY <3>1
    <3> QED BY <3>2
  <2> HIDE DEF A, B, f
  <2>4. f \in Injection(A, B)
    BY <2>1, <2>2 DEF Injection, IsInjective
  <2>5. f \in Surjection(A, B)
    BY <2>1, <2>3 DEF Surjection
  <2> QED BY <2>4, <2>5 DEF ExistsBijection, Bijection
<1>5. Cardinality(B) = Cardinality(A)
  BY <1>1, <1>4, FS_Bijection
<1>6. Cardinality(A \cup B) = Cardinality(A) + Cardinality(B) - Cardinality(A \cap B)
  BY <1>1, <1>3, FS_Union
<1>7. Cardinality(A \cap B) = 0 /\ Cardinality(A) \in Nat
  BY <1>1, <1>2, FS_EmptySet, FS_CardinalityType
<1> HIDE DEF A, B
<1>8. Cardinality(A \cup B) = 2 * Cardinality(A)
  BY <1>5, <1>6, <1>7
<1> QED BY <1>2, <1>8 DEF A

LEMMA PowerNext == ASSUME NEW n \in Nat PROVE 2^(n + 1) = 2 * 2^n
<1>1. 1..(n + 1) = (1..n) \cup {n + 1} /\ n + 1 \notin 1..n /\ n + 1 \in Nat
  OBVIOUS
<1>2. IsFiniteSet(1..n)
  BY FS_Interval
<1>3. Cardinality(SUBSET (1..(n + 1))) = 2 * Cardinality(SUBSET (1..n))
  BY <1>1, <1>2, SubsetsDouble
<1> QED BY <1>1, <1>3, PowerCounts

LEMMA PowerOfNone == 2^0 = 1
OBVIOUS

LEMMA PowerSum == ASSUME NEW n \in Nat PROVE \A m \in Nat : 2^(n + m) = 2^n * 2^m
<1> DEFINE S == {m \in Nat : 2^(n + m) = 2^n * 2^m}
<1>1. 0 \in S
  BY PowerOfNone, PowerType
<1>2. ASSUME NEW m \in S PROVE m + 1 \in S
  <2>1. m \in Nat /\ n + m \in Nat /\ n + (m + 1) = (n + m) + 1 /\ 2^(n + m) = 2^n * 2^m
    OBVIOUS
  <2>2. 2^(n + (m + 1)) = 2 * (2^n * 2^m)
    BY <2>1, PowerNext
  <2>3. 2^(m + 1) = 2 * 2^m
    BY <2>1, PowerNext
  <2> DEFINE a == 2^n
             b == 2^m
  <2>4. a \in Nat /\ b \in Nat
    BY <2>1, PowerType
  <2> HIDE DEF a, b
  <2>5. 2 * (a * b) = a * (2 * b)
    BY <2>4
  <2> QED BY <2>1, <2>2, <2>3, <2>5 DEF a, b
<1> HIDE DEF S
<1>3. \A m \in Nat : m \in S
  <2>1. S \in SUBSET Nat
    BY DEF S
  <2> QED BY <1>1, <1>2, <2>1, AllNaturals
<1> QED BY <1>3 DEF S

LEMMA PowerGrows == ASSUME NEW n \in Nat, NEW m \in Nat, n <= m
  PROVE 2^n <= 2^m /\ m - n \in Nat /\ 2^m = 2^n * 2^(m - n)
<1>1. m - n \in Nat /\ n + (m - n) = m
  OBVIOUS
<1>2. 2^m = 2^n * 2^(m - n)
  BY <1>1, PowerSum
<1> DEFINE a == 2^n
           b == 2^(m - n)
<1>3. a \in Nat \ {0} /\ b \in Nat \ {0}
  BY <1>1, PowerType
<1> HIDE DEF a, b
<1>4. a <= a * b
  BY <1>3
<1> QED BY <1>1, <1>2, <1>4 DEF a, b

LEMMA PowerExceeds == \A n \in Nat : n < 2^n
<1> DEFINE S == {n \in Nat : n < 2^n}
<1>1. 0 \in S
  BY PowerOfNone
<1>2. ASSUME NEW m \in S PROVE m + 1 \in S
  <2>1. m \in Nat /\ m < 2^m /\ 2^m \in Nat
    BY PowerType
  <2> QED BY <2>1, PowerNext
<1> HIDE DEF S
<1>3. \A m \in Nat : m \in S
  <2>1. S \in SUBSET Nat
    BY DEF S
  <2> QED BY <1>1, <1>2, <2>1, AllNaturals
<1> QED BY <1>3 DEF S
-----------------------------------------------------------------------------
(* Division, spacing and rounding.                                          *)

LEMMA DivMod ==
  ASSUME NEW a \in Nat, NEW s \in Nat \ {0}
  PROVE  a \div s \in Nat /\ a % s \in 0..(s - 1) /\ a = (a \div s) * s + (a % s)
OBVIOUS

LEMMA DivOf ==
  ASSUME NEW s \in Nat \ {0}, NEW q \in Nat, NEW r \in 0..(s - 1)
  PROVE  (q * s + r) \div s = q /\ (q * s + r) % s = r
<1> DEFINE a == q * s + r
           p == a \div s
           t == a % s
<1>1. a \in Nat
  OBVIOUS
<1>2. p \in Nat /\ t \in 0..(s - 1) /\ a = p * s + t
  BY <1>1, DivMod
<1>3. p * s + t = q * s + r
  BY <1>2
<1> HIDE DEF a, p, t
<1>4. ASSUME p < q PROVE FALSE
  <2>1. (p + 1) * s <= q * s /\ (p + 1) * s = p * s + s
    BY <1>2, <1>4
  <2> QED BY <1>2, <1>3, <2>1
<1>5. ASSUME q < p PROVE FALSE
  <2>1. (q + 1) * s <= p * s /\ (q + 1) * s = q * s + s
    BY <1>2, <1>5
  <2> QED BY <1>2, <1>3, <2>1
<1>6. p = q
  BY <1>2, <1>4, <1>5
<1>7. t = r
  BY <1>2, <1>3, <1>6
<1> QED BY <1>6, <1>7 DEF a, p, t

LEMMA AbsType == ASSUME NEW x \in Int PROVE Abs(x) \in Nat /\ Abs(-x) = Abs(x) /\ x \in {Abs(x), -Abs(x)}
BY DEF Abs

(* k is the exponent of the numbers of b bits around x.                     *)
Exponent(x, b, k) == Abs(x) < 2^(k + b) /\ (k = 0 \/ Abs(x) >= 2^(k + b - 1))

LEMMA PowerOrder == ASSUME NEW n \in Nat, NEW m \in Nat PROVE 2^n < 2^m => n < m
<1>1. n < m \/ m <= n
  OBVIOUS
<1>2. 2^n \in Nat /\ 2^m \in Nat
  BY PowerType
<1>3. CASE m <= n
  BY <1>2, <1>3, PowerGrows
<1> QED BY <1>1, <1>3

LEMMA ExponentExists ==
  ASSUME NEW x \in Int, NEW b \in Nat \ {0}
  PROVE  \E k \in 0..Abs(x) : Exponent(x, b, k)
<1> DEFINE S == {k \in Nat : Abs(x) < 2^(k + b)}
           n == Abs(x)
<1>1. n \in Nat
  BY AbsType
<1>2. n \in S
  <2>1. n < 2^n /\ n + b \in Nat /\ 2^n <= 2^(n + b)
    BY <1>1, PowerExceeds, PowerGrows
  <2>2. 2^n \in Nat /\ 2^(n + b) \in Nat
    BY <1>1, <2>1, PowerType
  <2> HIDE DEF n
  <2>3. n < 2^(n + b)
    BY <1>1, <2>1, <2>2
  <2> QED BY <1>1, <2>3 DEF n
<1>3. PICK k \in S : \A i \in S : k <= i
  <2>1. S \in SUBSET Nat
    OBVIOUS
  <2> HIDE DEF S, n
  <2> QED BY <1>2, <2>1, LeastOf
<1>4. k \in Nat /\ n < 2^(k + b) /\ k <= n
  BY <1>2, <1>3
<1>5. k = 0 \/ n >= 2^(k + b - 1)
  <2> SUFFICES ASSUME k # 0, ~(n >= 2^(k + b - 1)) PROVE FALSE
    OBVIOUS
  <2>1. k - 1 \in Nat /\ (k - 1) + b = k + b - 1 /\ k + b - 1 \in Nat
    BY <1>4
  <2>2. 2^(k + b - 1) \in Nat
    BY <2>1, PowerType
  <2>3. n < 2^((k - 1) + b)
    <3> HIDE DEF n
    <3> QED BY <1>1, <2>1, <2>2
  <2>4. k - 1 \in S
    BY <2>1, <2>3
  <2>5. k <= k - 1
    BY <1>3, <2>4
  <2> QED BY <1>4, <2>5
<1>6. k \in 0..Abs(x)
  BY <1>1, <1>4
<1> HIDE DEF S
<1> QED BY <1>4, <1>5, <1>6 DEF Exponent

LEMMA ExponentUnique ==
  ASSUME NEW x \in Int, NEW b \in Nat \ {0}, NEW k \in Nat, NEW j \in Nat,
         Exponent(x, b, k), Exponent(x, b, j)
  PROVE  k = j
<1> DEFINE n == Abs(x)
<1>1. n \in Nat
  BY AbsType
<1> HIDE DEF n
<1>2. ASSUME NEW h \in Nat, NEW i \in Nat, n < 2^(h + b), i = 0 \/ n >= 2^(i + b - 1), h < i PROVE FALSE
  <2>1. h + b \in Nat /\ i + b - 1 \in Nat /\ h + b <= i + b - 1
    BY <1>2
  <2>2. 2^(h + b) <= 2^(i + b - 1) /\ 2^(h + b) \in Nat /\ 2^(i + b - 1) \in Nat
    BY <2>1, PowerGrows, PowerType
  <2>3. n >= 2^(i + b - 1)
    BY <1>2
  <2> QED BY <1>1, <1>2, <2>2, <2>3
<1>3. /\ n < 2^(k + b) /\ (k = 0 \/ n >= 2^(k + b - 1))
      /\ n < 2^(j + b) /\ (j = 0 \/ n >= 2^(j + b - 1))
  BY DEF Exponent, n
<1>4. ~(k < j) /\ ~(j < k)
  BY <1>2, <1>3
<1> QED BY <1>4

LEMMA SpacingIs ==
  ASSUME NEW x \in Int, NEW b \in Nat \ {0}, NEW k \in Nat, Exponent(x, b, k)
  PROVE  Spacing(x, b) = 2^k
<1> DEFINE c == CHOOSE i \in 0..Abs(x) : Exponent(x, b, i)
<1>1. c \in 0..Abs(x) /\ Exponent(x, b, c)
  BY ExponentExists
<1>2. Abs(x) \in Nat
  BY AbsType
<1>3. c \in Nat
  BY <1>1, <1>2
<1>4. c = k
  <2> HIDE DEF c
  <2> QED BY <1>1, <1>3, ExponentUnique
<1>5. Spacing(x, b) = 2^c
  BY DEF Spacing, Exponent
<1> QED BY <1>4, <1>5

(* Rounding, told from the quotient and the rest.                           *)
Nearest(q, r, s) == IF 2 * r > s \/ (2 * r = s /\ q % 2 = 1) THEN (q + 1) * s ELSE q * s

LEMMA RoundIs ==
  ASSUME NEW x \in Int, NEW b \in Nat \ {0}, NEW k \in Nat, Exponent(x, b, k),
         NEW q \in Nat, NEW r \in 0..(2^k - 1), Abs(x) = q * 2^k + r
  PROVE  Round(x, b) = IF x < 0 THEN -Nearest(q, r, 2^k) ELSE Nearest(q, r, 2^k)
<1> DEFINE s == 2^k
<1>1. s \in Nat \ {0} /\ Spacing(x, b) = s
  BY PowerType, SpacingIs
<1>2. r \in 0..(s - 1) /\ Abs(x) = q * s + r
  OBVIOUS
<1> HIDE DEF s
<1>3. Abs(x) \div s = q /\ Abs(x) % s = r
  <2>1. (q * s + r) \div s = q /\ (q * s + r) % s = r
    BY <1>1, <1>2, DivOf
  <2> QED BY <1>2, <2>1, Zenon
<1>4. Round(x, b) = IF x < 0 THEN -Nearest(q, r, s) ELSE Nearest(q, r, s)
  BY <1>1, <1>3 DEF Round, Nearest
<1> QED BY <1>4 DEF s
LEMMA PowerPositive == ASSUME NEW n \in Nat PROVE 2^n \in Nat /\ 2^n >= 1 /\ 0 \in 0..(2^n - 1)
BY PowerType

(* A number that is a multiple of its spacing is kept.                      *)
LEMMA MultipleKept ==
  ASSUME NEW x \in Int, NEW b \in Nat \ {0}, NEW k \in Nat, Exponent(x, b, k),
         NEW q \in Nat, Abs(x) = q * 2^k
  PROVE  Keeps(x, b)
<1> DEFINE s == 2^k
<1>1. s \in Nat /\ s >= 1 /\ 0 \in 0..(s - 1)
  BY PowerPositive
<1>2. Abs(x) = q * s + 0 /\ Nearest(q, 0, s) = q * s
  <2>1. q * s \in Nat
    BY <1>1
  <2> HIDE DEF s
  <2> QED BY <1>1, <2>1 DEF Nearest, s
<1>3. Round(x, b) = IF x < 0 THEN -Nearest(q, 0, s) ELSE Nearest(q, 0, s)
  BY <1>1, <1>2, RoundIs
<1>4. Nearest(q, 0, s) = Abs(x)
  BY <1>2
<1> HIDE DEF s
<1> QED BY <1>3, <1>4 DEF Keeps, Abs

(* A number is kept if it is a product of a power of two and of a number    *)
(* of b bits or 2^b.                                                        *)
LEMMA ShortKept ==
  ASSUME NEW x \in Int, NEW b \in Nat \ {0}, NEW m \in Nat, NEW j \in Nat,
         m <= 2^b, Abs(x) = m * 2^j
  PROVE  Keeps(x, b)
<1> DEFINE n == Abs(x)
<1>1. PICK k \in Nat : Exponent(x, b, k)
  <2>1. Abs(x) \in Nat
    BY AbsType
  <2> QED BY <2>1, ExponentExists
<1>2. \E q \in Nat : Abs(x) = q * 2^k
  <2>1. CASE k <= j
    <3> DEFINE s == 2^k
               d == 2^(j - k)
    <3>1. 2^j = s * d /\ j - k \in Nat
      BY <2>1, PowerGrows
    <3>2. s \in Nat /\ d \in Nat
      BY <3>1, PowerType
    <3>3. Abs(x) = m * (s * d)
      BY <3>1
    <3> HIDE DEF s, d
    <3>4. m * (s * d) = (m * d) * s /\ m * d \in Nat
      BY <3>2
    <3> QED BY <3>3, <3>4 DEF s
  <2>2. CASE j < k
    <3> DEFINE p == 2^(k + b - 1)
               c == 2^(b - 1)
               s == 2^k
               a == 2^j
               e == 2^b
    <3>1. k + b - 1 \in Nat /\ b - 1 \in Nat /\ k + (b - 1) = k + b - 1 /\ j + b \in Nat /\ j + b <= k + b - 1
      BY <2>2
    <3>2. p = s * c /\ 2^(j + b) = a * e /\ 2^(j + b) <= p
      BY <3>1, PowerSum, PowerGrows
    <3>3. p \in Nat /\ c \in Nat /\ s \in Nat /\ a \in Nat /\ e \in Nat /\ 2^(j + b) \in Nat
      BY <3>1, PowerType
    <3>4. n >= p /\ n = m * a /\ m <= e
      <4>1. k # 0
        BY <2>2
      <4> QED BY <1>1, <4>1 DEF Exponent
    <3> HIDE DEF n, p, c, s, a, e
    <3>5. m * a <= a * e
      BY <3>3, <3>4
    <3>6. n = p
      BY <3>2, <3>3, <3>4, <3>5
    <3>7. n = c * s
      BY <3>2, <3>3, <3>6
    <3> QED BY <3>3, <3>7 DEF n, s
  <2> QED BY <2>1, <2>2
<1> QED BY <1>1, <1>2, MultipleKept

(* What a kept number looks like.                                           *)
LEMMA KeptIs ==
  ASSUME NEW x \in Int, NEW b \in Nat \ {0}, Keeps(x, b)
  PROVE  \E k \in Nat, m \in Nat : Exponent(x, b, k) /\ m < 2^b /\ Abs(x) = m * 2^k
<1>1. PICK k \in Nat : Exponent(x, b, k)
  <2>1. Abs(x) \in Nat
    BY AbsType
  <2> QED BY <2>1, ExponentExists
<1> DEFINE n == Abs(x)
           s == 2^k
           q == n \div s
           r == n % s
           c == 2^b
<1>2. n \in Nat /\ s \in Nat \ {0} /\ c \in Nat \ {0}
  BY AbsType, PowerType
<1>3. q \in Nat /\ r \in 0..(s - 1) /\ n = q * s + r
  <2> HIDE DEF n, s
  <2> QED BY <1>2, DivMod
<1>4. Round(x, b) = IF x < 0 THEN -Nearest(q, r, s) ELSE Nearest(q, r, s)
  <2> HIDE DEF q, r
  <2> QED BY <1>1, <1>3, RoundIs
<1>5. n < s * c
  BY <1>1, PowerSum DEF Exponent
<1>6. Nearest(q, r, s) = n
  <2>1. Nearest(q, r, s) \in Int
    <3> HIDE DEF n, s, q, r
    <3>1. q * s \in Int /\ (q + 1) * s \in Int
      BY <1>2, <1>3
    <3> QED BY <3>1 DEF Nearest
  <2>2. Round(x, b) = x
    BY DEF Keeps
  <2>3. n = IF x < 0 THEN -x ELSE x
    BY DEF Abs
  <2> HIDE DEF n, s, q, r
  <2> QED BY <1>4, <2>1, <2>2, <2>3
<1> HIDE DEF n, s, q, r, c
<1>7. r = 0
  <2>1. (q + 1) * s = q * s + s /\ q * s \in Nat
    BY <1>2, <1>3
  <2> QED BY <1>2, <1>3, <1>6, <2>1 DEF Nearest
<1>8. n = q * s
  BY <1>2, <1>3, <1>7
<1>9. q < c
  <2> SUFFICES ASSUME c <= q PROVE FALSE
    BY <1>2, <1>3
  <2>1. c * s <= q * s /\ c * s = s * c
    BY <1>2, <1>3
  <2> QED BY <1>2, <1>3, <1>5, <1>8, <2>1
<1> QED BY <1>1, <1>3, <1>8, <1>9 DEF n, s, c

LEMMA KeptLonger ==
  ASSUME NEW x \in Int, NEW b \in Nat \ {0}, NEW c \in Nat, b <= c, Keeps(x, b)
  PROVE  Keeps(x, c)
<1>1. PICK k \in Nat, m \in Nat : m < 2^b /\ Abs(x) = m * 2^k
  BY KeptIs
<1>2. 2^b <= 2^c /\ 2^b \in Nat /\ 2^c \in Nat /\ c \in Nat \ {0}
  BY PowerGrows, PowerType
<1>3. m <= 2^c
  BY <1>1, <1>2
<1> QED BY <1>1, <1>2, <1>3, ShortKept

(* What is rounded to b bits has b bits.                                    *)
LEMMA RoundKept ==
  ASSUME NEW x \in Int, NEW b \in Nat \ {0}
  PROVE  Round(x, b) \in Int /\ Keeps(Round(x, b), b)
<1>1. PICK k \in Nat : Exponent(x, b, k)
  <2>1. Abs(x) \in Nat
    BY AbsType
  <2> QED BY <2>1, ExponentExists
<1> DEFINE n == Abs(x)
           s == 2^k
           q == n \div s
           r == n % s
           c == 2^b
<1>2. n \in Nat /\ s \in Nat \ {0} /\ c \in Nat \ {0}
  BY AbsType, PowerType
<1>3. q \in Nat /\ r \in 0..(s - 1) /\ n = q * s + r
  <2> HIDE DEF n, s
  <2> QED BY <1>2, DivMod
<1>4. Round(x, b) = IF x < 0 THEN -Nearest(q, r, s) ELSE Nearest(q, r, s)
  <2> HIDE DEF q, r
  <2> QED BY <1>1, <1>3, RoundIs
<1>5. n < s * c
  BY <1>1, PowerSum DEF Exponent
<1>6. q < c
  <2> HIDE DEF n, s, q, r, c
  <2> SUFFICES ASSUME c <= q PROVE FALSE
    BY <1>2, <1>3
  <2>1. c * s <= q * s /\ c * s = s * c
    BY <1>2, <1>3
  <2> QED BY <1>2, <1>3, <1>5, <2>1
<1>7. PICK m \in Nat : m <= c /\ Nearest(q, r, s) = m * s
  <2> HIDE DEF n, s, q, r, c
  <2>1. q <= c /\ q + 1 <= c /\ q + 1 \in Nat
    BY <1>2, <1>3, <1>6
  <2>2. Nearest(q, r, s) = (q + 1) * s \/ Nearest(q, r, s) = q * s
    BY DEF Nearest
  <2> QED BY <1>3, <2>1, <2>2
<1>8. Nearest(q, r, s) \in Nat
  <2> HIDE DEF n, s, q, r, c
  <2> QED BY <1>2, <1>7
<1> HIDE DEF n, q, r
<1>9. Round(x, b) \in Int /\ Abs(Round(x, b)) = Nearest(q, r, s)
  BY <1>4, <1>8 DEF Abs
<1>10. Abs(Round(x, b)) = m * 2^k
  BY <1>7, <1>9
<1> QED BY <1>7, <1>9, <1>10, ShortKept
-----------------------------------------------------------------------------
(* The nudge of checkInteger.                                               *)

LEMMA Widths ==
  /\ Mantissa \in Nat \ {0} /\ Mantissa >= 3 /\ FloatBits \in Nat \ {0} /\ TextBits \in Nat \ {0}
  /\ FloatBits <= Mantissa /\ TextBits <= Mantissa
  /\ Fraction + 1 - Mantissa \in Nat /\ Fraction \in Nat
  /\ IntBits \in Nat \ {0} /\ ShortBits \in Nat \ {0} /\ LongBits \in Nat \ {0}
  /\ ShortBits <= IntBits /\ IntBits <= LongBits
BY ConversionAssumption

(* A unit is a number of epsilons, and this is a multiple of four.          *)
LEMMA Units ==
  /\ One \in Nat /\ epsilon \in Nat /\ epsilon >= 1 /\ epsilon < One
  /\ One = 2^(Mantissa - 1) * epsilon
  /\ \E f \in Nat \ {0} : 2^(Mantissa - 1) = 4 * f /\ 2^Mantissa = 8 * f
<1> DEFINE e == epsilon
           h == 2^(Mantissa - 1)
           f == 2^(Mantissa - 3)
<1>1. Mantissa - 1 \in Nat /\ Mantissa - 2 \in Nat /\ Mantissa - 3 \in Nat /\ Fraction + 1 - Mantissa \in Nat
  BY Widths
<1>2. /\ (Mantissa - 3) + 1 = Mantissa - 2 /\ (Mantissa - 2) + 1 = Mantissa - 1
      /\ (Mantissa - 1) + 1 = Mantissa /\ (Mantissa - 1) + (Fraction + 1 - Mantissa) = Fraction
  BY Widths
<1>3. 2^(Mantissa - 2) = 2 * f /\ h = 2 * 2^(Mantissa - 2) /\ 2^Mantissa = 2 * h
  BY <1>1, <1>2, PowerNext
<1>4. One = h * e
  BY <1>1, <1>2, PowerSum DEF One, epsilon
<1>5. f \in Nat \ {0} /\ h \in Nat /\ e \in Nat \ {0}
  BY <1>1, PowerType DEF epsilon
<1>6. h = 4 * f /\ 2^Mantissa = 8 * f
  <2> HIDE DEF h, f
  <2> QED BY <1>3, <1>5
<1> HIDE DEF e, h, f
<1>7. h * e \in Nat /\ e < h * e
  BY <1>5, <1>6
<1> QED BY <1>4, <1>5, <1>6, <1>7 DEF e, h, f

LEMMA Toward0Whole ==
  ASSUME NEW k \in Int
  PROVE  Toward0(k * One) = k /\ k * One \in Int /\ Abs(k * One) = Abs(k) * One
<1> DEFINE u == One
<1>1. u \in Nat /\ u >= 1
  BY Units
<1> HIDE DEF u
<1>2. ASSUME NEW i \in Nat PROVE (i * u) \div u = i /\ i * u \in Nat /\ -(i * u) = (-i) * u
  <2>1. 0 \in 0..(u - 1) /\ i * u + 0 = i * u
    BY <1>1
  <2> QED BY <1>1, <2>1, DivOf
<1>3. CASE k >= 0
  <2>1. k \in Nat /\ Abs(k) = k /\ ~(k * u < 0)
    BY <1>2, <1>3 DEF Abs
  <2> QED BY <1>2, <2>1 DEF Toward0, Abs, u
<1>4. CASE k < 0
  <2>1. -k \in Nat /\ Abs(k) = -k /\ k * u = -((-k) * u) /\ (-k) * u > 0
    BY <1>1, <1>4 DEF Abs
  <2>2. k * u < 0 /\ Abs(k * u) = (-k) * u /\ k * u \in Int
    BY <1>1, <2>1 DEF Abs
  <2>3. Abs(k * u) \div u = -k
    BY <1>2, <2>1, <2>2
  <2>4. Toward0(k * u) = -(-k)
    BY <2>2, <2>3 DEF Toward0, u
  <2>5. -(-k) = k
    OBVIOUS
  <2> QED BY <2>1, <2>2, <2>4, <2>5 DEF u
<1> QED BY <1>3, <1>4

(* Just above a multiple of the spacing.                                    *)
LEMMA RoundAbove ==
  ASSUME NEW n \in Nat, NEW k \in Nat, NEW m \in Nat, NEW e \in Nat \ {0},
         Exponent(n, Mantissa, k), n = m * 2^k, m < 2^Mantissa,
         2 * e < 2^k \/ (2 * e = 2^k /\ m % 2 = 0)
  PROVE  Round(n + e, Mantissa) = n
<1> DEFINE s == 2^k
           c == 2^Mantissa
           y == n + e
<1>1. s \in Nat /\ c \in Nat /\ 2^(k + Mantissa) = s * c /\ Mantissa \in Nat \ {0}
  BY Widths, PowerType, PowerSum
<1>2. Abs(n) = n /\ Abs(y) = y /\ y \in Int /\ ~(y < 0)
  BY DEF Abs
<1>3. n < s * c /\ (k = 0 \/ n >= 2^(k + Mantissa - 1))
  BY <1>1, <1>2 DEF Exponent
<1>4. 2 * e <= s /\ m < c /\ n = m * s
  BY <1>1
<1>5. y < s * c
  <2> HIDE DEF s, c
  <2>1. (m + 1) * s <= c * s /\ (m + 1) * s = m * s + s /\ c * s = s * c
    BY <1>1, <1>4
  <2> QED BY <1>1, <1>4, <2>1
<1>6. Exponent(y, Mantissa, k)
  <2>1. k # 0 => 2^(k + Mantissa - 1) \in Nat
    <3>1. k + Mantissa - 1 \in Nat
      BY <1>1
    <3> QED BY <3>1, PowerType
  <2>2. k = 0 \/ y >= 2^(k + Mantissa - 1)
    BY <1>3, <2>1
  <2> HIDE DEF y
  <2> QED BY <1>1, <1>2, <1>5, <2>2 DEF Exponent
<1>7. e \in 0..(s - 1)
  BY <1>1, <1>4
<1>8. Round(y, Mantissa) = IF y < 0 THEN -Nearest(m, e, s) ELSE Nearest(m, e, s)
  <2> HIDE DEF y
  <2>1. Abs(y) = m * s + e
    BY <1>2, <1>4 DEF y
  <2> QED BY <1>1, <1>2, <1>6, <1>7, <2>1, RoundIs
<1>9. Nearest(m, e, s) = n
  <2> HIDE DEF s
  <2> QED BY <1>1, <1>4 DEF Nearest, s
<1> QED BY <1>2, <1>8, <1>9

(* Just below it, towards zero from a negative one.                         *)
LEMMA RoundBelow ==
  ASSUME NEW n \in Nat, NEW k \in Nat, NEW m \in Nat \ {0}, NEW e \in Nat \ {0},
         n = m * 2^k, n > e, Exponent(n - e, Mantissa, k),
         2 * e < 2^k \/ (2 * e = 2^k /\ m % 2 = 0)
  PROVE  Round(-n + e, Mantissa) = -n
<1> DEFINE s == 2^k
           y == -n + e
           q == m - 1
           r == s - e
<1>1. s \in Nat /\ Mantissa \in Nat \ {0}
  BY Widths, PowerType
<1>2. Abs(n - e) = n - e /\ Abs(y) = n - e /\ y \in Int /\ y < 0
  BY DEF Abs
<1>3. Exponent(y, Mantissa, k)
  BY <1>2 DEF Exponent
<1>4. q \in Nat /\ r \in 0..(s - 1) /\ n = m * s /\ 2 * e <= s
  BY <1>1
<1>5. n - e = q * s + r
  <2> HIDE DEF s
  <2>1. (m - 1) * s = m * s - s
    BY <1>1
  <2> QED BY <1>1, <1>4, <2>1
<1>6. Round(y, Mantissa) = IF y < 0 THEN -Nearest(q, r, s) ELSE Nearest(q, r, s)
  <2>1. Abs(y) = q * s + r
    BY <1>2, <1>5
  <2> HIDE DEF y, q, r
  <2> QED BY <1>1, <1>2, <1>3, <1>4, <2>1, RoundIs
<1>7. Nearest(q, r, s) = n
  <2>1. 2 * r > s \/ (2 * r = s /\ q % 2 = 1)
    <3> HIDE DEF s
    <3> QED BY <1>1, <1>4 DEF s
  <2>2. (q + 1) * s = n
    <3> HIDE DEF s
    <3> QED BY <1>1, <1>4
  <2> HIDE DEF q, r, s
  <2> QED BY <2>1, <2>2 DEF Nearest
<1> QED BY <1>2, <1>6, <1>7
(* Of a number that is no less than two units, the spacing is twice epsilon *)
(* or at least four times, and it is an even multiple where it is twice.    *)
LEMMA Large ==
  ASSUME NEW a \in Nat, a >= 2, Keeps(a * One, Mantissa)
  PROVE  \E k \in Nat \ {0}, m \in Nat \ {0}, d \in Nat :
           /\ Exponent(a * One, Mantissa, k) /\ a * One = m * 2^k /\ m < 2^Mantissa
           /\ 2^k = d * epsilon
           /\ d >= 4 \/ (d = 2 /\ m % 2 = 0)
<1> DEFINE n == a * One
           e == epsilon
           E == Fraction + 1 - Mantissa
           c == 2^Mantissa
           h == 2^(Mantissa - 1)
<1>1. n \in Int /\ Abs(n) = n /\ Keeps(n, Mantissa) /\ Mantissa \in Nat \ {0} /\ E \in Nat /\ e = 2^E
  <2>1. n \in Nat
    BY Units
  <2> QED BY <2>1, Widths DEF Abs, epsilon
<1>2. PICK k \in Nat, m \in Nat : Exponent(n, Mantissa, k) /\ m < c /\ n = m * 2^k
  <2>1. n \in Int /\ Mantissa \in Nat \ {0} /\ Keeps(n, Mantissa)
    BY <1>1
  <2> HIDE DEF n
  <2>2. \E k \in Nat, m \in Nat : Exponent(n, Mantissa, k) /\ m < 2^Mantissa /\ Abs(n) = m * 2^k
    BY <2>1, KeptIs, Zenon
  <2> QED BY <1>1, <2>2
<1>3. PICK f \in Nat \ {0} : h = 4 * f /\ c = 8 * f
  BY Units
<1>4. e \in Nat /\ e >= 1 /\ One = h * e
  BY Units
<1> DEFINE s == 2^k
<1>5. s \in Nat /\ n < s * c
  BY <1>1, <1>2, PowerSum, PowerType DEF Exponent
<1>6. n = a * (4 * f * e)
  BY <1>3, <1>4
<1>7. e < s
  <2> HIDE DEF n, s, c, e
  <2>1. 4 * f * e \in Nat /\ 2 * (4 * f * e) = 8 * f * e
    BY <1>4
  <2>2. a * (4 * f * e) >= 2 * (4 * f * e)
    BY <2>1
  <2>3. 8 * f * e < s * (8 * f)
    BY <1>3, <1>4, <1>5, <1>6, <2>1, <2>2
  <2>4. ASSUME s <= e PROVE FALSE
    <3>1. s * (8 * f) <= e * (8 * f) /\ e * (8 * f) = 8 * f * e
      BY <1>4, <1>5, <2>4
    <3> QED BY <1>4, <1>5, <2>1, <2>3, <3>1
  <2> QED BY <1>4, <1>5, <2>4
<1>8. E < k
  <2>1. 2^E < 2^k
    BY <1>1, <1>7
  <2> HIDE DEF E
  <2> QED BY <1>1, <2>1, PowerOrder
<1> DEFINE d == 2^(k - E)
<1>9. s = e * d /\ d \in Nat /\ k - E \in Nat \ {0} /\ k # 0
  <2> HIDE DEF E
  <2>1. k - E \in Nat \ {0} /\ k # 0 /\ E <= k
    BY <1>1, <1>8
  <2>2. 2^k = 2^E * 2^(k - E)
    BY <1>1, <2>1, PowerGrows
  <2>3. 2^(k - E) \in Nat
    BY <2>1, PowerType
  <2> QED BY <1>1, <2>1, <2>2, <2>3
<1>10. d >= 4 \/ d = 2
  <2> DEFINE i == k - E
  <2>1. i - 1 \in Nat /\ (i - 1) + 1 = i /\ d = 2^i
    BY <1>9
  <2>2. d = 2 * 2^(i - 1) /\ 2^(i - 1) \in Nat \ {0}
    <3> HIDE DEF i
    <3> QED BY <2>1, PowerNext, PowerType
  <2> DEFINE p == 2^(i - 1)
  <2> HIDE DEF d, i, p
  <2>3. d = 2 * p /\ p \in Nat \ {0}
    BY <2>2 DEF p
  <2> QED BY <2>3
<1>11. d = 2 => m % 2 = 0
  <2> SUFFICES ASSUME d = 2 PROVE m % 2 = 0
    OBVIOUS
  <2>1. n = m * (e * 2)
    BY <1>2, <1>9
  <2> HIDE DEF n, d, s, e
  <2>2. (2 * m) * e = (4 * (a * f)) * e
    <3>1. m * (e * 2) = (2 * m) * e /\ a * (4 * f * e) = (4 * (a * f)) * e
      BY <1>4
    <3> QED BY <1>6, <2>1, <3>1
  <2> DEFINE x == 2 * m
             z == 4 * (a * f)
  <2>3. x \in Nat /\ z \in Nat /\ x * e = z * e
    BY <2>2
  <2> HIDE DEF x, z
  <2>4. x = z
    <3>1. ~(x < z) /\ ~(z < x)
      BY <1>4, <2>3
    <3> QED BY <2>3, <3>1
  <2>5. a * f \in Nat
    OBVIOUS
  <2>6. m = 2 * (a * f)
    BY <2>4, <2>5 DEF x, z
  <2> QED BY <2>5, <2>6
<1>12. m # 0
  <2>1. n > 0
    <3> HIDE DEF n, e
    <3>1. f * e > 0 /\ f * e \in Nat /\ a * (4 * f * e) = 4 * (a * (f * e))
      BY <1>4
    <3>2. a * (f * e) > 0
      BY <3>1
    <3> QED BY <1>6, <3>1, <3>2
  <2>2. m = 0 => m * 2^k = 0
    BY <1>5
  <2> HIDE DEF n
  <2> QED BY <1>2, <2>1, <2>2
<1>13. s = d * e
  <2> HIDE DEF d, s, e
  <2> QED BY <1>4, <1>9
<1> HIDE DEF d
<1> QED BY <1>2, <1>9, <1>10, <1>11, <1>12, <1>13

(* Nudged and cut, a whole number is itself, but for -1 and -2.             *)
LEMMA Nudge ==
  ASSUME NEW a \in Int, a \notin {-1, -2}, Keeps(a * One, Mantissa)
  PROVE  Toward0(Round(a * One + epsilon, Mantissa)) = a
<1> DEFINE e == epsilon
           E == Fraction + 1 - Mantissa
           h == 2^(Mantissa - 1)
<1>1. Mantissa \in Nat \ {0} /\ E \in Nat /\ e = 2^E
  BY Widths DEF epsilon
<1>2. e \in Nat /\ e >= 1 /\ e < One /\ One \in Nat /\ One = h * e
  BY Units
<1>3. PICK f \in Nat \ {0} : h = 4 * f /\ 2^Mantissa = 8 * f
  BY Units
<1>4. CASE a = 0
  <2>1. 0 * One + e = e /\ Abs(e) = 1 * 2^E /\ 1 <= 2^Mantissa
    BY <1>1, <1>2, <1>3 DEF Abs
  <2>2. Keeps(e, Mantissa)
    <3> DEFINE w == 1
    <3>1. w \in Nat /\ w <= 2^Mantissa /\ Abs(e) = w * 2^E
      BY <2>1
    <3>2. e \in Int /\ E \in Nat /\ Mantissa \in Nat \ {0}
      BY <1>1, <1>2
    <3> HIDE DEF e, E, w
    <3> QED BY <3>1, <3>2, ShortKept, Zenon
  <2>3. e \div One = 0
    <3> DEFINE u == One
    <3>1. u \in Nat \ {0} /\ e \in 0..(u - 1) /\ 0 * u + e = e
      BY <1>2
    <3> HIDE DEF e, u
    <3>2. e \div u = 0
      BY <3>1, DivOf
    <3> QED BY <3>2 DEF u
  <2> HIDE DEF e
  <2> QED BY <1>2, <1>4, <2>1, <2>2, <2>3 DEF Keeps, Toward0, e
<1>5. CASE a = 1
  <2> DEFINE y == One + e
  <2>1. 1 * One + e = y /\ Abs(y) = y /\ y \in Int /\ ~(y < 0)
    BY <1>2 DEF Abs
  <2>2. y = (h + 1) * 2^E /\ h + 1 <= 2^Mantissa /\ h + 1 \in Nat
    <3>1. y = h * e + e
      BY <1>2
    <3> HIDE DEF e, h, y
    <3>2. h * e + e = (h + 1) * e
      BY <1>2, <1>3
    <3> QED BY <1>1, <1>3, <3>1, <3>2
  <2>3. Keeps(y, Mantissa)
    <3> HIDE DEF y, h
    <3> QED BY <1>1, <2>1, <2>2, ShortKept
  <2>4. y \div One = 1
    <3> DEFINE u == One
    <3>1. u \in Nat \ {0} /\ e \in 0..(u - 1) /\ 1 * u + e = y
      BY <1>2
    <3> HIDE DEF e, u, y
    <3>2. (1 * u + e) \div u = 1
      BY <3>1, DivOf
    <3> QED BY <3>1, <3>2 DEF u
  <2>5. a * One + epsilon = y
    BY <1>5, <2>1
  <2> HIDE DEF y
  <2> QED BY <1>5, <2>1, <2>3, <2>4, <2>5 DEF Keeps, Toward0
<1>6. CASE a >= 2
  <2> DEFINE n == a * One
  <2>1. a \in Nat /\ n \in Nat
    BY <1>2, <1>6
  <2>2. PICK k \in Nat \ {0}, m \in Nat \ {0}, d \in Nat :
          /\ Exponent(n, Mantissa, k) /\ n = m * 2^k /\ m < 2^Mantissa
          /\ 2^k = d * e
          /\ d >= 4 \/ (d = 2 /\ m % 2 = 0)
    BY <1>6, <2>1, Large
  <2>3. 2 * e < 2^k \/ (2 * e = 2^k /\ m % 2 = 0)
    <3> HIDE DEF e
    <3>1. d >= 4 => d * e >= 4 * e
      BY <1>2
    <3> QED BY <1>2, <2>2, <3>1
  <2>4. Round(n + e, Mantissa) = n
    <3> HIDE DEF n, e
    <3>1. e \in Nat \ {0} /\ k \in Nat /\ m \in Nat
      BY <1>2
    <3> QED BY <2>1, <2>2, <2>3, <3>1, RoundAbove, Zenon
  <2> QED BY <2>4, Toward0Whole
<1>7. CASE a <= -3
  <2> DEFINE b == -a
             n == b * One
  <2>1. b \in Nat /\ b >= 3 /\ n \in Nat /\ a * One = -n
    <3>1. b \in Nat /\ b >= 3 /\ a = -b
      BY <1>7
    <3> HIDE DEF b
    <3> QED BY <1>2, <3>1
  <2>2. Keeps(n, Mantissa)
    <3>1. Keeps(-n, Mantissa)
      BY <2>1
    <3> HIDE DEF n
    <3>2. PICK k \in Nat, m \in Nat : m < 2^Mantissa /\ Abs(-n) = m * 2^k
      BY <1>1, <2>1, <3>1, KeptIs
    <3>3. Abs(n) = m * 2^k /\ m <= 2^Mantissa
      BY <1>3, <2>1, <3>2 DEF Abs
    <3> QED BY <1>1, <2>1, <3>3, ShortKept
  <2>3. PICK k \in Nat \ {0}, m \in Nat \ {0}, d \in Nat :
          /\ Exponent(n, Mantissa, k) /\ n = m * 2^k /\ m < 2^Mantissa
          /\ 2^k = d * e
          /\ d >= 4 \/ (d = 2 /\ m % 2 = 0)
    <3> HIDE DEF b
    <3> QED BY <2>1, <2>2, Large
  <2> DEFINE s == 2^k
             p == 2^(k + Mantissa - 1)
  <2>4. /\ p = s * h /\ 2^(k + Mantissa) = s * (8 * f)
        /\ s \in Nat /\ p \in Nat
    <3>1. k + Mantissa - 1 \in Nat /\ Mantissa - 1 \in Nat /\ k + (Mantissa - 1) = k + Mantissa - 1
      BY <1>1
    <3>2. 2^(k + (Mantissa - 1)) = 2^k * 2^(Mantissa - 1) /\ 2^(k + Mantissa) = 2^k * 2^Mantissa
      BY <1>1, <3>1, PowerSum
    <3> QED BY <1>3, <3>1, <3>2, PowerType
  <2>5. n < s * (8 * f) /\ n >= p /\ n = m * s /\ s = d * e
    BY <2>1, <2>3, <2>4 DEF Exponent, Abs
  <2>6. s >= 2 * e
    <3> HIDE DEF e, s
    <3>1. d * e >= 2 * e
      BY <1>2, <2>3
    <3> QED BY <2>5, <3>1
  <2>7. n > e /\ Abs(n - e) = n - e /\ n - e \in Int
    <3> HIDE DEF e, s, n
    <3>1. m * s >= s
      BY <2>4
    <3>2. n > e
      BY <1>2, <2>1, <2>4, <2>5, <2>6, <3>1
    <3> QED BY <1>2, <2>1, <3>2 DEF Abs
  <2>8. Round(-n + e, Mantissa) = -n
    <3>1. CASE n - e >= p
      <4>1. Exponent(n - e, Mantissa, k)
        <5> HIDE DEF e, s, n, p
        <5> QED BY <1>2, <2>1, <2>3, <2>4, <2>5, <2>7, <3>1 DEF Exponent, p
      <4>2. 2 * e < 2^k \/ (2 * e = 2^k /\ m % 2 = 0)
        <5> HIDE DEF e
        <5>1. d >= 4 => d * e >= 4 * e
          BY <1>2
        <5> QED BY <1>2, <2>3, <5>1
      <4> HIDE DEF n, e
      <4>3. e \in Nat \ {0} /\ k \in Nat
        BY <1>2
      <4> QED BY <2>1, <2>3, <2>7, <4>1, <4>2, <4>3, RoundBelow, Zenon
    <3>2. CASE n - e < p
      <4> DEFINE t == 2^(k - 1)
                 c == 2^Mantissa
      <4>1. k - 1 \in Nat /\ (k - 1) + 1 = k /\ s = 2 * t /\ t \in Nat
        <5>1. k - 1 \in Nat /\ (k - 1) + 1 = k
          OBVIOUS
        <5> QED BY <5>1, PowerNext, PowerType
      <4>2. m = h
        <5> HIDE DEF e, s, n, p, h
        <5>1. ASSUME m > h PROVE FALSE
          <6>1. m * s >= (h + 1) * s /\ (h + 1) * s = s * h + s
            BY <1>3, <2>4, <5>1
          <6> QED BY <1>2, <2>1, <2>4, <2>5, <2>6, <3>2, <6>1
        <5>2. ASSUME m < h PROVE FALSE
          <6>1. (m + 1) * s <= h * s /\ (m + 1) * s = m * s + s /\ h * s = s * h
            BY <1>3, <2>4, <5>2
          <6> QED BY <1>2, <2>1, <2>4, <2>5, <2>6, <6>1
        <5> QED BY <1>3, <5>1, <5>2
      <4>3. d >= 4
        <5> SUFFICES ASSUME d = 2 PROVE FALSE
          BY <2>3
        <5>1. n = b * (h * e) /\ n = h * (2 * e)
          BY <1>2, <2>5, <4>2
        <5> HIDE DEF b, n, h, e
        <5> DEFINE w == h * e
        <5>2. w \in Nat /\ w > 0 /\ h * (2 * e) = 2 * w
          BY <1>2, <1>3
        <5>3. b * w = 2 * w
          BY <5>1, <5>2
        <5> HIDE DEF w
        <5>4. b * w >= 3 * w
          BY <2>1, <5>2
        <5> QED BY <5>2, <5>3, <5>4
      <4>4. 2 * e <= t
        <5> HIDE DEF s, t, e
        <5>1. d * e >= 4 * e
          BY <1>2, <4>3
        <5> QED BY <1>2, <2>5, <4>1, <5>1
      <4>5. n = c * t /\ c = 8 * f /\ c \in Nat \ {0} /\ c % 2 = 0
        <5>1. c = 8 * f /\ c \in Nat \ {0} /\ c = 2 * h /\ c % 2 = 0
          BY <1>3
        <5> HIDE DEF s, t, n, c, h
        <5>2. n = h * (2 * t)
          BY <2>5, <4>1, <4>2
        <5>3. h * (2 * t) = (2 * h) * t
          BY <1>3, <4>1
        <5> QED BY <5>1, <5>2, <5>3
      <4>6. Exponent(n - e, Mantissa, k - 1)
        <5>1. /\ 2^((k - 1) + Mantissa) = t * c
              /\ (k - 1 = 0 \/ 2^((k - 1) + Mantissa - 1) = t * h)
          <6>1. Mantissa - 1 \in Nat /\ (k - 1) + (Mantissa - 1) = (k - 1) + Mantissa - 1
            BY <1>1
          <6> QED BY <1>1, <4>1, <6>1, PowerSum
        <5> HIDE DEF t, c, n, e, h
        <5>2. t * c = c * t /\ n = t * (8 * f)
          BY <4>1, <4>5
        <5>3. t * h = t * (4 * f) /\ t * (4 * f) >= t /\ t * (8 * f) = 2 * (t * (4 * f))
          BY <1>3, <4>1
        <5>4. n - e < t * c /\ n - e >= t * h
          <6> DEFINE x == t * (4 * f)
          <6>1. x \in Nat
            BY <4>1
          <6>2. n = t * c /\ n = 2 * x /\ x >= t /\ t * h = x
            BY <4>5, <5>2, <5>3
          <6> HIDE DEF x
          <6> QED BY <1>2, <2>1, <4>1, <4>4, <6>1, <6>2
        <5> QED BY <2>7, <5>1, <5>4 DEF Exponent
      <4> HIDE DEF n, e, c
      <4>7. n = c * 2^(k - 1) /\ (2 * e < 2^(k - 1) \/ (2 * e = 2^(k - 1) /\ c % 2 = 0))
        <5>1. 2^(k - 1) = t
          OBVIOUS
        <5> HIDE DEF t
        <5> QED BY <1>2, <4>1, <4>4, <4>5, <5>1
      <4>8. e \in Nat \ {0}
        BY <1>2
      <4>9. n \in Nat /\ k - 1 \in Nat /\ c \in Nat \ {0} /\ n > e
        BY <2>1, <2>7, <4>1, <4>5
      <4> QED BY <4>6, <4>7, <4>8, <4>9, RoundBelow, Zenon
    <3> QED BY <1>2, <2>1, <2>4, <3>1, <3>2
  <2>9. Round(a * One + epsilon, Mantissa) = a * One
    BY <2>1, <2>8
  <2> QED BY <2>9, Toward0Whole
<1>8. a = 0 \/ a = 1 \/ a >= 2 \/ a <= -3
  OBVIOUS
<1> QED BY <1>4, <1>5, <1>6, <1>7, <1>8
-----------------------------------------------------------------------------
(* Integers of some width, and numbers cut to them.                         *)

LEMMA WrapKeeps ==
  ASSUME NEW w \in Nat \ {0}, NEW x \in Int
  PROVE  /\ x \in Signed(w) => Wrap(x, w, TRUE) = x
         /\ x \in Unsigned(w) => Wrap(x, w, FALSE) = x
<1> DEFINE p == 2^w
           h == 2^(w - 1)
<1>1. w - 1 \in Nat /\ (w - 1) + 1 = w
  OBVIOUS
<1>2. p = 2 * h /\ h \in Nat /\ h >= 1 /\ p \in Nat \ {0}
  BY <1>1, PowerNext, PowerType
<1> HIDE DEF p, h
<1>3. ASSUME x \in 0..(p - 1) PROVE x % p = x
  <2>1. 0 * p + x = x
    BY <1>2
  <2>2. (0 * p + x) % p = x
    <3>1. 0 \in Nat
      OBVIOUS
    <3> QED BY <1>2, <1>3, <3>1, DivOf, Zenon
  <2> QED BY <2>1, <2>2
<1>4. ASSUME x < 0, x >= -h PROVE x % p = x + p
  BY <1>2, <1>4
<1>5. x \in -h..(h - 1) => Wrap(x, w, TRUE) = x
  BY <1>2, <1>3, <1>4 DEF Wrap, p, h
<1>6. x \in 0..(p - 1) => Wrap(x, w, FALSE) = x
  BY <1>2, <1>3 DEF Wrap, p
<1> QED BY <1>5, <1>6 DEF Signed, Unsigned, p, h

LEMMA SignedWider ==
  ASSUME NEW v \in Nat \ {0}, NEW w \in Nat, v <= w
  PROVE  Signed(v) \subseteq Signed(w)
<1>1. v - 1 \in Nat /\ w - 1 \in Nat /\ v - 1 <= w - 1
  OBVIOUS
<1>2. 2^(v - 1) <= 2^(w - 1) /\ 2^(v - 1) \in Nat /\ 2^(w - 1) \in Nat
  BY <1>1, PowerGrows, PowerType
<1> QED BY <1>2 DEF Signed

LEMMA SignedType ==
  ASSUME NEW w \in Nat \ {0}
  PROVE  /\ Signed(w) \subseteq Int /\ Unsigned(w) \subseteq Nat
         /\ \A x \in Signed(w), y \in Int : (0 <= y /\ y <= x) \/ (x <= y /\ y <= 0) => y \in Signed(w)
<1>1. 2^(w - 1) \in Nat \ {0} /\ 2^w \in Nat
  <2>1. w - 1 \in Nat
    OBVIOUS
  <2> QED BY <2>1, PowerType
<1> QED BY <1>1 DEF Signed, Unsigned

LEMMA WholeIs ==
  ASSUME NEW n \in Int, n % One = 0
  PROVE  n \div One \in Int /\ n = (n \div One) * One /\ Toward0(n) = n \div One
<1> DEFINE u == One
           k == n \div u
<1>1. u \in Nat \ {0}
  BY Units
<1>2. k \in Int /\ n = u * k + (n % u)
  <2> HIDE DEF u
  <2> QED BY <1>1
<1>3. n = k * u
  <2>1. n % u = 0
    OBVIOUS
  <2> HIDE DEF u, k
  <2> QED BY <1>1, <1>2, <2>1
<1>4. Toward0(n) = k
  <2> HIDE DEF k
  <2> QED BY <1>2, <1>3, Toward0Whole
<1> QED BY <1>2, <1>3, <1>4

(* Cut towards zero, a number loses less than a unit.                       *)
LEMMA Toward0Is ==
  ASSUME NEW n \in Int
  PROVE  /\ Toward0(n) \in Int /\ Abs(n - Toward0(n) * One) < One
         /\ n >= 0 => 0 <= Toward0(n) /\ Toward0(n) * One <= n
         /\ n <= 0 => Toward0(n) <= 0 /\ n <= Toward0(n) * One
<1> DEFINE u == One
           k == Abs(n) \div u
           r == Abs(n) % u
<1>1. u \in Nat \ {0} /\ Abs(n) \in Nat
  BY Units, AbsType
<1>2. k \in Nat /\ r \in 0..(u - 1) /\ Abs(n) = k * u + r
  <2> HIDE DEF u
  <2> QED BY <1>1, DivMod
<1>3. Toward0(n) = IF n < 0 THEN -k ELSE k
  BY DEF Toward0, Abs
<1> HIDE DEF u, k, r
<1>4. k * u \in Nat /\ (-k) * u = -(k * u)
  BY <1>1, <1>2
<1> DEFINE x == k * u
<1>5. x \in Nat /\ Abs(n) = x + r
  BY <1>2, <1>4
<1>6. CASE n < 0
  <2>1. Toward0(n) = -k /\ Toward0(n) * u = -x /\ n = -(x + r)
    BY <1>3, <1>4, <1>5, <1>6 DEF Abs
  <2> HIDE DEF x
  <2> QED BY <1>1, <1>2, <1>5, <1>6, <2>1 DEF Abs, u
<1>7. CASE n >= 0
  <2>1. Toward0(n) = k /\ Toward0(n) * u = x /\ n = x + r
    BY <1>3, <1>5, <1>7 DEF Abs
  <2> HIDE DEF x
  <2>2. n = 0 => k = 0
    <3> SUFFICES ASSUME n = 0, k >= 1 PROVE FALSE
      BY <1>2
    <3>1. k * u >= u
      BY <1>1, <1>2
    <3> QED BY <1>1, <1>2, <1>5, <2>1, <3>1 DEF x
  <2> QED BY <1>1, <1>2, <1>5, <1>7, <2>1, <2>2 DEF Abs, u
<1> QED BY <1>6, <1>7
-----------------------------------------------------------------------------
(* The values in the slot.                                                  *)

(* The numbers that a lua_Number holds.                                     *)
Held == {n \in Int : Keeps(n, Mantissa)}

SlotOK(v) ==
  \/ v.type \in {"number", "numeral"} /\ v.n \in Held
                /\ v = IF v.type = "number" THEN Num(v.n) ELSE Numeral(v.n)
  \/ v.type = "string" /\ v.s \in Words /\ v = [type |-> "string", s |-> v.s]
  \/ v \in {Bool(0), Bool(1), Nil, Pointer(0), Pointer(1)} \cup Others

(* What is stored, type by type.                                            *)
NumberOK(c) ==
  /\ c.type \in ReadTypes
  /\ c.type \in IntegralTypes => c.x \in Integral[c.type]
  /\ c.type \in {"float", "double"} => c.x \in Held
  /\ c.type = "float" => Keeps(c.x, FloatBits)
  /\ c.type \in {"bool", "pointer"} => c.x \in {0, 1}
  /\ c.type = "nil" => c.x = 0
TextOK(c) ==
  /\ c.type \in {"char", "string", "data"}
  /\ c.s \in Words \cup DOMAIN Digits
  /\ c.type = "char" => c.s \notin {"word", "cut"}

(* The slot holds what was stored, or its text.                             *)
CInv ==
  /\ SlotOK(slot)
  /\ \/ NumberOK(stored) /\ slot \in {push(stored.type, stored.x),
                                      lua_tostring(push(stored.type, stored.x))}
     \/ TextOK(stored) /\ slot = pushText(stored.type, stored.s)
     \/ stored.type = "other"

LEMMA Types ==
  /\ IntegralTypes = {"short", "int", "long", "ushort", "unsigned", "ulong"}
  /\ ReadTypes = {"short", "int", "long", "ushort", "unsigned", "ulong",
                  "double", "float", "bool", "nil", "pointer"}
  /\ DOMAIN Digits = {"0", "1", "7"}
  /\ Digits["0"] = 0 /\ Digits["1"] = One /\ Digits["7"] = 7 * One
BY DEF IntegralTypes, ReadTypes, Integral, Digits

LEMMA IntegralType ==
  ASSUME NEW type \in IntegralTypes
  PROVE  /\ Width[type] \in Nat \ {0}
         /\ Integral[type] = IF type \in SignedTypes THEN Signed(Width[type]) ELSE Unsigned(Width[type])
         /\ Integral[type] \subseteq Int
<1>1. /\ Width[type] \in Nat \ {0}
      /\ Integral[type] = IF type \in SignedTypes THEN Signed(Width[type]) ELSE Unsigned(Width[type])
  BY Types, Widths DEF Width, Integral, SignedTypes
<1> QED BY <1>1, SignedType

LEMMA HeldFacts ==
  /\ \A d \in DOMAIN Digits : Digits[d] \in Held
  /\ \A x \in Int : Round(x, Mantissa) \in Held /\ Round(x, TextBits) \in Held
  /\ \A x \in Held : x \in Int /\ Keeps(x, Mantissa)
<1>1. ASSUME NEW d \in {0, 1, 7} PROVE d * One \in Held
  <2>1. d * One \in Int /\ Abs(d * One) = d * One
    BY Units DEF Abs
  <2>2. d <= 2^Mantissa
    BY Units
  <2>3. d \in Nat /\ One = 2^Fraction /\ Mantissa \in Nat \ {0} /\ Fraction \in Nat
    BY Widths DEF One
  <2>4. Keeps(d * One, Mantissa)
    <3> DEFINE x == d * One
    <3>1. x \in Int /\ Abs(x) = d * 2^Fraction
      BY <2>1, <2>3
    <3> HIDE DEF x
    <3>2. Keeps(x, Mantissa)
      BY <2>2, <2>3, <3>1, ShortKept
    <3> QED BY <3>2 DEF x
  <2> QED BY <2>1, <2>4 DEF Held
<1>2. \A d \in DOMAIN Digits : Digits[d] \in Held
  <2>1. 0 * One = 0 /\ 1 * One = One
    BY Units
  <2>2. 0 \in Held /\ One \in Held /\ 7 * One \in Held
    BY <1>1, <2>1
  <2> QED BY <2>2, Types
<1>3. ASSUME NEW x \in Int PROVE Round(x, Mantissa) \in Held /\ Round(x, TextBits) \in Held
  <2>1. Round(x, Mantissa) \in Held
    BY Widths, RoundKept DEF Held
  <2>2. Round(x, TextBits) \in Int /\ Keeps(Round(x, TextBits), TextBits)
    BY Widths, RoundKept
  <2>3. Keeps(Round(x, TextBits), Mantissa)
    BY <2>2, Widths, KeptLonger
  <2> QED BY <2>1, <2>2, <2>3 DEF Held
<1> QED BY <1>2, <1>3 DEF Held

LEMMA StoredNumberOK == ASSUME NEW c \in StoredNumbers PROVE NumberOK(c)
<1>1. CASE \E type \in IntegralTypes : c \in [type : {type}, x : Integral[type]]
  <2>1. PICK type \in IntegralTypes : c \in [type : {type}, x : Integral[type]]
    BY <1>1
  <2>2. c.type = type /\ c.x \in Integral[type]
    BY <2>1
  <2> QED BY <2>2, Types DEF NumberOK
<1>2. CASE c \in [type : {"float"}, x : Floats]
  <2>1. c.type = "float" /\ c.x \in Floats
    BY <1>2
  <2>2. c.x \in Held /\ Keeps(c.x, FloatBits)
    BY <2>1, ConversionAssumption DEF Floats, Numbers, Held
  <2> QED BY <2>1, <2>2, Types DEF NumberOK
<1>3. CASE c \in [type : {"double"}, x : Numbers]
  <2>1. c.type = "double" /\ c.x \in Numbers
    BY <1>3
  <2>2. c.x \in Held
    BY <2>1, ConversionAssumption DEF Numbers, Held
  <2> QED BY <2>1, <2>2, Types DEF NumberOK
<1>4. CASE c \in [type : {"bool", "pointer"}, x : {0, 1}]
  BY <1>4, Types DEF NumberOK
<1>5. CASE c \in [type : {"nil"}, x : {0}]
  BY <1>5, Types DEF NumberOK
<1> DEFINE U == UNION {[type : {type}, x : Integral[type]] : type \in IntegralTypes}
           A == [type : {"float"}, x : Floats]
           B == [type : {"double"}, x : Numbers]
           C == [type : {"bool", "pointer"}, x : {0, 1}]
           D == [type : {"nil"}, x : {0}]
<1>6. c \in U => \E type \in IntegralTypes : c \in [type : {type}, x : Integral[type]]
  BY Zenon
<1>7. StoredNumbers = U \cup A \cup B \cup C \cup D
  BY Zenon DEF StoredNumbers
<1> HIDE DEF U, A, B, C, D
<1>8. c \in U \/ c \in A \/ c \in B \/ c \in C \/ c \in D
  BY <1>7
<1> QED BY <1>1, <1>2, <1>3, <1>4, <1>5, <1>6, <1>8, Zenon DEF A, B, C, D

LEMMA StoredTextOK == ASSUME NEW c \in StoredTexts PROVE TextOK(c)
<1>1. CASE c \in [type : {"char"}, s : {"empty", "c"} \cup DOMAIN Digits]
  BY <1>1, Types DEF TextOK, Words
<1>2. CASE c \in [type : {"string", "data"}, s : Words \cup DOMAIN Digits]
  BY <1>2, Types DEF TextOK, Words
<1> QED BY <1>1, <1>2 DEF StoredTexts

(* push, and what lua_tostring makes of a value.                            *)
LEMMA PushOK == ASSUME NEW c, NumberOK(c) PROVE SlotOK(push(c.type, c.x))
<1>1. CASE c.type \in IntegralTypes
  <2>1. c.x \in Int /\ c.x * One \in Int
    BY <1>1, IntegralType, Units DEF NumberOK
  <2>2. push(c.type, c.x) = Num(Round(c.x * One, Mantissa))
    BY <1>1, Types DEF push
  <2> QED BY <2>1, <2>2, HeldFacts DEF SlotOK, Num
<1>2. CASE c.type \in {"float", "double"}
  <2>1. push(c.type, c.x) = Num(c.x) /\ c.x \in Held
    BY <1>2, Types DEF push, NumberOK
  <2> QED BY <2>1 DEF SlotOK, Num
<1>3. CASE c.type \in {"bool", "pointer", "nil"}
  <2>1. push(c.type, c.x) = pushOther(c.type, c.x)
    BY <1>3, Types DEF push
  <2> QED BY <1>3, <2>1 DEF NumberOK, pushOther, SlotOK
<1> QED BY <1>1, <1>2, <1>3, Types DEF NumberOK

LEMMA PushTextOK == ASSUME NEW c, TextOK(c) PROVE
  /\ SlotOK(pushText(c.type, c.s))
  /\ pushText(c.type, c.s).type \in {"string", "numeral"}
<1>1. ASSUME NEW s \in Words \cup DOMAIN Digits
      PROVE  SlotOK(Str(s)) /\ Str(s).type \in {"string", "numeral"}
  <2>1. CASE s \in DOMAIN Digits
    <3>1. Digits[s] \in Held /\ Str(s) = Numeral(Digits[s])
      BY <2>1, HeldFacts DEF Str
    <3> QED BY <3>1 DEF SlotOK, Numeral
  <2>2. CASE s \notin DOMAIN Digits
    BY <2>2 DEF Str, SlotOK
  <2> QED BY <2>1, <2>2
<1>2. c.s \in Words \cup DOMAIN Digits /\ CStr(c.s) \in Words \cup DOMAIN Digits
  BY DEF TextOK, CStr, Words
<1> QED BY <1>1, <1>2 DEF pushText

LEMMA TextOf ==
  ASSUME NEW v, SlotOK(v)
  PROVE  /\ SlotOK(lua_tostring(v)) /\ lua_tostring(lua_tostring(v)) = lua_tostring(v)
         /\ v.type # "number" => lua_tostring(v) = v
<1>1. CASE v.type = "number"
  <2>1. lua_tostring(v) = Numeral(Round(v.n, TextBits))
    BY <1>1 DEF lua_tostring
  <2>2. v.n \in Held
    BY <1>1 DEF SlotOK, Bool, Nil, Pointer, Others
  <2>3. Round(v.n, TextBits) \in Held
    BY <2>2, HeldFacts
  <2> QED BY <1>1, <2>1, <2>3 DEF SlotOK, Numeral, lua_tostring
<1>2. CASE v.type # "number"
  BY <1>2 DEF lua_tostring
<1> QED BY <1>1, <1>2

-----------------------------------------------------------------------------
LEMMA SlotInvariant == Spec => []CInv
<1>1. Init => CInv
  <2> SUFFICES ASSUME Init PROVE CInv
    OBVIOUS
  <2>1. NumberOK(stored)
    BY Types DEF Init, NumberOK
  <2>2. slot = push(stored.type, stored.x)
    BY Types DEF Init, push, pushOther
  <2>3. SlotOK(slot)
    BY DEF Init, SlotOK
  <2> QED BY <2>1, <2>2, <2>3 DEF CInv
<1>2. CInv /\ [Next]_vars => CInv'
  <2> SUFFICES ASSUME CInv, [Next]_vars PROVE CInv'
    OBVIOUS
  <2>1. ASSUME NEW c \in StoredNumbers, Store(c) PROVE CInv'
    <3>1. NumberOK(c) /\ SlotOK(push(c.type, c.x))
      BY StoredNumberOK, PushOK
    <3> QED BY <2>1, <3>1 DEF Store, CInv
  <2>2. ASSUME NEW c \in StoredTexts, StoreText(c) PROVE CInv'
    <3>1. TextOK(c) /\ SlotOK(pushText(c.type, c.s))
      BY StoredTextOK, PushTextOK
    <3> QED BY <2>2, <3>1 DEF StoreText, CInv
  <2>3. ASSUME NEW v \in Others, StoreOther(v) PROVE CInv'
    BY <2>3 DEF StoreOther, CInv, SlotOK
  <2>4. CASE ReadAsString
    <3>1. slot' = lua_tostring(slot) /\ stored' = stored
      BY <2>4 DEF ReadAsString
    <3>2. SlotOK(slot) /\ SlotOK(slot')
      BY <3>1, TextOf DEF CInv
    <3>3. CASE NumberOK(stored) /\ slot \in {push(stored.type, stored.x),
                                             lua_tostring(push(stored.type, stored.x))}
      <4> DEFINE p == push(stored.type, stored.x)
      <4>1. SlotOK(p)
        BY <3>3, PushOK
      <4> HIDE DEF p
      <4>2. lua_tostring(lua_tostring(p)) = lua_tostring(p)
        BY <4>1, TextOf
      <4>3. slot' = lua_tostring(p)
        BY <3>1, <3>3, <4>2 DEF p
      <4> QED BY <3>1, <3>2, <3>3, <4>3 DEF CInv, p
    <3>4. CASE TextOK(stored) /\ slot = pushText(stored.type, stored.s)
      <4>1. slot.type # "number"
        BY <3>4, PushTextOK
      <4>2. slot' = slot
        BY <3>1, <3>2, <4>1, TextOf
      <4> QED BY <3>1, <3>2, <3>4, <4>2 DEF CInv
    <3>5. CASE stored.type = "other"
      BY <3>1, <3>2, <3>5 DEF CInv
    <3> QED BY <3>3, <3>4, <3>5 DEF CInv
  <2>5. CASE UNCHANGED vars
    BY <2>5 DEF vars, CInv
  <2> QED BY <2>1, <2>2, <2>3, <2>4, <2>5 DEF Next
<1> QED BY <1>1, <1>2, PTL DEF Spec
-----------------------------------------------------------------------------
(* What a survivor, a whole number and a checked integer are read as.       *)

(* A number that is a whole one of no more than LongBits is read as itself. *)
LEMMA ReadWhole ==
  ASSUME NEW v, lua_isnumber(v), NEW k \in Signed(LongBits), v.n = k * One,
         NEW type \in IntegralTypes, k \in Integral[type]
  PROVE  read(type, v) = {k}
<1>1. k \in Int /\ lua_tonumber(v) = k * One
  BY SignedType, Widths DEF lua_tonumber
<1>2. lua_tointeger(v) = {k}
  BY <1>1, Toward0Whole DEF lua_tointeger
<1>3. Width[type] \in Nat \ {0}
      /\ Integral[type] = IF type \in SignedTypes THEN Signed(Width[type]) ELSE Unsigned(Width[type])
  BY IntegralType
<1>4. Wrap(k, Width[type], type \in SignedTypes) = k
  <2>1. CASE type \in SignedTypes
    <3>1. Wrap(k, Width[type], TRUE) = k
      BY <1>1, <1>3, <2>1, WrapKeeps
    <3>2. (type \in SignedTypes) = TRUE
      BY <2>1
    <3> QED BY <3>1, <3>2
  <2>2. CASE type \notin SignedTypes
    <3>1. Wrap(k, Width[type], FALSE) = k
      BY <1>1, <1>3, <2>2, WrapKeeps
    <3>2. (type \in SignedTypes) = FALSE
      BY <2>2
    <3> QED BY <3>1, <3>2
  <2> QED BY <2>1, <2>2
<1> QED BY <1>2, <1>4 DEF read

LEMMA IntIsLong == Signed(IntBits) \subseteq Signed(LongBits) /\ Integral["int"] = Signed(IntBits)
BY Widths, SignedWider DEF Integral

LEMMA WholeRead ==
  ASSUME NEW v, SlotOK(v), Whole(v)
  PROVE  /\ v.n \div One \in Signed(IntBits) /\ v.n = (v.n \div One) * One /\ v.n \in Held
         /\ read("int", v) = {v.n \div One}
<1>1. v.n \in Held /\ v.n \in Int /\ lua_isnumber(v) /\ v.n \div One \in Signed(IntBits) /\ v.n % One = 0
  <2>1. v.type \in {"number", "numeral"}
    BY DEF Whole, lua_isnumber
  <2>2. v.n \in Held
    BY <2>1 DEF SlotOK, Bool, Nil, Pointer, Others
  <2> QED BY <2>2, HeldFacts DEF Whole
<1>2. v.n = (v.n \div One) * One
  BY <1>1, WholeIs
<1>3. "int" \in IntegralTypes
  BY Types
<1> QED BY <1>1, <1>2, <1>3, IntIsLong, ReadWhole

LEMMA CheckedRead ==
  ASSUME NEW v, SlotOK(v), checkInteger(v)
  PROVE  /\ v.n \in Held /\ v.n \in Int /\ lua_isnumber(v)
         /\ Toward0(v.n) \in Signed(IntBits)
         /\ read("int", v) = {Toward0(v.n)}
<1>1. lua_isnumber(v) /\ v.n \in Held /\ v.n \in Int /\ lua_tonumber(v) = v.n
  <2>1. lua_isnumber(v) /\ v.type \in {"number", "numeral"}
    BY DEF checkInteger, lua_isnumber
  <2>2. v.n \in Held
    BY <2>1 DEF SlotOK, Bool, Nil, Pointer, Others
  <2> QED BY <2>1, <2>2, HeldFacts DEF lua_tonumber
<1> DEFINE n == v.n
           t == Toward0(n)
           u == One
<1>2. PICK k \in Signed(IntBits) : Abs(n - k * One) <= epsilon
  BY <1>1 DEF checkInteger
<1>3. k \in Int /\ k * u \in Int /\ u \in Nat \ {0} /\ epsilon < u /\ epsilon \in Nat
  <2>1. k \in Int
    BY <1>2, SignedType, Widths
  <2> QED BY <2>1, Toward0Whole, Units
<1>4. /\ t \in Int
      /\ n >= 0 => 0 <= t /\ t * u <= n
      /\ n <= 0 => t <= 0 /\ n <= t * u
  BY <1>1, Toward0Is
<1>5. Abs(n - k * u) < u
  <2>1. Abs(n - k * u) <= epsilon /\ Abs(n - k * u) \in Int
    BY <1>1, <1>2, <1>3, AbsType
  <2> QED BY <1>3, <2>1
<1>6. (0 <= t /\ t <= k) \/ (k <= t /\ t <= 0)
  <2> HIDE DEF n, t, u
  <2>1. n \in Int
    BY <1>1 DEF n
  <2>2. n - k * u < u /\ k * u - n < u
    <3> DEFINE x == k * u
    <3>1. x \in Int /\ Abs(n - x) < u
      BY <1>3, <1>5
    <3> HIDE DEF x
    <3>2. n - x < u /\ x - n < u
      BY <1>3, <2>1, <3>1 DEF Abs
    <3> QED BY <3>2 DEF x
  <2>3. CASE n >= 0
    <3> SUFFICES ASSUME t >= k + 1, t # 0 PROVE FALSE
      BY <1>3, <1>4, <2>3
    <3>1. t * u >= (k + 1) * u /\ (k + 1) * u = k * u + u
      BY <1>3, <1>4
    <3> QED BY <1>3, <1>4, <2>1, <2>2, <2>3, <3>1
  <2>4. CASE n <= 0
    <3> SUFFICES ASSUME t <= k - 1, t # 0 PROVE FALSE
      BY <1>3, <1>4, <2>4
    <3>1. t * u <= (k - 1) * u /\ (k - 1) * u = k * u - u
      BY <1>3, <1>4
    <3> QED BY <1>3, <1>4, <2>1, <2>2, <2>4, <3>1
  <2> QED BY <2>1, <2>3, <2>4
<1>7. t \in Signed(IntBits)
  <2> HIDE DEF t
  <2> QED BY <1>2, <1>4, <1>6, SignedType, Widths
<1>8. read("int", v) = {t}
  <2>1. lua_tointeger(v) = {t}
    BY <1>1, <1>7, IntIsLong DEF lua_tointeger
  <2> HIDE DEF t
  <2>2. t \in Int /\ Width["int"] = IntBits /\ ("int" \in SignedTypes) = TRUE
    BY <1>4 DEF Width, SignedTypes
  <2>3. Wrap(t, IntBits, TRUE) = t
    BY <1>7, <2>2, WrapKeeps, Widths
  <2>4. "int" \in IntegralTypes
    BY Types
  <2> QED BY <2>1, <2>2, <2>3, <2>4 DEF read
<1> QED BY <1>1, <1>7, <1>8
-----------------------------------------------------------------------------
(* The numbers of what survives.                                            *)
LEMMA SurvivorNumber ==
  ASSUME CInv, Survives, NumberOK(stored)
  PROVE  /\ stored.type \in IntegralTypes =>
              lua_isnumber(slot) /\ slot.n = stored.x * One /\ stored.x \in Signed(LongBits)
         /\ stored.type \in {"float", "double"} =>
              lua_isnumber(slot) /\ slot.n = stored.x
         /\ stored.type \in {"bool", "nil", "pointer"} => slot = pushOther(stored.type, stored.x)
<1> DEFINE x == stored.x
           p == push(stored.type, x)
<1>1. slot = p \/ slot = lua_tostring(p)
  BY Types DEF CInv, NumberOK, TextOK
<1>2. CASE stored.type \in IntegralTypes
  <2> DEFINE bits == IF slot.type = "numeral" THEN TextBits ELSE Mantissa
             y == x * One
  <2>1. Keeps(y, bits) /\ x \in Signed(LongBits)
    BY <1>2, Types DEF Survives
  <2>2. x \in Int /\ y \in Int
    BY <1>2, IntegralType, Units DEF NumberOK
  <2>3. p = Num(Round(y, Mantissa))
    BY <1>2, Types DEF push
  <2>4. bits \in {TextBits, Mantissa}
    OBVIOUS
  <2> HIDE DEF y
  <2>5. Keeps(y, Mantissa)
    BY <2>1, <2>2, <2>4, Widths, KeptLonger
  <2>6. p = Num(y)
    BY <2>3, <2>5 DEF Keeps
  <2>7. lua_isnumber(slot) /\ slot.n = y
    <3>1. CASE slot = p
      <4> HIDE DEF p
      <4> QED BY <2>6, <3>1 DEF Num, lua_isnumber
    <3>2. CASE slot = lua_tostring(p)
      <4> HIDE DEF p
      <4>1. slot = Numeral(Round(y, TextBits))
        BY <2>6, <3>2 DEF lua_tostring, Num
      <4>2. slot.type = "numeral" /\ slot.n = Round(y, TextBits)
        BY <4>1 DEF Numeral
      <4>3. Keeps(y, TextBits)
        BY <2>1, <4>2
      <4> QED BY <4>2, <4>3 DEF Keeps, lua_isnumber
    <3> QED BY <1>1, <3>1, <3>2
  <2> QED BY <1>2, <2>1, <2>7, Types DEF y
<1>3. CASE stored.type \in {"float", "double"}
  <2>1. p = Num(x)
    BY <1>3, Types DEF push
  <2>2. lua_isnumber(slot) /\ slot.n = x
    <3>1. CASE slot = p
      <4> HIDE DEF p
      <4> QED BY <2>1, <3>1 DEF Num, lua_isnumber
    <3>2. CASE slot = lua_tostring(p)
      <4> HIDE DEF p
      <4>1. slot = Numeral(Round(x, TextBits))
        BY <2>1, <3>2 DEF lua_tostring, Num
      <4>2. slot.type = "numeral" /\ slot.n = Round(x, TextBits)
        BY <4>1 DEF Numeral
      <4>3. Keeps(x, TextBits)
        BY <1>3, <4>2, Types DEF Survives
      <4> QED BY <4>2, <4>3 DEF Keeps, lua_isnumber
    <3> QED BY <1>1, <3>1, <3>2
  <2> QED BY <1>3, <2>2, Types
<1>4. CASE stored.type \in {"bool", "nil", "pointer"}
  <2>1. p = pushOther(stored.type, x)
    BY <1>4, Types DEF push
  <2>2. p.type # "number"
    BY <1>4, <2>1 DEF pushOther, Bool, Nil, Pointer
  <2>3. lua_tostring(p) = p
    BY <2>2 DEF lua_tostring
  <2> QED BY <1>1, <1>4, <2>1, <2>3, Types
<1> QED BY <1>2, <1>3, <1>4, Types DEF NumberOK

(* RoundTrip: what survives in a lua_Number is read back as it was stored.  *)
THEOREM SurvivorsReturn == Spec => []RoundTrip
<1>1. ASSUME CInv PROVE RoundTrip
  <2> SUFFICES ASSUME Survives
               PROVE  /\ stored.type \in ReadTypes => read(stored.type, slot) = {stored.x}
                      /\ stored.type \in {"char", "string", "data"} =>
                           readText(stored.type, slot) = stored.s
    BY DEF RoundTrip
  <2>1. ASSUME stored.type \in ReadTypes PROVE read(stored.type, slot) = {stored.x}
    <3>0. NumberOK(stored)
      BY <1>1, <2>1, Types DEF CInv, TextOK
    <3>1. CASE stored.type \in IntegralTypes
      <4>1. lua_isnumber(slot) /\ slot.n = stored.x * One /\ stored.x \in Signed(LongBits)
        BY <1>1, <3>0, <3>1, SurvivorNumber
      <4>2. stored.x \in Integral[stored.type]
        BY <3>0, <3>1 DEF NumberOK
      <4> QED BY <3>1, <4>1, <4>2, ReadWhole
    <3>2. CASE stored.type \in {"float", "double"}
      <4>1. lua_tonumber(slot) = stored.x
        BY <1>1, <3>0, <3>2, SurvivorNumber DEF lua_tonumber
      <4>2. stored.type = "float" => Round(stored.x, FloatBits) = stored.x
        BY <3>0 DEF NumberOK, Keeps
      <4>3. read(stored.type, slot) = {readOther(stored.type, slot)}
        BY <3>2, Types DEF read
      <4> QED BY <3>2, <4>1, <4>2, <4>3 DEF readOther
    <3>3. CASE stored.type \in {"bool", "nil", "pointer"}
      <4>1. slot = pushOther(stored.type, stored.x)
        BY <1>1, <3>0, <3>3, SurvivorNumber
      <4>2. read(stored.type, slot) = {readOther(stored.type, slot)}
        BY <3>3, Types DEF read
      <4>3. CASE stored.type = "bool"
        <5>1. stored.x \in {0, 1} /\ slot = Bool(stored.x)
          BY <3>0, <4>1, <4>3 DEF NumberOK, pushOther
        <5>2. readOther("bool", slot) = stored.x
          BY <5>1 DEF readOther, Bool, Nil
        <5> QED BY <4>2, <4>3, <5>2
      <4>4. CASE stored.type = "nil"
        BY <3>0, <4>2, <4>4 DEF NumberOK, readOther
      <4>5. CASE stored.type = "pointer"
        BY <4>1, <4>2, <4>5 DEF pushOther, readOther, Pointer
      <4> QED BY <3>3, <4>3, <4>4, <4>5
    <3> QED BY <2>1, <3>1, <3>2, <3>3, Types
  <2>2. ASSUME stored.type \in {"char", "string", "data"}
        PROVE  readText(stored.type, slot) = stored.s
    <3>1. TextOK(stored) /\ slot = pushText(stored.type, stored.s)
      BY <1>1, <2>2, Types DEF CInv, NumberOK
    <3>2. stored.s # "cut"
      BY <2>2, <3>1, Types DEF Survives, TextOK
    <3>3. slot = Str(stored.s)
      BY <3>1, <3>2 DEF pushText, CStr
    <3>4. CASE stored.s \in DOMAIN Digits
      <4>1. slot = Numeral(Digits[stored.s])
        BY <3>3, <3>4 DEF Str
      <4>2. lua_tostring(slot) = slot /\ slot.type = "numeral" /\ slot.n = Digits[stored.s]
        BY <4>1 DEF lua_tostring, Numeral
      <4>3. \A d \in DOMAIN Digits : Digits[d] = slot.n => d = stored.s
        <5>1. 0 # One /\ 0 # 7 * One /\ One # 7 * One
          BY Units
        <5> QED BY <3>4, <4>2, <5>1, Types
      <4>4. (CHOOSE d \in DOMAIN Digits : Digits[d] = slot.n) = stored.s
        BY <3>4, <4>2, <4>3
      <4> QED BY <3>4, <4>2, <4>4 DEF readText
    <3>5. CASE stored.s \notin DOMAIN Digits
      <4>1. slot = [type |-> "string", s |-> stored.s]
        BY <3>3, <3>5 DEF Str
      <4>2. lua_tostring(slot) = slot /\ slot.type = "string" /\ slot.s = stored.s
        BY <4>1 DEF lua_tostring
      <4>3. ~(stored.type = "char" /\ stored.s \in {"word", "cut"})
        BY <3>1 DEF TextOK
      <4> QED BY <3>2, <4>2, <4>3 DEF readText, CStr
    <3> QED BY <3>4, <3>5
  <2> QED BY <2>1, <2>2
<1> QED BY <1>1, SlotInvariant, PTL

(* IntegersAreSeen: the nudge of checkInteger lets every int through but -1 *)
(* and -2, whatever the widths are, and what it lets through is read as an  *)
(* int that is less than one away.                                          *)
THEOREM IntsAreSeen == Spec => []IntegersAreSeen
<1>1. ASSUME SlotOK(slot) PROVE IntegersAreSeen
  <2>1. ASSUME Whole(slot), slot.n \notin {-One, -2 * One} PROVE check("int", slot)
    <3> DEFINE k == slot.n \div One
    <3>1. k \in Signed(IntBits) /\ slot.n = k * One /\ slot.n \in Held /\ k \in Int
      BY <1>1, <2>1, WholeRead, SignedType, Widths
    <3>2. k \notin {-1, -2}
      <4> HIDE DEF k
      <4>1. (-1) * One = -One /\ (-2) * One = -2 * One
        BY Units
      <4> QED BY <2>1, <3>1, <4>1
    <3> HIDE DEF k
    <3>3. Toward0(Round(k * One + epsilon, Mantissa)) = k
      BY <3>1, <3>2, HeldFacts, Nudge
    <3>4. lua_isnumber(slot) /\ lua_tonumber(slot) = k * One
      BY <2>1, <3>1 DEF Whole, lua_tonumber
    <3>5. Abs(k * One - k * One) <= epsilon
      <4>1. k * One \in Int /\ k * One - k * One = 0
        BY <3>1, Units
      <4> QED BY <4>1, Units DEF Abs
    <3> QED BY <3>1, <3>3, <3>4, <3>5 DEF check, checkInteger
  <2>2. ASSUME check("int", slot), NEW k \in read("int", slot) PROVE Abs(slot.n - k * One) < One
    <3>1. checkInteger(slot)
      BY <2>2 DEF check
    <3>2. k = Toward0(slot.n) /\ slot.n \in Int
      BY <1>1, <2>2, <3>1, CheckedRead
    <3> QED BY <3>2, Toward0Is
  <2> QED BY <2>1, <2>2 DEF IntegersAreSeen
<1> QED BY <1>1, SlotInvariant, PTL DEF CInv

(* A value that passes a check is read as one that stores the same value    *)
(* again, but for the fractions and the large numbers, the digits and the   *)
(* NULs that ChecksDeliver names.                                           *)
THEOREM ChecksAreKept == Spec => []ChecksDeliver
<1>1. ASSUME SlotOK(slot) PROVE ChecksDeliver
  <2>9. ASSUME check("string", slot), slot # Str("cut")
        PROVE  pushText("string", readText("string", slot)) = slot
    <3>1. slot.type = "string"
      BY <2>9 DEF check
    <3>2. PICK s \in Words : slot = [type |-> "string", s |-> s]
      BY <1>1, <3>1 DEF SlotOK, Num, Numeral, Bool, Nil, Pointer, Others
    <3>3. s \notin DOMAIN Digits /\ s \in {"empty", "c", "word"}
      BY <2>9, <3>2, Types DEF Words, Str
    <3>4. lua_tostring(slot) = slot /\ readText("string", slot) = s
      BY <3>2, <3>3 DEF lua_tostring, readText, CStr
    <3> QED BY <3>2, <3>3, <3>4 DEF pushText, CStr, Str
  <2> SUFFICES ASSUME NEW type \in CheckTypes \cap ReadTypes, check(type, slot), Delivers(type),
                      NEW x \in get(type, slot)
               PROVE  push(type, x) = IF slot.type = "numeral" THEN Num(slot.n) ELSE slot
    BY <2>9 DEF ChecksDeliver
  <2>1. x \in read(type, slot)
    BY DEF get
  <2>2. type \in {"int", "double", "unsigned", "float", "bool", "nil", "pointer"}
    BY Types DEF CheckTypes
  <2>3. ASSUME lua_isnumber(slot)
        PROVE  /\ slot.n \in Held /\ slot.n \in Int /\ Keeps(slot.n, Mantissa)
               /\ Num(slot.n) = IF slot.type = "numeral" THEN Num(slot.n) ELSE slot
    <3>1. slot.type \in {"number", "numeral"}
      BY <2>3 DEF lua_isnumber
    <3>2. slot.n \in Held /\ slot = IF slot.type = "number" THEN Num(slot.n) ELSE Numeral(slot.n)
      BY <1>1, <3>1 DEF SlotOK, Bool, Nil, Pointer, Others
    <3> QED BY <3>1, <3>2, HeldFacts
  <2>4. ASSUME lua_isnumber(slot), slot.n = x * One, type \in IntegralTypes
        PROVE  push(type, x) = Num(slot.n)
    <3>1. push(type, x) = Num(Round(x * One, Mantissa))
      BY <2>4, Types DEF push
    <3> QED BY <2>3, <2>4, <3>1 DEF Keeps
  <2>5. CASE type = "int"
    <3>1. checkInteger(slot) /\ slot.n % One = 0
      BY <2>5 DEF check, Delivers
    <3>2. x = Toward0(slot.n) /\ slot.n \in Int /\ lua_isnumber(slot)
      BY <1>1, <2>1, <2>5, <3>1, CheckedRead
    <3>3. slot.n = x * One
      BY <3>1, <3>2, WholeIs
    <3> QED BY <2>3, <2>4, <2>5, <3>2, <3>3, Types
  <2>6. CASE type = "unsigned"
    <3> DEFINE k == slot.n \div One
    <3>1. lua_isnumber(slot) /\ slot.n % One = 0 /\ k \in Unsigned(IntBits) \cap Signed(LongBits)
      BY <2>6 DEF check, Delivers
    <3>2. slot.n = k * One
      BY <2>3, <3>1, WholeIs
    <3>3. "unsigned" \in IntegralTypes /\ Integral["unsigned"] = Unsigned(IntBits)
      BY Types DEF Integral
    <3> HIDE DEF k
    <3>4. read("unsigned", slot) = {k}
      BY <3>1, <3>2, <3>3, ReadWhole
    <3>5. x = k
      BY <2>1, <2>6, <3>4
    <3> QED BY <2>3, <2>4, <2>6, <3>1, <3>2, <3>3, <3>5
  <2>7. CASE type \in {"float", "double"}
    <3>1. lua_isnumber(slot) /\ (type = "float" => Keeps(slot.n, FloatBits))
      BY <2>7 DEF check, Delivers
    <3>2. x = readOther(type, slot)
      BY <2>1, <2>7, Types DEF read
    <3>3. x = slot.n
      BY <2>7, <3>1, <3>2 DEF readOther, lua_tonumber, Keeps
    <3>4. push(type, x) = Num(x)
      BY <2>7, Types DEF push
    <3> QED BY <2>3, <3>1, <3>3, <3>4
  <2>8. CASE type \in {"bool", "nil", "pointer"}
    <3>1. x = readOther(type, slot) /\ push(type, x) = pushOther(type, x)
      BY <2>1, <2>8, Types DEF read, push
    <3>2. CASE type = "bool"
      <4>1. slot.type = "boolean"
        BY <3>2 DEF check
      <4>2. slot \in {Bool(0), Bool(1)}
        BY <1>1, <4>1 DEF SlotOK, Nil, Pointer, Others
      <4> QED BY <3>1, <3>2, <4>2 DEF readOther, pushOther, Bool, Nil
    <3>3. CASE type = "nil"
      <4>1. slot.type = "nil"
        BY <3>3 DEF check
      <4>2. slot = Nil
        BY <1>1, <4>1 DEF SlotOK, Bool, Pointer, Others
      <4> QED BY <3>1, <3>3, <4>2 DEF pushOther, Nil
    <3>4. CASE type = "pointer"
      <4>1. slot.type = "lightuserdata"
        BY <3>4 DEF check
      <4>2. slot \in {Pointer(0), Pointer(1)}
        BY <1>1, <4>1 DEF SlotOK, Bool, Nil, Others
      <4> QED BY <3>1, <3>4, <4>2 DEF readOther, pushOther, Pointer
    <3> QED BY <2>8, <3>2, <3>3, <3>4
  <2> QED BY <2>2, <2>5, <2>6, <2>7, <2>8
<1> QED BY <1>1, SlotInvariant, PTL DEF CInv

(* All twelve comparisons with an int constant: on the right it is compared *)
(* with as numbers are, on the left it is as if it were on the right, which *)
(* is right for == and != only.                                             *)
THEOREM WholeNumbersAreCompared == Spec => []WholeNumbersCompare
<1>1. ASSUME SlotOK(slot) PROVE WholeNumbersCompare
  <2> SUFFICES ASSUME Whole(slot) PROVE WholeNumbersCompare
    BY DEF WholeNumbersCompare
  <2> DEFINE n == slot.n \div One
  <2>1. read("int", slot) = {n}
    BY <1>1, WholeRead
  <2> HIDE DEF n
  <2>2. ASSUME NEW x, NEW op PROVE Compare(op, "int", slot, x) <=> Holds(op, n, x)
    BY <2>1 DEF Compare
  <2>3. ASSUME NEW x, NEW op PROVE CompareLeft(op, x, "int", slot) <=> Holds(op, n, x)
    BY <2>2 DEF CompareLeft
  <2>4. ASSUME NEW x, NEW op \in {"==", "!="} PROVE Holds(op, n, x) <=> Holds(op, x, n)
    BY DEF Holds
  <2> QED BY <2>2, <2>3, <2>4 DEF WholeNumbersCompare, n
<1> QED BY <1>1, SlotInvariant, PTL DEF CInv

(* TextChangesNothing: reading a number of few digits as a string changes   *)
(* the value on the stack and no later answer.                              *)
THEOREM TextsAreHarmless == Spec => TextChangesNothing
<1> DEFINE Same == /\ \A type \in CheckTypes : check(type, slot') = check(type, slot)
                   /\ \A type \in ReadTypes : read(type, slot') = read(type, slot)
<1>1. ASSUME ReadAsString, slot.type = "number" => Keeps(slot.n, TextBits) PROVE Same
  <2>1. CASE slot.type = "number"
    <3>1. slot' = Numeral(slot.n)
      BY <1>1, <2>1 DEF ReadAsString, lua_tostring, Keeps
    <3>2. slot'.type = "numeral" /\ slot'.n = slot.n
      BY <3>1 DEF Numeral
    <3>3. lua_isnumber(slot') = lua_isnumber(slot) /\ lua_tonumber(slot') = lua_tonumber(slot)
      BY <2>1, <3>2 DEF lua_isnumber, lua_tonumber
    <3>4. checkInteger(slot') = checkInteger(slot) /\ lua_tointeger(slot') = lua_tointeger(slot)
      BY <3>3 DEF checkInteger, lua_tointeger
    <3>5. ASSUME NEW type \in CheckTypes PROVE check(type, slot') = check(type, slot)
      BY <2>1, <3>2, <3>3, <3>4 DEF CheckTypes, check
    <3>6. slot \notin {Nil, Bool(0)} /\ slot' \notin {Nil, Bool(0)}
      BY <2>1, <3>2 DEF Nil, Bool
    <3>7. ASSUME NEW type \in ReadTypes PROVE read(type, slot') = read(type, slot)
      <4>1. CASE type \in IntegralTypes
        BY <3>4, <4>1 DEF read
      <4>2. CASE type \in {"double", "float", "bool", "nil", "pointer"}
        <5>1. readOther(type, slot') = readOther(type, slot)
          BY <2>1, <3>2, <3>3, <3>6, <4>2 DEF readOther
        <5> QED BY <4>2, <5>1, Types DEF read
      <4> QED BY <4>1, <4>2, Types
    <3> QED BY <3>5, <3>7
  <2>2. CASE slot.type # "number"
    <3>1. slot' = slot
      BY <1>1, <2>2 DEF ReadAsString, lua_tostring
    <3> QED BY <3>1
  <2> QED BY <2>1, <2>2
<1>2. [ReadAsString /\ (slot.type = "number" => Keeps(slot.n, TextBits)) => Same]_vars
  BY <1>1
<1> QED BY <1>2, PTL DEF TextChangesNothing
=============================================================================

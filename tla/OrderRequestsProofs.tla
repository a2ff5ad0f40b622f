-------------------------- MODULE OrderRequestsProofs --------------------------
(***************************************************************************)
(* What POST /orders makes of a request, for any requests, any positive    *)
(* prices and floats of any size: money is rounded once, to the cent       *)
(* nearest to a catalog price, and totals are exact after that; no order   *)
(* names a product twice; the fingerprint tells requests apart by what     *)
(* they mean.                                                              *)
(***************************************************************************)
EXTENDS OrderRequests, SumTheorems, TLAPS

-----------------------------------------------------------------------------
(***************************************************************************)
(* Numbers.                                                                *)
(***************************************************************************)

(* Induction over the natural numbers, with a set instead of a predicate.  *)
LEMMA NaturalNumbers ==
    ASSUME NEW Good, 0 \in Good, \A n \in Nat : n \in Good => n + 1 \in Good
    PROVE  \A n \in Nat : n \in Good
  <1> SUFFICES ASSUME NEW n \in Nat, n \notin Good PROVE FALSE
    OBVIOUS
  <1> DEFINE Bad == {k \in 0..n : k \notin Good}
  <1>1. IsFiniteSet(Bad) /\ Bad \subseteq Int /\ Bad # {}
    <2>1. IsFiniteSet(0..n)
      BY FS_Interval
    <2>2. Bad \subseteq 0..n /\ n \in Bad
      OBVIOUS
    <2> QED BY <2>1, <2>2, FS_Subset
  <1>2. PICK m \in Bad : \A k \in Bad : m <= k
    <2> HIDE DEF Bad
    <2> QED BY <1>1, LeastElement
  <1>3. m \in Nat /\ m # 0 /\ m <= n
    OBVIOUS
  <1>4. m - 1 \in Nat /\ m - 1 \notin Bad /\ m - 1 \in 0..n
    BY <1>2, <1>3
  <1>5. m - 1 \in Good /\ (m - 1) + 1 = m
    BY <1>3, <1>4
  <1> QED BY <1>3, <1>4, <1>5

(* Powers of two, from the number of subsets of 1..n.                      *)
LEMMA PowerCounts ==
    ASSUME NEW n \in Nat
    PROVE  /\ IsFiniteSet(SUBSET (1..n)) /\ Cardinality(SUBSET (1..n)) = 2 ^ n
           /\ 2 ^ n \in Nat
  <1>1. IsFiniteSet(1..n) /\ Cardinality(1..n) = n
    <2>1. Cardinality(1..n) = IF 1 > n THEN 0 ELSE n - 1 + 1
      BY FS_Interval
    <2> QED BY <2>1, FS_Interval
  <1>2. IsFiniteSet(SUBSET (1..n)) /\ Cardinality(SUBSET (1..n)) = 2 ^ Cardinality(1..n)
    BY <1>1, FS_SUBSET
  <1> QED BY <1>1, <1>2, FS_CardinalityType

(* Half of the subsets of 1..n + 1 have n + 1.                             *)
LEMMA PowerDoubles == ASSUME NEW n \in Nat PROVE 2 ^ (n + 1) = 2 * 2 ^ n
  <1> DEFINE Small == SUBSET (1..n)
             Large == {T \in SUBSET (1..(n + 1)) : n + 1 \in T}
  <1>0. n + 1 \in Nat /\ n + 1 \notin 1..n /\ 1..(n + 1) = (1..n) \cup {n + 1}
    OBVIOUS
  <1>1. SUBSET (1..(n + 1)) = Small \cup Large /\ Small \cap Large = {}
    <2>1. ASSUME NEW T \in SUBSET (1..(n + 1)) PROVE T \in Small \cup Large
      BY <1>0, <2>1
    <2>2. Small \subseteq SUBSET (1..(n + 1))
      BY <1>0
    <2> QED BY <1>0, <2>1, <2>2
  <1>2. IsFiniteSet(Small) /\ Cardinality(Small) = 2 ^ n /\ 2 ^ n \in Nat
    BY PowerCounts
  <1>3. Cardinality(Small \cup Large) = 2 ^ (n + 1) /\ IsFiniteSet(Large)
    <2>1. IsFiniteSet(SUBSET (1..(n + 1))) /\ Cardinality(SUBSET (1..(n + 1))) = 2 ^ (n + 1)
      BY <1>0, PowerCounts
    <2>2. Large \subseteq SUBSET (1..(n + 1))
      OBVIOUS
    <2>3. IsFiniteSet(Large)
      BY <2>1, <2>2, FS_Subset
    <2> HIDE DEF Small, Large
    <2> QED BY <1>1, <2>1, <2>3
  <1>4. Cardinality(Large) = Cardinality(Small)
    <2> DEFINE g == [T \in Small |-> T \cup {n + 1}]
    <2>1. g \in [Small -> Large]
      <3>1. \A T \in Small : T \cup {n + 1} \in Large
        OBVIOUS
      <3> QED BY <3>1
    <2>2. \A S, T \in Small : g[S] = g[T] => S = T
      BY <1>0
    <2>3. \A T \in Large : \E S \in Small : g[S] = T
      <3> TAKE T \in Large
      <3>1. T \ {n + 1} \in Small /\ (T \ {n + 1}) \cup {n + 1} = T
        BY <1>0
      <3> QED BY <3>1
    <2> HIDE DEF g, Small, Large
    <2>4. g \in Bijection(Small, Large)
      BY <2>1, <2>2, <2>3 DEF Bijection, Injection, Surjection, IsInjective
    <2> QED BY <1>2, <1>3, <2>4, FS_Bijection DEF ExistsBijection
  <1>5. IsFiniteSet(Small \cap Large) /\ Cardinality(Small \cap Large) = 0
    BY <1>1, FS_EmptySet
  <1>6. Cardinality(Small \cup Large)
            = Cardinality(Small) + Cardinality(Large) - Cardinality(Small \cap Large)
    BY <1>2, <1>3, FS_Union
  <1> HIDE DEF Small, Large
  <1> QED BY <1>2, <1>3, <1>4, <1>5, <1>6

(* Powers of two are natural numbers, and not 0.                           *)
LEMMA PowerIsPositive == \A n \in Nat : 2 ^ n \in Nat /\ 2 ^ n >= 1
  <1> DEFINE Good == {n \in Nat : 2 ^ n >= 1}
  <1>1. 0 \in Good
    <2>1. 2 ^ 0 = 1
      OBVIOUS
    <2> QED BY <2>1
  <1>2. \A n \in Nat : n \in Good => n + 1 \in Good
    BY PowerCounts, PowerDoubles
  <1>3. \A n \in Nat : n \in Good
    <2> HIDE DEF Good
    <2> QED BY <1>1, <1>2, NaturalNumbers
  <1> QED BY <1>3, PowerCounts

(* Powers of two grow.                                                     *)
LEMMA PowerGrows == \A m, d \in Nat : 2 ^ m <= 2 ^ (m + d)
  <1> SUFFICES ASSUME NEW m \in Nat PROVE \A d \in Nat : 2 ^ m <= 2 ^ (m + d)
    OBVIOUS
  <1> DEFINE Good == {d \in Nat : 2 ^ m <= 2 ^ (m + d)}
  <1>1. 0 \in Good
    <2>1. m + 0 = m /\ 2 ^ m \in Nat
      BY PowerIsPositive
    <2> QED BY <2>1
  <1>2. ASSUME NEW d \in Nat, d \in Good PROVE d + 1 \in Good
    <2> DEFINE n == m + d
    <2>1. n \in Nat /\ m + (d + 1) = n + 1 /\ 2 ^ m <= 2 ^ n
      BY <1>2
    <2> HIDE DEF n
    <2>2. 2 ^ (n + 1) = 2 * 2 ^ n /\ 2 ^ n \in Nat /\ 2 ^ m \in Nat
      BY <2>1, PowerDoubles, PowerIsPositive
    <2> QED BY <2>1, <2>2
  <1>3. \A d \in Nat : d \in Good
    <2> HIDE DEF Good
    <2> QED BY <1>1, <1>2, NaturalNumbers
  <1> QED BY <1>3

(* A larger exponent is a larger power.                                    *)
LEMMA PowersAreOrdered == \A m, n \in Nat : m <= n => 2 ^ m <= 2 ^ n
  <1> SUFFICES ASSUME NEW m \in Nat, NEW n \in Nat, m <= n PROVE 2 ^ m <= 2 ^ n
    OBVIOUS
  <1>1. n - m \in Nat /\ m + (n - m) = n
    OBVIOUS
  <1> QED BY <1>1, PowerGrows

(* Powers of two outgrow multiples.                                        *)
LEMMA PowerOutgrows == \A m, d \in Nat : 2 ^ m * (d + 1) <= 2 ^ (m + d)
  <1> SUFFICES ASSUME NEW m \in Nat PROVE \A d \in Nat : 2 ^ m * (d + 1) <= 2 ^ (m + d)
    OBVIOUS
  <1> DEFINE x == 2 ^ m
             Good == {d \in Nat : x * (d + 1) <= 2 ^ (m + d)}
  <1>0. x \in Nat /\ x >= 1
    BY PowerIsPositive
  <1>1. 0 \in Good
    <2>1. m + 0 = m /\ x * (0 + 1) = x
      BY <1>0
    <2> QED BY <1>0, <2>1
  <1>2. ASSUME NEW d \in Nat, d \in Good PROVE d + 1 \in Good
    <2> DEFINE y == 2 ^ (m + d)
    <2>1. m + d \in Nat /\ (m + d) + 1 = m + (d + 1)
      OBVIOUS
    <2>2. y \in Nat /\ 2 ^ (m + (d + 1)) = 2 * y
      <3>1. 2 ^ ((m + d) + 1) = 2 * 2 ^ (m + d) /\ 2 ^ (m + d) \in Nat
        BY <2>1, PowerDoubles, PowerIsPositive
      <3> QED BY <2>1, <3>1
    <2>3. x * (d + 1) <= y
      BY <1>2
    <2> HIDE DEF x, y
    <2>4. x * ((d + 1) + 1) = x * (d + 1) + x /\ x * (d + 1) >= x /\ x * (d + 1) \in Nat
      BY <1>0
    <2>5. x * ((d + 1) + 1) <= 2 * y
      BY <1>0, <2>2, <2>3, <2>4
    <2> QED BY <2>2, <2>5
  <1>3. \A d \in Nat : d \in Good
    <2> HIDE DEF Good
    <2> QED BY <1>1, <1>2, NaturalNumbers
  <1> QED BY <1>3

(* Seven doublings.                                                        *)
LEMMA PowerOfSeven ==
    /\ 2 ^ 0 = 1 /\ 2 ^ 7 = 128
    /\ \A n \in Nat : 2 ^ (n + 7) = 128 * 2 ^ n
  <1>1. 2 ^ 0 = 1 /\ 2 ^ 7 = 128
    OBVIOUS
  <1>2. ASSUME NEW n \in Nat PROVE 2 ^ (n + 7) = 128 * 2 ^ n
    <2>1. /\ 2 ^ (n + 1) = 2 * 2 ^ n /\ 2 ^ n \in Nat
          /\ \A k \in Nat : 2 ^ (k + 1) = 2 * 2 ^ k /\ 2 ^ k \in Nat
      BY PowerDoubles, PowerIsPositive
    <2>2. 2 ^ (n + 2) = 4 * 2 ^ n
      <3>1. (n + 1) + 1 = n + 2 /\ n + 1 \in Nat
        OBVIOUS
      <3> QED BY <2>1, <3>1
    <2>3. 2 ^ (n + 4) = 16 * 2 ^ n
      <3>1. (n + 2) + 1 = n + 3 /\ n + 2 \in Nat /\ (n + 3) + 1 = n + 4 /\ n + 3 \in Nat
        OBVIOUS
      <3> QED BY <2>1, <2>2, <3>1
    <2>4. 2 ^ (n + 6) = 64 * 2 ^ n
      <3>1. (n + 4) + 1 = n + 5 /\ n + 4 \in Nat /\ (n + 5) + 1 = n + 6 /\ n + 5 \in Nat
        OBVIOUS
      <3> QED BY <2>1, <2>3, <3>1
    <2>5. (n + 6) + 1 = n + 7 /\ n + 6 \in Nat
      OBVIOUS
    <2> QED BY <2>1, <2>4, <2>5
  <1> QED BY <1>1, <1>2

(* Division, to the nearest.                                               *)
LEMMA RoundedDivIsClose ==
    ASSUME NEW a \in Nat, NEW b \in Nat, b > 0
    PROVE  /\ RoundedDiv(a, b) \in Nat
           /\ 2 * (RoundedDiv(a, b) * b) <= 2 * a + b
           /\ 2 * (RoundedDiv(a, b) * b) >= 2 * a - b
  <1> DEFINE q == a \div b
             r == a % b
  <1>1. q \in Nat /\ r \in Nat /\ r < b /\ a = q * b + r
    OBVIOUS
  <1>2. RoundedDiv(a, b) = IF 2 * r < b \/ (2 * r = b /\ q % 2 = 0) THEN q ELSE q + 1
    BY DEF RoundedDiv
  <1> HIDE DEF q, r
  <1>3. (q + 1) * b = q * b + b /\ q * b \in Nat
    BY <1>1
  <1> QED BY <1>1, <1>2, <1>3

-----------------------------------------------------------------------------
(***************************************************************************)
(* Floats.                                                                 *)
(***************************************************************************)

(* Between two multiples there is one quotient.                            *)
LEMMA OneQuotient ==
    ASSUME NEW a \in Nat, NEW b \in Nat, b > 0
    PROVE  /\ a \div b \in Nat
           /\ (a \div b) * b <= a /\ a < (a \div b) * b + b
  <1> DEFINE q == a \div b
             r == a % b
  <1>1. q \in Nat /\ r \in Nat /\ r < b /\ a = q * b + r
    OBVIOUS
  <1> HIDE DEF q, r
  <1>2. q * b \in Nat
    BY <1>1
  <1>3. q \in Nat /\ q * b <= a /\ a < q * b + b
    BY <1>1, <1>2
  <1> QED BY <1>3 DEF q

(* The least exponent of a set of them.                                    *)
LEMMA LeastExponent ==
    ASSUME NEW n \in Nat, NEW Large \in SUBSET (0..n), n \in Large
    PROVE  \E k \in Large : k = 0 \/ (k - 1 \in 0..n /\ k - 1 \notin Large)
  <1>1. IsFiniteSet(Large) /\ Large \subseteq Int /\ Large # {}
    <2>1. IsFiniteSet(0..n) /\ 0..n \subseteq Int
      BY FS_Interval
    <2> QED BY <2>1, FS_Subset
  <1>2. PICK k \in Large : \A j \in Large : k <= j
    BY <1>1, LeastElement
  <1>3. k \in 0..n
    OBVIOUS
  <1> QED BY <1>2, <1>3

(* How many bits a / b has to lose: Float, in two parts.                   *)
Fits(a, b, k) == a < b * 2 ^ (Mantissa + k) /\ (k = 0 \/ a >= b * 2 ^ (Mantissa + k - 1))
Excess(a, b) == CHOOSE k \in 0..a : Fits(a, b, k)

(* Every quotient has a float, and it loses no more bits than it must.     *)
LEMMA FloatsExist ==
    ASSUME NEW a \in Nat, NEW b \in Nat, b > 0
    PROVE  /\ Excess(a, b) \in Nat
           /\ Float(a, b) = RoundedDiv(a, b * 2 ^ Excess(a, b)) * 2 ^ Excess(a, b)
           /\ Float(a, b) \in Nat
           /\ \A j \in Nat : a < b * 2 ^ (Mantissa + j) => Excess(a, b) <= j
  <1> DEFINE K == 0..a
             k0 == Excess(a, b)
             Large == {k \in K : a < b * 2 ^ (Mantissa + k)}
  <1>0. Mantissa \in Nat
    BY OrderRequestsAssumption
  <1>1. a \in Large
    <2> DEFINE y == 2 ^ (Mantissa + a)
    <2>1. y \in Nat /\ 2 ^ Mantissa * (a + 1) <= y /\ 2 ^ Mantissa \in Nat /\ 2 ^ Mantissa >= 1
      BY <1>0, PowerOutgrows, PowerIsPositive
    <2> DEFINE x == 2 ^ Mantissa
    <2>2. x * (a + 1) <= y /\ x \in Nat /\ x >= 1
      BY <2>1
    <2> HIDE DEF x, y
    <2>3. x * (a + 1) >= a + 1
      BY <2>2
    <2>4. a < y
      BY <2>1, <2>2, <2>3
    <2>5. b * y >= y
      BY <2>1
    <2>6. a < b * y
      BY <2>1, <2>4, <2>5
    <2> QED BY <2>6 DEF y
  <1>2. PICK k \in Large : k = 0 \/ (k - 1 \in K /\ k - 1 \notin Large)
    <2>1. Large \in SUBSET (0..a)
      OBVIOUS
    <2> HIDE DEF Large
    <2> QED BY <1>1, <2>1, LeastExponent
  <1>3. k \in K /\ Fits(a, b, k)
    <2>1. ASSUME k # 0 PROVE a >= b * 2 ^ (Mantissa + k - 1)
      <3>1. k - 1 \in K /\ k - 1 \notin Large /\ Mantissa + (k - 1) = Mantissa + k - 1
        BY <1>0, <1>2, <2>1
      <3>2. 2 ^ (Mantissa + (k - 1)) \in Nat
        BY <1>0, <3>1, PowerIsPositive
      <3>3. b * 2 ^ (Mantissa + (k - 1)) \in Nat
        BY <3>2
      <3> QED BY <3>1, <3>3
    <2> QED BY <1>2, <2>1 DEF Fits
  <1>4. k0 \in K /\ Fits(a, b, k0)
    <2>1. \E x \in 0..a : Fits(a, b, x)
      BY <1>3
    <2>2. Excess(a, b) \in 0..a /\ Fits(a, b, Excess(a, b))
      BY <2>1, Zenon DEF Excess
    <2> QED BY <2>2
  <1>5. k0 \in Nat
    BY <1>4
  <1>6. Float(a, b) = RoundedDiv(a, b * 2 ^ k0) * 2 ^ k0
    BY DEF Float, Excess, Fits
  <1> HIDE DEF k0
  <1>7. Float(a, b) \in Nat
    <2> DEFINE x == 2 ^ k0
    <2>1. x \in Nat /\ x >= 1
      BY <1>5, PowerIsPositive
    <2> HIDE DEF x
    <2>2. b * x \in Nat /\ b * x > 0
      BY <2>1
    <2>3. RoundedDiv(a, b * x) \in Nat
      BY <2>2, RoundedDivIsClose
    <2>4. RoundedDiv(a, b * x) * x \in Nat
      BY <2>1, <2>3
    <2> QED BY <1>6, <2>4 DEF x
  <1>8. ASSUME NEW j \in Nat, a < b * 2 ^ (Mantissa + j) PROVE k0 <= j
    <2> SUFFICES ASSUME k0 > j PROVE FALSE
      BY <1>5
    <2>1. Mantissa + k0 - 1 \in Nat /\ Mantissa + j \in Nat /\ Mantissa + j <= Mantissa + k0 - 1
      BY <1>0, <1>5
    <2> DEFINE x == 2 ^ (Mantissa + j)
               y == 2 ^ (Mantissa + k0 - 1)
    <2>2. x <= y /\ x \in Nat /\ y \in Nat
      BY <2>1, PowersAreOrdered, PowerIsPositive
    <2>3. a >= b * y /\ a < b * x
      BY <1>4, <1>5, <1>8 DEF Fits
    <2> HIDE DEF x, y
    <2>4. b * x <= b * y /\ b * x \in Nat /\ b * y \in Nat
      BY <2>2
    <2> QED BY <2>3, <2>4
  <1> QED BY <1>5, <1>6, <1>7, <1>8 DEF k0

(* A quotient with no more bits than a float before its point is rounded   *)
(* to an integer.                                                          *)
LEMMA FloatRounds ==
    ASSUME NEW a \in Nat, NEW b \in Nat, b > 0, a < b * 2 ^ Mantissa
    PROVE  Float(a, b) = RoundedDiv(a, b)
  <1>1. Excess(a, b) = 0
    <2>1. Mantissa + 0 = Mantissa
      BY OrderRequestsAssumption
    <2> QED BY <2>1, FloatsExist
  <1>2. Float(a, b) = RoundedDiv(a, b * 2 ^ 0) * 2 ^ 0
    BY <1>1, FloatsExist
  <1>3. 2 ^ 0 = 1 /\ b * 1 = b
    BY PowerOfSeven
  <1>4. RoundedDiv(a, b) \in Nat
    BY RoundedDivIsClose
  <1>5. RoundedDiv(a, b) * 1 = RoundedDiv(a, b)
    BY <1>4
  <1> QED BY <1>2, <1>3, <1>5

(* What has no more bits than a float is kept as it is.                    *)
LEMMA FloatKeeps ==
    ASSUME NEW m \in Nat, m < 2 ^ Mantissa
    PROVE  Float(m, 1) = m
  <1>1. 1 * 2 ^ Mantissa = 2 ^ Mantissa /\ 1 \in Nat /\ 1 > 0
    BY OrderRequestsAssumption, PowerIsPositive
  <1>2. Float(m, 1) = RoundedDiv(m, 1)
    BY <1>1, FloatRounds
  <1>3. m \div 1 = m /\ m % 1 = 0
    OBVIOUS
  <1> QED BY <1>2, <1>3 DEF RoundedDiv

(* What has at most seven bits more is at most 64 off.                     *)
LEMMA FloatIsClose ==
    ASSUME NEW m \in Nat, m <= 100 * 2 ^ Mantissa
    PROVE  /\ Float(m, 1) \in Nat
           /\ m - 64 <= Float(m, 1) /\ Float(m, 1) <= m + 64
  <1>0. Mantissa \in Nat /\ 2 ^ Mantissa \in Nat /\ 2 ^ Mantissa >= 1 /\ 1 \in Nat /\ 1 > 0
    BY OrderRequestsAssumption, PowerIsPositive
  <1>1. m < 1 * 2 ^ (Mantissa + 7)
    <2>1. 2 ^ (Mantissa + 7) = 128 * 2 ^ Mantissa
      BY <1>0, PowerOfSeven
    <2> QED BY <1>0, <2>1
  <1> DEFINE k == Excess(m, 1)
             b == 2 ^ k
  <1>2. k \in Nat /\ k <= 7 /\ Float(m, 1) = RoundedDiv(m, 1 * b) * b /\ Float(m, 1) \in Nat
    BY <1>0, <1>1, FloatsExist
  <1> HIDE DEF k
  <1>3. b \in Nat /\ b >= 1 /\ b <= 128
    <2>1. b <= 2 ^ 7 /\ b \in Nat /\ b >= 1
      BY <1>2, PowersAreOrdered, PowerIsPositive
    <2> QED BY <2>1, PowerOfSeven
  <1> HIDE DEF b
  <1>4. 1 * b = b
    BY <1>3
  <1>5. /\ RoundedDiv(m, b) \in Nat
        /\ 2 * (RoundedDiv(m, b) * b) <= 2 * m + b
        /\ 2 * (RoundedDiv(m, b) * b) >= 2 * m - b
    <2>1. b > 0
      BY <1>3
    <2> QED BY <1>3, <2>1, RoundedDivIsClose
  <1>6. Float(m, 1) = RoundedDiv(m, b) * b
    BY <1>2, <1>4
  <1> QED BY <1>2, <1>3, <1>5, <1>6

-----------------------------------------------------------------------------
(***************************************************************************)
(* Prices.                                                                 *)
(***************************************************************************)

(* The prices that the proof is about: they leave three bits of a float.   *)
Prices == 1..(2 ^ (Mantissa - 3) - 1)

(* The powers of two around the prices.                                    *)
LEMMA PriceBounds ==
    /\ Mantissa \in Nat /\ Mantissa - 1 \in Nat
    /\ 2 ^ (Mantissa - 3) \in Nat /\ 2 ^ (Mantissa - 3) >= 1
    /\ 2 ^ (Mantissa - 1) = 4 * 2 ^ (Mantissa - 3) /\ 2 ^ Mantissa = 8 * 2 ^ (Mantissa - 3)
    /\ \A n \in Prices : n \in Nat /\ n >= 1 /\ n < 2 ^ (Mantissa - 3)
  <1>1. /\ Mantissa - 3 \in Nat /\ (Mantissa - 3) + 1 = Mantissa - 2
        /\ Mantissa - 2 \in Nat /\ (Mantissa - 2) + 1 = Mantissa - 1
        /\ Mantissa - 1 \in Nat /\ (Mantissa - 1) + 1 = Mantissa /\ Mantissa \in Nat
    BY OrderRequestsAssumption
  <1>2. 2 ^ (Mantissa - 3) \in Nat /\ 2 ^ (Mantissa - 3) >= 1
    BY <1>1, PowerIsPositive
  <1>3. /\ 2 ^ ((Mantissa - 3) + 1) = 2 * 2 ^ (Mantissa - 3)
        /\ 2 ^ ((Mantissa - 2) + 1) = 2 * 2 ^ (Mantissa - 2)
        /\ 2 ^ ((Mantissa - 1) + 1) = 2 * 2 ^ (Mantissa - 1)
    BY <1>1, PowerDoubles
  <1>4. /\ 2 ^ (Mantissa - 1) = 4 * 2 ^ (Mantissa - 3)
        /\ 2 ^ Mantissa = 8 * 2 ^ (Mantissa - 3)
    BY <1>1, <1>2, <1>3
  <1> QED BY <1>1, <1>2, <1>4 DEF Prices

(* Every price has a scale that brings it to the bits of a float.          *)
LEMMA ScaleFits ==
    ASSUME NEW n \in Nat, n >= 1
    PROVE  /\ Scale(n) \in Nat
           /\ 100 * Parts * 2 ^ (Mantissa - 1) <= n * 2 ^ Scale(n)
           /\ Scale(n) = 0 \/ n * 2 ^ (Scale(n) - 1) < 100 * Parts * 2 ^ (Mantissa - 1)
  <1> DEFINE top == Mantissa + Parts + 7
             E == 0..top
             c == 100 * Parts * 2 ^ (Mantissa - 1)
             Scales(e) == c <= n * 2 ^ e /\ (e = 0 \/ n * 2 ^ (e - 1) < c)
             Large == {e \in E : c <= n * 2 ^ e}
  <1>0. Parts \in Nat /\ Mantissa \in Nat /\ Mantissa - 1 \in Nat
    BY OrderRequestsAssumption
  <1>1. top \in Nat /\ c \in Nat
    <2>1. 2 ^ (Mantissa - 1) \in Nat
      BY <1>0, PowerIsPositive
    <2> QED BY <1>0, <2>1
  <1>2. top \in Large
    <2> DEFINE x == 2 ^ (Mantissa - 1)
               y == 2 ^ Mantissa
               z == 2 ^ (Mantissa + Parts)
               w == 2 ^ top
    <2>1. x \in Nat /\ y \in Nat /\ z \in Nat /\ w \in Nat
      BY <1>0, <1>1, PowerIsPositive
    <2>2. x <= y
      BY <1>0, PowersAreOrdered
    <2>3. y * (Parts + 1) <= z
      BY <1>0, PowerOutgrows
    <2>4. w = 128 * z
      BY <1>0, PowerOfSeven
    <2>5. c = 100 * (Parts * x)
      BY <1>0, <2>1
    <2> HIDE DEF x, y, z, w, c
    <2>6. y * (Parts + 1) = Parts * y + y /\ Parts * x <= Parts * y /\ Parts * x \in Nat /\ Parts * y \in Nat
      BY <1>0, <2>1, <2>2
    <2>7. c <= w
      BY <2>1, <2>3, <2>4, <2>5, <2>6
    <2>8. n * w >= w /\ n * w \in Nat
      BY <2>1
    <2>9. c <= n * w
      BY <1>1, <2>1, <2>7, <2>8
    <2> QED BY <1>1, <2>9 DEF w
  <1>3. PICK e \in Large : e = 0 \/ (e - 1 \in E /\ e - 1 \notin Large)
    <2>1. Large \in SUBSET (0..top)
      OBVIOUS
    <2> HIDE DEF Large, top
    <2> QED BY <1>1, <1>2, <2>1, LeastExponent
  <1>4. e \in E /\ Scales(e)
    <2>1. ASSUME e # 0 PROVE n * 2 ^ (e - 1) < c
      <3>1. e - 1 \in E /\ e - 1 \notin Large
        BY <1>3, <2>1
      <3>2. 2 ^ (e - 1) \in Nat
        BY <3>1, PowerIsPositive
      <3>3. n * 2 ^ (e - 1) \in Nat
        BY <3>2
      <3> HIDE DEF c
      <3> QED BY <1>1, <3>1, <3>3
    <2> QED BY <1>3, <2>1
  <1>5. Scale(n) = CHOOSE x \in E : Scales(x)
    BY DEF Scale
  <1>6. Scale(n) \in E /\ Scales(Scale(n))
    <2> HIDE DEF Scales, E
    <2> QED BY <1>4, <1>5
  <1>7. Scale(n) \in Nat
    BY <1>1, <1>6
  <1> QED BY <1>6, <1>7

(* Whatever the price, toMinorUnits makes a number of cents of it.         *)
LEMMA MinorUnitsAreCents ==
    ASSUME NEW n \in Nat, n >= 1
    PROVE  /\ Hundredfold(n) \in Nat
           /\ ToMinorUnits(n) \in Nat
  <1> DEFINE e == Scale(n)
             d == 2 ^ e
             c == 100 * Parts
  <1>1. e \in Nat /\ d \in Nat /\ d >= 1 /\ c \in Nat /\ c > 0
    <2>1. e \in Nat
      BY ScaleFits
    <2>2. d \in Nat /\ d >= 1
      BY <2>1, PowerIsPositive
    <2>3. c \in Nat /\ c > 0
      BY OrderRequestsAssumption
    <2> QED BY <2>1, <2>2, <2>3
  <1> HIDE DEF e, d, c
  <1>2. n * d \in Nat
    BY <1>1
  <1>3. Float(n * d, c) \in Nat
    BY <1>1, <1>2, FloatsExist
  <1>4. Float(100 * Float(n * d, c), 1) \in Nat
    <2>1. 100 * Float(n * d, c) \in Nat /\ 1 \in Nat /\ 1 > 0
      BY <1>3
    <2> QED BY <2>1, FloatsExist
  <1>5. Hundredfold(n) \in Nat
    BY <1>4 DEF Hundredfold, d, e, c
  <1>6. 2 * Hundredfold(n) + d \in Nat /\ 2 ^ (e + 1) = 2 * d
    BY <1>1, <1>5, PowerDoubles DEF d
  <1>7. (2 * Hundredfold(n) + d) \div (2 * d) \in Nat
    <2>1. 2 * d \in Nat /\ 2 * d > 0
      BY <1>1
    <2> QED BY <1>6, <2>1, OneQuotient
  <1>8. ToMinorUnits(n) = (2 * Hundredfold(n) + d) \div (2 * d)
    BY <1>6 DEF ToMinorUnits, d, e
  <1> QED BY <1>5, <1>7, <1>8

(* What the float arithmetic makes of a price is less than half of a part  *)
(* of a cent off: toMinorUnits finds a cent that is nearest to the price.  *)
LEMMA PricesAreNearest ==
    ASSUME NEW n \in Prices
    PROVE  2 * n \in ((2 * ToMinorUnits(n) - 1) * Parts)..((2 * ToMinorUnits(n) + 1) * Parts)
  <1> DEFINE e == Scale(n)
             d == 2 ^ e
             p == 2 ^ (Mantissa - 3)
             P == Parts
             c == 100 * P
             q == RoundedDiv(n * d, c)
             h == Hundredfold(n)
             u == ToMinorUnits(n)
  <1>1. /\ p \in Nat /\ p >= 1 /\ n \in Nat /\ n >= 1 /\ n < p
        /\ 2 ^ Mantissa = 8 * p /\ 2 ^ (Mantissa - 1) = 4 * p
        /\ P \in Nat /\ P >= 1
    <2>1. P \in Nat /\ P >= 1
      BY OrderRequestsAssumption
    <2> QED BY <2>1, PriceBounds
  <1>2. /\ e \in Nat /\ d \in Nat /\ d >= 1
        /\ c * (4 * p) <= n * d
        /\ e = 0 \/ n * 2 ^ (e - 1) < c * (4 * p)
    <2>1. e \in Nat /\ d \in Nat /\ d >= 1
      BY <1>1, ScaleFits, PowerIsPositive
    <2>2. c * 2 ^ (Mantissa - 1) <= n * d /\ (e = 0 \/ n * 2 ^ (e - 1) < c * 2 ^ (Mantissa - 1))
      BY <1>1, ScaleFits
    <2> QED BY <1>1, <2>1, <2>2
  <1>3. c \in Nat /\ c >= 100 /\ c > 0 /\ c * p \in Nat /\ c * (4 * p) = 4 * (c * p) /\ c * p >= 100 * p
    <2>1. c \in Nat /\ c >= 100
      BY <1>1
    <2> HIDE DEF c, p
    <2> QED BY <1>1, <2>1
  <1>4. n * d \in Nat /\ n * d < 8 * (c * p)
    <2>1. e # 0
      <3> SUFFICES ASSUME e = 0 PROVE FALSE
        OBVIOUS
      <3>1. d = 1
        BY PowerOfSeven
      <3>2. n * d = n
        BY <1>1, <3>1
      <3> HIDE DEF c, p, d
      <3> QED BY <1>1, <1>2, <1>3, <3>2
    <2> DEFINE x == 2 ^ (e - 1)
    <2>2. x \in Nat /\ d = 2 * x
      <3>1. e - 1 \in Nat /\ (e - 1) + 1 = e
        BY <1>2, <2>1
      <3> HIDE DEF e
      <3>2. 2 ^ ((e - 1) + 1) = 2 * 2 ^ (e - 1) /\ 2 ^ (e - 1) \in Nat
        BY <3>1, PowerDoubles, PowerIsPositive
      <3> QED BY <3>1, <3>2
    <2>3. n * x < 4 * (c * p)
      BY <1>2, <1>3, <2>1
    <2> HIDE DEF x, d, c, p
    <2>4. n * d = 2 * (n * x) /\ n * x \in Nat
      BY <1>1, <2>2
    <2> QED BY <1>3, <2>3, <2>4
  <1>5. d > 400 * P
    <2> HIDE DEF d, p
    <2> SUFFICES ASSUME d <= 400 * P PROVE FALSE
      BY <1>1, <1>2
    <2>1. 400 * P \in Nat /\ n * d <= n * (400 * P)
      BY <1>1, <1>2
    <2>2. (400 * P) * n < (400 * P) * p /\ n * (400 * P) = (400 * P) * n
      BY <1>1, <2>1
    <2>3. c * (4 * p) = (400 * P) * p
      BY <1>1
    <2>4. (400 * P) * n \in Nat /\ (400 * P) * p \in Nat
      BY <1>1, <2>1
    <2> HIDE DEF c
    <2> QED BY <1>2, <1>4, <2>1, <2>2, <2>3, <2>4
  <1>6. q \in Nat /\ 2 * (q * c) <= 2 * (n * d) + c /\ 2 * (q * c) >= 2 * (n * d) - c
    <2> HIDE DEF d, c
    <2> QED BY <1>3, <1>4, RoundedDivIsClose
  <1>7. Float(n * d, c) = q
    <2>1. c * 2 ^ Mantissa = 8 * (c * p)
      <3> HIDE DEF c, p
      <3> QED BY <1>1, <1>3
    <2>2. n * d < c * 2 ^ Mantissa
      BY <1>4, <2>1
    <2> HIDE DEF d, c
    <2> QED BY <1>3, <1>4, <2>2, FloatRounds
  <1>8. h = Float(100 * q, 1)
    BY <1>7 DEF Hundredfold
  <1>9. u = (2 * h + d) \div (2 * d)
    <2>1. 2 ^ (e + 1) = 2 * d
      BY <1>2, PowerDoubles
    <2> QED BY <2>1 DEF ToMinorUnits
  <1> HIDE DEF e, d, p, c, q, h, u
  <1>10. q <= 8 * p
    <2> SUFFICES ASSUME q >= 8 * p + 1 PROVE FALSE
      BY <1>1, <1>6
    <2>1. q * c >= (8 * p + 1) * c
      BY <1>1, <1>3, <1>6
    <2>2. (8 * p + 1) * c = 8 * (c * p) + c /\ q * c \in Nat
      BY <1>1, <1>3, <1>6
    <2> QED BY <1>3, <1>4, <1>6, <2>1, <2>2
  <1>11. h \in Nat /\ 100 * q - 64 <= h /\ h <= 100 * q + 64
    <2>1. 100 * q \in Nat /\ 100 * q <= 100 * 2 ^ Mantissa
      BY <1>1, <1>6, <1>10
    <2> QED BY <1>8, <2>1, FloatIsClose
  <1>12. 2 * (P * h) <= 2 * (n * d) + 228 * P /\ 2 * (P * h) >= 2 * (n * d) - 228 * P
    <2>1. q * c = P * (100 * q) /\ c = 100 * P /\ P * (100 * q) \in Nat
      BY <1>1, <1>6 DEF c
    <2>2. P * h <= P * (100 * q + 64) /\ P * h >= P * (100 * q - 64) /\ P * h \in Nat
      BY <1>1, <1>6, <1>11
    <2>3. /\ P * (100 * q + 64) = P * (100 * q) + 64 * P
          /\ P * (100 * q - 64) = P * (100 * q) - 64 * P
      BY <1>1, <1>6
    <2> QED BY <1>1, <1>4, <1>6, <2>1, <2>2, <2>3
  <1>13. /\ u \in Nat /\ u * (2 * d) <= 2 * h + d /\ 2 * h + d < u * (2 * d) + 2 * d
    <2>1. 2 * h + d \in Nat /\ 2 * d \in Nat /\ 2 * d > 0
      BY <1>2, <1>11
    <2> QED BY <1>9, <2>1, OneQuotient
  <1> DEFINE v == P * (u * (2 * d))
             w == P * d
  <1>14. /\ v \in Nat /\ w \in Nat /\ P * h \in Nat
         /\ v <= 2 * (P * h) + w /\ 2 * (P * h) + w < v + 2 * w
    <2> DEFINE y == u * (2 * d)
    <2>1. y \in Nat /\ y <= 2 * h + d /\ 2 * h + d < y + 2 * d
      BY <1>2, <1>13
    <2> HIDE DEF y
    <2>2. P * y <= P * (2 * h + d) /\ P * (2 * h + d) < P * (y + 2 * d)
      BY <1>1, <1>2, <1>11, <2>1
    <2>3. /\ P * (2 * h + d) = 2 * (P * h) + P * d /\ P * (y + 2 * d) = P * y + 2 * (P * d)
          /\ P * y \in Nat /\ P * d \in Nat /\ P * h \in Nat
      BY <1>1, <1>2, <1>11, <2>1
    <2> QED BY <2>2, <2>3 DEF y
  <1>15. ((2 * u - 1) * P) * d = v - w /\ ((2 * u + 1) * P) * d = v + w
    BY <1>1, <1>2, <1>13
  <1> HIDE DEF v, w, P
  <1> DEFINE lo == (2 * u - 1) * P
             hi == (2 * u + 1) * P
  <1>16. lo \in Int /\ hi \in Int /\ lo * d = v - w /\ hi * d = v + w /\ (2 * n) * d = 2 * (n * d)
    BY <1>1, <1>2, <1>13, <1>15
  <1> HIDE DEF lo, hi
  <1>17. lo <= 2 * n
    <2> SUFFICES ASSUME 2 * n <= lo - 1 PROVE FALSE
      BY <1>1, <1>16
    <2>1. (2 * n) * d <= (lo - 1) * d
      BY <1>1, <1>2, <1>16
    <2>2. (lo - 1) * d = lo * d - d
      BY <1>2, <1>16
    <2> QED BY <1>1, <1>2, <1>4, <1>5, <1>12, <1>14, <1>16, <2>1, <2>2
  <1>18. 2 * n <= hi
    <2> SUFFICES ASSUME 2 * n >= hi + 1 PROVE FALSE
      BY <1>1, <1>16
    <2>1. (2 * n) * d >= (hi + 1) * d
      BY <1>1, <1>2, <1>16
    <2>2. (hi + 1) * d = hi * d + d
      BY <1>2, <1>16
    <2> QED BY <1>1, <1>2, <1>4, <1>5, <1>12, <1>14, <1>16, <2>1, <2>2
  <1> QED BY <1>1, <1>16, <1>17, <1>18 DEF lo, hi, u, P

-----------------------------------------------------------------------------
(***************************************************************************)
(* The total of an order.                                                  *)
(***************************************************************************)

(* The last index of a part of a list is in it.                            *)
LEMMA LastIndex ==
    ASSUME NEW n \in Nat, NEW s \in SUBSET (1..n), s # {}
    PROVE  Max(s) \in s
  <1> DEFINE Back == {j \in 0..n : n - j \in s}
  <1>1. IsFiniteSet(Back) /\ Back \subseteq Int /\ Back # {}
    <2>1. PICK k \in s : TRUE
      OBVIOUS
    <2>2. n - k \in Back
      <3>1. k \in 1..n /\ n - (n - k) = k
        OBVIOUS
      <3> QED BY <2>1, <3>1
    <2>3. IsFiniteSet(0..n) /\ Back \subseteq 0..n
      BY FS_Interval
    <2>4. 0..n \subseteq Int
      OBVIOUS
    <2> HIDE DEF Back
    <2> QED BY <2>2, <2>3, <2>4, FS_Subset
  <1>2. PICK j \in Back : \A i \in Back : j <= i
    <2> HIDE DEF Back
    <2> QED BY <1>1, LeastElement
  <1>3. n - j \in s /\ \A k \in s : n - j >= k
    <2>1. ASSUME NEW k \in s PROVE n - j >= k
      <3>1. k \in 1..n /\ n - (n - k) = k /\ n - k \in 0..n
        OBVIOUS
      <3>2. n - k \in Back
        BY <3>1
      <3>3. j <= n - k /\ j \in 0..n
        BY <1>2, <3>2
      <3> QED BY <3>1, <3>3
    <2> QED BY <1>2, <2>1
  <1>4. \E x \in s : \A y \in s : x >= y
    BY <1>3
  <1> QED BY <1>4 DEF Max

(* One line of the order, and the table in which FoldLeft looks up what it *)
(* makes of the lines.                                                     *)
Amount(items) == [k \in DOMAIN items |-> UnitPrice(items[k]) * items[k].quantity]

Line(items, k, rest) == Float(rest + Float(UnitPrice(items[k]) * items[k].quantity, 1), 1)

IsTotals(items, it) ==
    it = [s \in SUBSET DOMAIN items |->
             IF s = {} THEN 0 ELSE Line(items, Max(s), it[s \ {Max(s)}])]

Totals(items) == CHOOSE it : IsTotals(items, it)

(* TotalAmount, as a function of the lines that it has added.              *)
LEMMA TotalIsLookedUp ==
    ASSUME NEW items
    PROVE  TotalAmount(items) = Totals(items)[DOMAIN items]
  BY DEF TotalAmount, FoldLeft, MapThenFoldSet, Totals, IsTotals, Line

(* While the sum fits a float, no line is rounded.                         *)
LEMMA TotalIsExact ==
    ASSUME NEW items, NEW n \in Nat, DOMAIN items = 1..n,
           \A k \in DOMAIN items : items[k].product.oid \in DOMAIN Price /\ items[k].quantity \in Nat,
           SumFunctionOnSet(Amount(items), DOMAIN items) < 2 ^ Mantissa
    PROVE  TotalAmount(items) = SumFunctionOnSet(Amount(items), DOMAIN items)
  <1> DEFINE D == DOMAIN items
             f == Amount(items)
             Total(s) == SumFunctionOnSet(f, s)
             sums == [s \in SUBSET D |-> Total(s)]
  <1>1. IsFiniteSet(D) /\ 2 ^ Mantissa \in Nat
    <2>1. IsFiniteSet(1..n)
      BY FS_Interval
    <2> QED BY <2>1, OrderRequestsAssumption, PowerIsPositive
  <1>2. ASSUME NEW k \in D
        PROVE  /\ f[k] = UnitPrice(items[k]) * items[k].quantity /\ f[k] \in Nat
    <2>1. Price[items[k].product.oid] \in Nat /\ Price[items[k].product.oid] >= 1
      BY OrderRequestsAssumption
    <2>2. UnitPrice(items[k]) \in Nat
      BY <2>1, MinorUnitsAreCents DEF UnitPrice
    <2> QED BY <2>2 DEF Amount
  <1>3. \A s \in SUBSET D : /\ IsFiniteSet(s)
                            /\ Total(s) \in Nat /\ Total(s) < 2 ^ Mantissa
    <2> SUFFICES ASSUME NEW s \in SUBSET D
                 PROVE  IsFiniteSet(s) /\ Total(s) \in Nat /\ Total(s) < 2 ^ Mantissa
      OBVIOUS
    <2>1. Total(s) \in Nat /\ Total(s) <= Total(D)
      <3> HIDE DEF f
      <3> QED BY <1>1, <1>2, SumOfPart
    <2>2. Total(D) \in Nat
      <3> HIDE DEF f
      <3>1. D \in SUBSET D
        OBVIOUS
      <3> QED BY <1>1, <1>2, <3>1, SumOfPart
    <2>3. IsFiniteSet(s)
      BY <1>1, FS_Subset
    <2> QED BY <1>1, <2>1, <2>2, <2>3
  <1>4. ASSUME NEW s \in SUBSET D, s # {}
        PROVE  /\ Max(s) \in s /\ s \ {Max(s)} \in SUBSET D
               /\ Line(items, Max(s), Total(s \ {Max(s)})) = Total(s)
    <2> DEFINE m == Max(s)
               r == s \ {m}
    <2>1. m \in s
      BY <1>4, LastIndex
    <2> HIDE DEF m
    <2>2. Total(s) = f[m] + Total(r)
      <3>1. \A x \in s : f[x] \in Int
        BY <1>2
      <3> HIDE DEF f
      <3> QED BY <1>3, <2>1, <3>1, SumTakesOut
    <2>3. f[m] \in Nat /\ Total(r) \in Nat /\ Total(s) < 2 ^ Mantissa /\ Total(s) \in Nat
      BY <1>2, <1>3, <2>1
    <2>4. f[m] = UnitPrice(items[m]) * items[m].quantity
      BY <1>2, <2>1
    <2> HIDE DEF f, Total
    <2>5. f[m] < 2 ^ Mantissa
      BY <1>1, <2>2, <2>3
    <2>6. Float(f[m], 1) = f[m]
      BY <2>3, <2>5, FloatKeeps
    <2>7. Float(Total(r) + f[m], 1) = Total(s)
      <3>1. Total(r) + f[m] = Total(s)
        BY <2>2, <2>3
      <3> QED BY <2>3, <3>1, FloatKeeps
    <2>8. Line(items, m, Total(r)) = Total(s)
      BY <2>4, <2>6, <2>7 DEF Line
    <2> QED BY <2>1, <2>8 DEF m
  <1>5. IsTotals(items, sums)
    <2>1. ASSUME NEW s \in SUBSET D
          PROVE  Total(s) = IF s = {} THEN 0 ELSE Line(items, Max(s), sums[s \ {Max(s)}])
      <3>1. CASE s = {}
        <4> HIDE DEF f
        <4> QED BY <3>1, SumEmpty
      <3>2. CASE s # {}
        <4>1. sums[s \ {Max(s)}] = Total(s \ {Max(s)})
          BY <1>4, <3>2
        <4> HIDE DEF Total, sums
        <4> QED BY <1>4, <3>2, <4>1
      <3> QED BY <3>1, <3>2
    <2>2. sums = [s \in SUBSET D |->
                     IF s = {} THEN 0 ELSE Line(items, Max(s), sums[s \ {Max(s)}])]
      BY <2>1
    <2> HIDE DEF sums
    <2> QED BY <2>2 DEF IsTotals
  <1>6. IsTotals(items, Totals(items))
    BY <1>5 DEF Totals
  <1> DEFINE it == Totals(items)
             Good == {s \in SUBSET D : it[s] = Total(s)}
  <1>7. ASSUME NEW s \in SUBSET D, \A u \in SUBSET s : u # s => u \in Good
        PROVE  s \in Good
    <2>1. it[s] = IF s = {} THEN 0 ELSE Line(items, Max(s), it[s \ {Max(s)}])
      BY <1>6 DEF IsTotals
    <2>2. CASE s = {}
      <3>1. Total({}) = 0
        <4> HIDE DEF f
        <4> QED BY SumEmpty
      <3> QED BY <2>1, <2>2, <3>1
    <2>3. CASE s # {}
      <3>1. Max(s) \in s /\ Line(items, Max(s), Total(s \ {Max(s)})) = Total(s)
        BY <1>4, <2>3
      <3>2. it[s \ {Max(s)}] = Total(s \ {Max(s)})
        BY <1>7, <3>1
      <3> HIDE DEF it, Total
      <3> QED BY <2>1, <2>3, <3>1, <3>2
    <2> QED BY <2>2, <2>3
  <1>8. SUBSET D \subseteq Good
    <2> HIDE DEF Good, D
    <2> QED BY <1>1, <1>7, SubsetInduction
  <1>9. D \in SUBSET D
    OBVIOUS
  <1> QED BY <1>8, <1>9, TotalIsLookedUp

-----------------------------------------------------------------------------
(***************************************************************************)
(* The lists of items and the order in which they are hashed.              *)
(***************************************************************************)
Item == [product : [oid : Nat, spelling : {"lower", "upper"}], quantity : Int]
Items(list) == {list[k] : k \in DOMAIN list}

(* A list as the request has it, with no product string twice. *)
Distinct(list) ==
    /\ list \in Seq(Item)
    /\ \A i, j \in DOMAIN list : list[i].product = list[j].product => i = j

(* UniqueProductIdsConstraint: as many strings as items means that no two  *)
(* of them are the same.                                                   *)
LEMMA UniqueIdsAreDistinct ==
    ASSUME NEW list \in Seq(Item), UniqueProductIds(list)
    PROVE  Distinct(list)
  <1> DEFINE D == DOMAIN list
             f == [k \in D |-> list[k].product]
  <1>1. D = 1..Len(list) /\ Len(list) \in Nat /\ IsFiniteSet(D) /\ Cardinality(D) = Len(list)
    <2>1. D = 1..Len(list) /\ Len(list) \in Nat
      OBVIOUS
    <2>2. IsFiniteSet(1..Len(list))
          /\ Cardinality(1..Len(list)) = IF 1 > Len(list) THEN 0 ELSE Len(list) - 1 + 1
      BY <2>1, FS_Interval
    <2> QED BY <2>1, <2>2
  <1>2. f \in Surjection(D, ProductStrings(list))
    BY DEF ProductStrings, Surjection
  <1>3. Cardinality(ProductStrings(list)) = Cardinality(D)
    BY <1>1 DEF UniqueProductIds
  <1>4. f \in Injection(D, ProductStrings(list))
    <2> HIDE DEF f, D
    <2> QED BY <1>1, <1>2, <1>3, FS_Surjection
  <1>5. \A i, j \in D : list[i].product = list[j].product => i = j
    BY <1>4 DEF Injection, IsInjective
  <1> QED BY <1>5 DEF Distinct

(* Of two products that differ, one comes first.                           *)
LEMMA BeforeIsTotal ==
    /\ \A i \in Item : ~Before(i, i)
    /\ \A i, j \in Item : Before(i, j) => ~Before(j, i) /\ i.product # j.product
    /\ \A i, j \in Item : i.product # j.product => Before(i, j) \/ Before(j, i)
    /\ \A i, j, k \in Item : Before(i, j) /\ Before(j, k) => Before(i, k)
  <1>1. \A i \in Item : i.product.oid \in Nat /\ i.product.spelling \in {"lower", "upper"}
    BY DEF Item
  <1>2. \A i, j \in Item :
            i.product.oid = j.product.oid /\ i.product.spelling = j.product.spelling
                => i.product = j.product
    BY DEF Item
  <1>3. \A i, j \in Item : Before(i, j) => ~Before(j, i) /\ i.product # j.product
    BY <1>1 DEF Before
  <1>4. \A i, j, k \in Item : Before(i, j) /\ Before(j, k) => Before(i, k)
    BY <1>1 DEF Before
  <1> QED BY <1>1, <1>2, <1>3, <1>4 DEF Before

(* An order that sort() may leave the items in, and that there is one:     *)
(* every item has its place behind those that come before it.              *)
IsOrder(list, p) ==
    /\ p \in Bijection(DOMAIN list, DOMAIN list)
    /\ \A i, j \in DOMAIN list : i < j => ~Before(list[p[j]], list[p[i]])

(* Distinct items can be sorted: each goes where its rank says.            *)
LEMMA AnOrderExists ==
    ASSUME NEW list, Distinct(list)
    PROVE  \E p : IsOrder(list, p)
  <1> DEFINE D == DOMAIN list
             Earlier(k) == {j \in D : Before(list[j], list[k])}
             rank == [k \in D |-> Cardinality(Earlier(k)) + 1]
  <1>0. Len(list) \in Nat /\ D = 1..Len(list) /\ \A k \in D : list[k] \in Item
    BY DEF Distinct
  <1>1. IsFiniteSet(D) /\ Cardinality(D) = Len(list)
    <2>1. IsFiniteSet(1..Len(list))
          /\ Cardinality(1..Len(list)) = IF 1 > Len(list) THEN 0 ELSE Len(list) - 1 + 1
      BY <1>0, FS_Interval
    <2> QED BY <1>0, <2>1
  <1>2. ASSUME NEW T \in SUBSET D, NEW k \in D \ T
        PROVE  /\ IsFiniteSet(T) /\ IsFiniteSet(T \cup {k})
               /\ Cardinality(T) \in Nat /\ Cardinality(T \cup {k}) = Cardinality(T) + 1
    <2>1. IsFiniteSet(T)
      BY <1>1, FS_Subset
    <2> QED BY <2>1, FS_AddElement, FS_CardinalityType
  <1>3. rank \in [D -> D]
    <2>1. ASSUME NEW k \in D PROVE Cardinality(Earlier(k)) + 1 \in D
      <3>1. Earlier(k) \in SUBSET D /\ k \in D \ Earlier(k)
        BY <1>0, BeforeIsTotal
      <3>2. Earlier(k) \cup {k} \subseteq D
        OBVIOUS
      <3> HIDE DEF Earlier, D
      <3>3. Cardinality(Earlier(k) \cup {k}) = Cardinality(Earlier(k)) + 1 /\ Cardinality(Earlier(k)) \in Nat
        BY <1>2, <3>1
      <3>4. Cardinality(Earlier(k) \cup {k}) <= Len(list)
        BY <1>1, <3>2, FS_Subset
      <3> QED BY <1>0, <3>3, <3>4
    <2> QED BY <2>1
  <1>4. ASSUME NEW j \in D, NEW k \in D, Before(list[j], list[k])
        PROVE  rank[j] < rank[k]
    <2>1. Earlier(j) \cup {j} \subseteq Earlier(k)
      BY <1>0, <1>4, BeforeIsTotal
    <2>2. Earlier(j) \in SUBSET D /\ j \in D \ Earlier(j) /\ Earlier(k) \subseteq D
      BY <1>0, BeforeIsTotal
    <2>3. rank[j] = Cardinality(Earlier(j)) + 1 /\ rank[k] = Cardinality(Earlier(k)) + 1
      OBVIOUS
    <2> HIDE DEF Earlier, D, rank
    <2>4. Cardinality(Earlier(j) \cup {j}) = Cardinality(Earlier(j)) + 1 /\ Cardinality(Earlier(j)) \in Nat
      BY <1>2, <2>2
    <2>5. IsFiniteSet(Earlier(k)) /\ Cardinality(Earlier(k)) \in Nat
      BY <1>1, <2>2, FS_Subset, FS_CardinalityType
    <2>6. Cardinality(Earlier(j) \cup {j}) <= Cardinality(Earlier(k))
      BY <2>1, <2>5, FS_Subset
    <2> QED BY <2>3, <2>4, <2>5, <2>6
  <1> HIDE DEF rank
  <1>5. \A j, k \in D : rank[j] = rank[k] => j = k
    <2> SUFFICES ASSUME NEW j \in D, NEW k \in D, j # k PROVE rank[j] # rank[k]
      OBVIOUS
    <2>1. list[j].product # list[k].product
      BY DEF Distinct
    <2>2. Before(list[j], list[k]) \/ Before(list[k], list[j])
      BY <1>0, <2>1, BeforeIsTotal
    <2>3. rank[j] < rank[k] \/ rank[k] < rank[j]
      BY <1>4, <2>2
    <2>4. rank[j] \in Nat /\ rank[k] \in Nat
      BY <1>0, <1>3
    <2> QED BY <2>3, <2>4
  <1>6. rank \in Injection(D, D)
    BY <1>3, <1>5 DEF Injection, IsInjective
  <1>7. rank \in Surjection(D, D)
    <2> HIDE DEF D
    <2> QED BY <1>1, <1>6, FS_Injection
  <1>8. \A i \in D : \E k \in D : rank[k] = i
    BY <1>7 DEF Surjection
  <1> DEFINE p == [i \in D |-> CHOOSE k \in D : rank[k] = i]
  <1>9. \A i \in D : p[i] \in D /\ rank[p[i]] = i
    BY <1>8
  <1>10. p \in [D -> D]
    BY <1>9
  <1> HIDE DEF p
  <1>11. p \in Bijection(D, D)
    <2>1. \A i, j \in D : p[i] = p[j] => i = j
      BY <1>9
    <2>2. \A k \in D : \E i \in D : p[i] = k
      <3> SUFFICES ASSUME NEW k \in D PROVE p[rank[k]] = k /\ rank[k] \in D
        OBVIOUS
      <3> QED BY <1>3, <1>5, <1>9
    <2> QED BY <1>10, <2>1, <2>2 DEF Bijection, Injection, Surjection, IsInjective
  <1>12. \A i, j \in D : i < j => ~Before(list[p[j]], list[p[i]])
    <2> SUFFICES ASSUME NEW i \in D, NEW j \in D, i < j, Before(list[p[j]], list[p[i]]) PROVE FALSE
      OBVIOUS
    <2>1. rank[p[j]] < rank[p[i]]
      BY <1>4, <1>9
    <2> QED BY <1>0, <1>9, <2>1
  <1> QED BY <1>11, <1>12 DEF IsOrder

(* So the sorted list has the items of the list, in their only order.      *)
LEMMA SortedList ==
    ASSUME NEW list, Distinct(list)
    PROVE  /\ DOMAIN Sorted(list) = DOMAIN list
           /\ Items(Sorted(list)) = Items(list)
           /\ \A i, j \in DOMAIN list : i < j => Before(Sorted(list)[i], Sorted(list)[j])
  <1> DEFINE D == DOMAIN list
             place == CHOOSE p \in Bijection(D, D) :
                          \A i, j \in D : i < j => ~Before(list[p[j]], list[p[i]])
  <1>0. D = 1..Len(list) /\ Len(list) \in Nat /\ \A k \in D : list[k] \in Item
    BY DEF Distinct
  <1>1. IsOrder(list, place)
    <2>1. \E p \in Bijection(D, D) : \A i, j \in D : i < j => ~Before(list[p[j]], list[p[i]])
      BY AnOrderExists DEF IsOrder
    <2> QED BY <2>1 DEF IsOrder
  <1>2. Sorted(list) = [i \in D |-> list[place[i]]]
    BY DEF Sorted
  <1> HIDE DEF place
  <1>3. /\ place \in [D -> D] /\ \A i, j \in D : place[i] = place[j] => i = j
        /\ \A k \in D : \E i \in D : place[i] = k
    BY <1>1 DEF IsOrder, Bijection, Injection, Surjection, IsInjective
  <1>4. Items(Sorted(list)) = Items(list)
    BY <1>2, <1>3 DEF Items
  <1>5. ASSUME NEW i \in D, NEW j \in D, i < j PROVE Before(Sorted(list)[i], Sorted(list)[j])
    <2>1. place[i] \in D /\ place[j] \in D /\ place[i] # place[j]
      BY <1>0, <1>3, <1>5
    <2>2. list[place[i]].product # list[place[j]].product
      BY <2>1 DEF Distinct
    <2>3. ~Before(list[place[j]], list[place[i]])
      BY <1>1, <1>5 DEF IsOrder
    <2>4. Before(list[place[i]], list[place[j]])
      BY <1>0, <2>1, <2>2, <2>3, BeforeIsTotal
    <2> QED BY <1>2, <2>4
  <1> QED BY <1>2, <1>4, <1>5

(* Where one of two sorted lists with the same items has one that comes    *)
(* after what the other has in its place, the other has no place for it.   *)
LEMMA SortedComesFirst ==
    ASSUME NEW n \in Nat, NEW s, NEW t, DOMAIN s = 1..n, DOMAIN t = 1..n,
           Items(s) = Items(t), Items(s) \subseteq Item,
           \A i, j \in 1..n : i < j => Before(s[i], s[j]) /\ Before(t[i], t[j]),
           NEW m \in 1..n, \A k \in 1..n : k < m => s[k] = t[k], s[m] # t[m]
    PROVE  Before(t[m], s[m])
  <1>1. s[m] \in Items(t)
    BY DEF Items
  <1>2. PICK k \in 1..n : t[k] = s[m]
    BY <1>1 DEF Items
  <1>3. s[m] \in Item /\ t[m] \in Item
    BY DEF Items
  <1>4. CASE k < m
    <2>1. Before(s[k], s[m]) /\ s[k] = s[m]
      BY <1>2, <1>4
    <2> QED BY <1>3, <2>1, BeforeIsTotal
  <1>5. CASE k > m
    BY <1>2, <1>5
  <1> QED BY <1>2, <1>4, <1>5

(* Lists with the same items are sorted into the same list.                *)
LEMMA SortedIsUnique ==
    ASSUME NEW a, Distinct(a), NEW b, Distinct(b), Len(a) = Len(b), Items(a) = Items(b)
    PROVE  Sorted(a) = Sorted(b)
  <1> DEFINE n == Len(a)
             s == Sorted(a)
             t == Sorted(b)
             Differ == {i \in 1..n : s[i] # t[i]}
  <1>1. n \in Nat /\ DOMAIN a = 1..n /\ DOMAIN b = 1..n /\ Items(a) \subseteq Item
    BY DEF Distinct, Items
  <1>2. /\ DOMAIN s = 1..n /\ DOMAIN t = 1..n /\ Items(s) = Items(t) /\ Items(s) \subseteq Item
        /\ \A i, j \in 1..n : i < j => Before(s[i], s[j]) /\ Before(t[i], t[j])
    BY <1>1, SortedList
  <1>3. s = [i \in 1..n |-> s[i]] /\ t = [i \in 1..n |-> t[i]]
    BY <1>1 DEF Sorted
  <1> HIDE DEF n, s, t
  <1>4. CASE Differ = {}
    BY <1>3, <1>4 DEF s, t
  <1>5. CASE Differ # {}
    <2>1. IsFiniteSet(Differ) /\ Differ \subseteq Int
      <3>1. IsFiniteSet(1..n) /\ 1..n \subseteq Int /\ Differ \subseteq 1..n
        BY <1>1, FS_Interval
      <3> HIDE DEF Differ
      <3> QED BY <3>1, FS_Subset
    <2>2. PICK m \in Differ : \A i \in Differ : m <= i
      <3> HIDE DEF Differ
      <3> QED BY <1>5, <2>1, LeastElement
    <2>3. m \in 1..n /\ s[m] # t[m] /\ \A k \in 1..n : k < m => s[k] = t[k]
      BY <1>1, <2>2
    <2>4. Before(t[m], s[m])
      BY <1>1, <1>2, <2>3, SortedComesFirst
    <2>5. Before(s[m], t[m])
      <3>1. /\ Items(t) = Items(s) /\ Items(t) \subseteq Item
            /\ \A i, j \in 1..n : i < j => Before(t[i], t[j]) /\ Before(s[i], s[j])
            /\ t[m] # s[m] /\ \A k \in 1..n : k < m => t[k] = s[k]
        BY <1>2, <2>3
      <3> HIDE DEF Differ
      <3> QED BY <1>1, <1>2, <2>3, <3>1, SortedComesFirst
    <2>6. s[m] \in Item /\ t[m] \in Item
      BY <1>2, <2>3 DEF Items
    <2> QED BY <2>4, <2>5, <2>6, BeforeIsTotal
  <1> QED BY <1>4, <1>5

-----------------------------------------------------------------------------
(***************************************************************************)
(* Requests and their meaning.                                             *)
(***************************************************************************)

(* What the orders come from: a body that passed the validation.           *)
LEMMA ValidItems ==
    ASSUME NEW q \in Request, ValidBody(q)
    PROVE  /\ Distinct(q.items) /\ q.items \in Seq(Item)
           /\ Len(q.items) = Cardinality(ProductStrings(q.items))
           /\ \A k \in DOMAIN q.items : q.items[k].quantity \in Nat
  <1>1. q.items \in Seq(Item)
    BY OrderRequestsAssumption DEF Request, Item
  <1>2. \A k \in DOMAIN q.items : q.items[k].quantity \in Nat
    BY OrderRequestsAssumption DEF ValidBody
  <1> QED BY <1>1, <1>2, UniqueIdsAreDistinct DEF ValidBody, UniqueProductIds

(* An item is its product and quantity, a product its id and spelling.     *)
LEMMA ItemsAreTheirFields ==
    ASSUME NEW i \in Item, NEW j \in Item, i.product.spelling = j.product.spelling,
           i.product.oid = j.product.oid, i.quantity = j.quantity
    PROVE  i = j
  <1>1. i.product = j.product
    BY DEF Item
  <1> QED BY <1>1 DEF Item

(* The fingerprint keeps what the customer means ...                       *)
LEMMA FingerprintsKeepMeaning ==
    ASSUME NEW q \in Request, ValidBody(q), NEW r \in Request, ValidBody(r),
           Fingerprint(q) = Fingerprint(r)
    PROVE  Meaning(q) = Meaning(r)
  <1>1. q.customer = r.customer /\ q.address.text = r.address.text
        /\ Sorted(q.items) = Sorted(r.items)
    BY DEF Fingerprint
  <1>2. Items(q.items) = Items(r.items)
    BY <1>1, ValidItems, SortedList
  <1>3. \A list : {[product |-> list[k].product.oid, quantity |-> list[k].quantity] : k \in DOMAIN list}
                = {[product |-> item.product.oid, quantity |-> item.quantity] : item \in Items(list)}
    BY DEF Items
  <1> HIDE DEF Items
  <1>4. {[product |-> q.items[k].product.oid, quantity |-> q.items[k].quantity] : k \in DOMAIN q.items}
            = {[product |-> r.items[k].product.oid, quantity |-> r.items[k].quantity] : k \in DOMAIN r.items}
    BY <1>2, <1>3
  <1> QED BY <1>1, <1>4 DEF Meaning

(* ... and nothing else than that and the spelling of the ids.             *)
LEMMA MeaningsAreFingerprinted ==
    ASSUME NEW q \in Request, ValidBody(q), NEW r \in Request, ValidBody(r),
           ProductsKnown(r.items), Meaning(q) = Meaning(r), q.customer = r.customer,
           ProductStrings(q.items) = ProductStrings(r.items)
    PROVE  Fingerprint(q) = Fingerprint(r)
  <1> DEFINE What(list) == {[product |-> list[k].product.oid, quantity |-> list[k].quantity] : k \in DOMAIN list}
  <1>1. Meaning(q).address = Meaning(r).address /\ Meaning(q).items = Meaning(r).items
    OBVIOUS
  <1>2. q.address.text = r.address.text /\ What(q.items) = What(r.items)
    BY <1>1 DEF Meaning
  <1>3. \A k \in DOMAIN r.items : r.items[k] \in Item /\ r.items[k].product.spelling = Canonical
    BY ValidItems DEF ProductsKnown
  <1>4. \A k \in DOMAIN q.items : q.items[k] \in Item /\ q.items[k].product.spelling = Canonical
    <2>1. \A k \in DOMAIN q.items : q.items[k] \in Item
      BY ValidItems
    <2>2. ASSUME NEW k \in DOMAIN q.items PROVE q.items[k].product.spelling = Canonical
      <3>1. q.items[k].product \in ProductStrings(r.items)
        BY DEF ProductStrings
      <3> QED BY <1>3, <3>1 DEF ProductStrings
    <2> QED BY <2>1, <2>2
  <1>5. ASSUME NEW i \in Item, NEW j \in Item, i.product.spelling = j.product.spelling,
               i.product.oid = j.product.oid, i.quantity = j.quantity
        PROVE  i = j
    BY <1>5, ItemsAreTheirFields
  <1>6. Items(q.items) = Items(r.items)
    <2>1. ASSUME NEW k \in DOMAIN q.items PROVE q.items[k] \in Items(r.items)
      <3>1. [product |-> q.items[k].product.oid, quantity |-> q.items[k].quantity] \in What(r.items)
        BY <1>2
      <3>2. PICK l \in DOMAIN r.items : /\ r.items[l].product.oid = q.items[k].product.oid
                                        /\ r.items[l].quantity = q.items[k].quantity
        BY <3>1
      <3>3. q.items[k] = r.items[l]
        BY <1>3, <1>4, <1>5, <3>2
      <3> QED BY <3>3 DEF Items
    <2>2. ASSUME NEW k \in DOMAIN r.items PROVE r.items[k] \in Items(q.items)
      <3>1. [product |-> r.items[k].product.oid, quantity |-> r.items[k].quantity] \in What(q.items)
        BY <1>2
      <3>2. PICK l \in DOMAIN q.items : /\ q.items[l].product.oid = r.items[k].product.oid
                                        /\ q.items[l].quantity = r.items[k].quantity
        BY <3>1
      <3>3. r.items[k] = q.items[l]
        BY <1>3, <1>4, <1>5, <3>2
      <3> QED BY <3>3 DEF Items
    <2> QED BY <2>1, <2>2 DEF Items
  <1>7. Sorted(q.items) = Sorted(r.items)
    <2>1. Distinct(q.items) /\ Distinct(r.items) /\ Len(q.items) = Len(r.items)
      BY ValidItems
    <2> QED BY <1>6, <2>1, SortedIsUnique
  <1> QED BY <1>2, <1>7 DEF Fingerprint

-----------------------------------------------------------------------------
(***************************************************************************)
(* The invariant.                                                          *)
(***************************************************************************)

(* What every order has kept of the request that made it.                  *)
OrderIsFounded(o) ==
    /\ o.id \in 1..handled
    /\ o.request \in Request /\ ValidBody(o.request) /\ ProductsKnown(o.request.items)
    /\ o.customer = o.request.customer.oid /\ o.key = o.request.header.key
    /\ o.fingerprint = Fingerprint(o.request)
    /\ o.unitPrices = [k \in DOMAIN o.request.items |-> UnitPrice(o.request.items[k])]
    /\ o.totalAmount = TotalAmount(o.request.items)

(* An order is found by its id, and by its customer and key.               *)
OrdersAreDistinct ==
    \A o, p \in orders :
        o.id = p.id \/ (o.customer = p.customer /\ o.key = p.key) => o = p

(* What the last answer says of the order that it found or made.           *)
ReplyIsFounded ==
    /\ reply.code \in {"ACCEPTED", "IDEMPOTENCY_KEY_REUSED"} => WellFormed
    /\ reply.code = "ACCEPTED" =>
           \E o \in orders : o.id = reply.order /\ o.fingerprint = Fingerprint(asked)
    /\ reply.code = "IDEMPOTENCY_KEY_REUSED" =>
           \A o \in Existing : o.fingerprint # Fingerprint(asked)

RequestsInv ==
    /\ handled \in Nat /\ asked \in Request
    /\ \A o \in orders : OrderIsFounded(o)
    /\ OrdersAreDistinct
    /\ ReplyIsFounded

(* An answer that leaves the orders as they are.                           *)
LEMMA OrdersStay ==
    ASSUME RequestsInv, UNCHANGED orders, handled' \in {handled, handled + 1}
    PROVE  /\ handled' \in Nat /\ OrdersAreDistinct'
           /\ \A o \in orders' : OrderIsFounded(o)'
  <1>1. handled' \in Nat /\ 1..handled \subseteq 1..handled'
    BY DEF RequestsInv
  <1> QED BY <1>1 DEF RequestsInv, OrdersAreDistinct, OrderIsFounded

(* A refusal leaves the orders, and promises nothing.                      *)
LEMMA RefusalIsSafe ==
    ASSUME RequestsInv, NEW code, Refuse(code), code \notin {"ACCEPTED", "IDEMPOTENCY_KEY_REUSED"}
    PROVE  RequestsInv'
  <1>1. /\ UNCHANGED <<orders, asked>> /\ handled' = handled + 1 /\ reply'.code = code
    BY DEF Refuse, Reply
  <1>2. ReplyIsFounded'
    BY <1>1 DEF ReplyIsFounded
  <1> QED BY <1>1, <1>2, OrdersStay DEF RequestsInv

(* A replay leaves the orders, and its answer is about the one it found.   *)
LEMMA ReplayIsSafe ==
    ASSUME RequestsInv, Replay
    PROVE  RequestsInv'
  <1>1. PICK o \in Existing :
            IF o.fingerprint = Fingerprint(asked) THEN Reply("ACCEPTED", o.id) /\ UNCHANGED orders
            ELSE Refuse("IDEMPOTENCY_KEY_REUSED")
    BY DEF Replay
  <1>2. UNCHANGED <<orders, asked>> /\ handled' = handled + 1 /\ WellFormed /\ o \in orders
    BY <1>1 DEF Replay, Refuse, Reply, Existing
  <1>3. WellFormed' /\ Existing' = Existing /\ Fingerprint(asked)' = Fingerprint(asked)
    BY <1>2 DEF WellFormed, HeaderError, ValidBody, Existing, Fingerprint
  <1>4. CASE o.fingerprint = Fingerprint(asked)
    <2>1. reply'.code = "ACCEPTED" /\ reply'.order = o.id
      BY <1>1, <1>4 DEF Reply
    <2>2. ReplyIsFounded'
      BY <1>2, <1>3, <1>4, <2>1 DEF ReplyIsFounded
    <2> QED BY <1>2, <2>2, OrdersStay DEF RequestsInv
  <1>5. CASE o.fingerprint # Fingerprint(asked)
    <2>1. reply'.code = "IDEMPOTENCY_KEY_REUSED"
      BY <1>1, <1>5 DEF Refuse, Reply
    <2>2. \A p \in Existing : p = o
      BY DEF Existing, RequestsInv, OrdersAreDistinct
    <2>3. ReplyIsFounded'
      BY <1>3, <1>5, <2>1, <2>2 DEF ReplyIsFounded
    <2> QED BY <1>2, <2>3, OrdersStay DEF RequestsInv
  <1> QED BY <1>4, <1>5

(* An accepted request has valid items, all of them known.                 *)
LEMMA AcceptIsSafe ==
    ASSUME RequestsInv, Accept
    PROVE  RequestsInv'
  <1> DEFINE new == [id |-> handled + 1, key |-> asked.header.key, customer |-> asked.customer.oid,
                     fingerprint |-> Fingerprint(asked), request |-> asked,
                     unitPrices |-> [k \in DOMAIN asked.items |-> UnitPrice(asked.items[k])],
                     totalAmount |-> TotalAmount(asked.items)]
  <1>1. /\ orders' = orders \cup {new} /\ UNCHANGED asked /\ handled' = handled + 1
        /\ reply'.code = "ACCEPTED" /\ reply'.order = handled + 1
        /\ WellFormed /\ Existing = {} /\ ProductsKnown(asked.items)
    BY DEF Accept, New, Reply
  <1>2. handled \in Nat /\ handled' \in Nat /\ asked' \in Request
    BY <1>1 DEF RequestsInv
  <1>3. ASSUME NEW o \in orders'
        PROVE  /\ o.id \in 1..handled'
               /\ o.request \in Request /\ ValidBody(o.request) /\ ProductsKnown(o.request.items)
               /\ o.customer = o.request.customer.oid /\ o.key = o.request.header.key
               /\ o.fingerprint = Fingerprint(o.request)
               /\ o.unitPrices = [k \in DOMAIN o.request.items |-> UnitPrice(o.request.items[k])]
               /\ o.totalAmount = TotalAmount(o.request.items)
    <2>1. CASE o \in orders
      <3>1. OrderIsFounded(o) /\ 1..handled \subseteq 1..handled'
        BY <1>1, <1>2, <2>1 DEF RequestsInv
      <3> QED BY <3>1 DEF OrderIsFounded
    <2>2. CASE o = new
      BY <1>1, <1>2, <2>2 DEF WellFormed, RequestsInv
    <2> QED BY <1>1, <2>1, <2>2
  <1>4. \A o \in orders' : OrderIsFounded(o)'
    BY <1>3 DEF OrderIsFounded
  <1>5. \A o \in orders : o.id # new.id /\ ~(o.customer = new.customer /\ o.key = new.key)
    <2> SUFFICES ASSUME NEW o \in orders
                 PROVE  o.id # new.id /\ ~(o.customer = new.customer /\ o.key = new.key)
      OBVIOUS
    <2>1. o.id \in 1..handled
      BY DEF RequestsInv, OrderIsFounded
    <2>2. ~(o.customer = asked.customer.oid /\ o.key = asked.header.key)
      BY <1>1 DEF Existing
    <2> QED BY <1>2, <2>1, <2>2
  <1>6. OrdersAreDistinct'
    <2> HIDE DEF new
    <2> QED BY <1>1, <1>5 DEF OrdersAreDistinct, RequestsInv
  <1>7. WellFormed' /\ Fingerprint(asked)' = Fingerprint(asked)
    BY <1>1 DEF WellFormed, HeaderError, ValidBody, Fingerprint
  <1>8. ReplyIsFounded'
    <2>1. new \in orders' /\ new.id = reply'.order /\ new.fingerprint = Fingerprint(asked)
      BY <1>1
    <2> QED BY <1>1, <1>7, <2>1 DEF ReplyIsFounded
  <1> QED BY <1>2, <1>4, <1>6, <1>8 DEF RequestsInv

(* Every request and every answer keeps the invariant.                     *)
LEMMA RequestsStep == RequestsInv /\ [RequestsNext]_requestVars => RequestsInv'
  <1> SUFFICES ASSUME RequestsInv, [RequestsNext]_requestVars PROVE RequestsInv'
    OBVIOUS
  <1>1. CASE UNCHANGED requestVars
    <2>1. OrdersAreDistinct' /\ handled' \in Nat /\ \A o \in orders' : OrderIsFounded(o)'
      BY <1>1, OrdersStay DEF requestVars
    <2>2. ReplyIsFounded'
      BY <1>1 DEF requestVars, RequestsInv, ReplyIsFounded, WellFormed, HeaderError, ValidBody,
                  Existing, Fingerprint
    <2> QED BY <1>1, <2>1, <2>2 DEF requestVars, RequestsInv
  <1>2. CASE NextRequest
    <2>1. UNCHANGED <<orders, handled>> /\ asked' \in Request /\ reply'.code = "none"
      BY <1>2 DEF NextRequest, NoReply
    <2>2. ReplyIsFounded'
      BY <2>1 DEF ReplyIsFounded
    <2> QED BY <2>1, <2>2, OrdersStay DEF RequestsInv
  <1>3. CASE RejectMalformed
    <2>1. HeaderError(asked) \in {"IDEMPOTENCY_KEY_REQUIRED", "IDEMPOTENCY_KEY_TOO_LONG", "none"}
      BY DEF HeaderError
    <2> QED BY <1>3, <2>1, RefusalIsSafe DEF RejectMalformed
  <1>4. CASE Replay
    BY <1>4, ReplayIsSafe
  <1>5. CASE NoCustomer \/ NoProducts \/ NoCoordinates
    BY <1>5, RefusalIsSafe DEF NoCustomer, NoProducts, NoCoordinates
  <1>6. CASE Accept
    BY <1>6, AcceptIsSafe
  <1> QED BY <1>1, <1>2, <1>3, <1>4, <1>5, <1>6 DEF RequestsNext, HandleRequest

(* The invariant is one.                                                   *)
LEMMA RequestsAlways == RequestsSpec => []RequestsInv
  <1>1. RequestsInit => RequestsInv
    BY DEF RequestsInit, RequestsInv, NoReply, OrdersAreDistinct, ReplyIsFounded
  <1> QED BY <1>1, RequestsStep, PTL DEF RequestsSpec

-----------------------------------------------------------------------------
(***************************************************************************)
(* Theorems.                                                               *)
(***************************************************************************)

(* toMinorUnits: for every price that leaves three bits of a float to      *)
(* spare, Math.round finds a cent that is nearest to the price, whatever   *)
(* JSON.parse and the multiplication by 100 did to it; a price in whole    *)
(* cents is found again.                                                   *)
THEOREM MinorUnitsAreNearest ==
    \A n \in 1..(2 ^ (Mantissa - 3) - 1) :
        /\ 2 * n \in ((2 * ToMinorUnits(n) - 1) * Parts)..((2 * ToMinorUnits(n) + 1) * Parts)
        /\ \A cents \in Nat : n = cents * Parts => ToMinorUnits(n) = cents
  <1> SUFFICES ASSUME NEW n \in Prices
               PROVE  /\ 2 * n \in ((2 * ToMinorUnits(n) - 1) * Parts)..((2 * ToMinorUnits(n) + 1) * Parts)
                      /\ \A cents \in Nat : n = cents * Parts => ToMinorUnits(n) = cents
    BY DEF Prices
  <1> DEFINE u == ToMinorUnits(n)
             P == Parts
  <1>1. u \in Nat /\ P \in Nat /\ P >= 1 /\ n \in Nat
    BY PriceBounds, MinorUnitsAreCents, OrderRequestsAssumption
  <1>2. 2 * n \in ((2 * u - 1) * P)..((2 * u + 1) * P)
    BY PricesAreNearest
  <1> HIDE DEF u, P
  <1>3. ASSUME NEW cents \in Nat, n = cents * P PROVE u = cents
    <2>1. 2 * n = (2 * cents) * P /\ (2 * cents) * P \in Int
      BY <1>1, <1>3
    <2>2. ASSUME u >= cents + 1 PROVE FALSE
      <3>1. (2 * u - 1) * P >= (2 * cents + 1) * P
        BY <1>1, <2>2
      <3>2. (2 * cents + 1) * P = (2 * cents) * P + P
        BY <1>1
      <3> QED BY <1>1, <1>2, <2>1, <3>1, <3>2
    <2>3. ASSUME cents >= u + 1 PROVE FALSE
      <3>1. (2 * u + 1) * P <= (2 * cents - 1) * P
        BY <1>1, <2>3
      <3>2. (2 * cents - 1) * P = (2 * cents) * P - P
        BY <1>1
      <3> QED BY <1>1, <1>2, <2>1, <3>1, <3>2
    <2> QED BY <1>1, <2>2, <2>3
  <1> QED BY <1>2, <1>3 DEF u, P

(* No order names a product twice, in whatever spelling: the constraint of *)
(* the body and the comparison with the catalog make sure of it together.  *)
THEOREM OrdersNameProductsOnce == RequestsSpec => []ProductsAreDistinct
  <1>1. ASSUME RequestsInv PROVE ProductsAreDistinct
    <2> SUFFICES ASSUME NEW o \in orders
                 PROVE  Cardinality({o.request.items[k].product.oid : k \in DOMAIN o.request.items})
                            = Len(o.request.items)
      BY DEF ProductsAreDistinct
    <2> DEFINE items == o.request.items
               D == DOMAIN items
               oids == {items[k].product.oid : k \in D}
               f == [k \in D |-> items[k].product.oid]
    <2>1. /\ Distinct(items) /\ \A k \in D : items[k] \in Item
          /\ \A k \in D : items[k].product.spelling = Canonical
      <3>1. /\ o.request \in Request /\ ValidBody(o.request)
            /\ \A k \in DOMAIN o.request.items : o.request.items[k].product.spelling = Canonical
        BY <1>1 DEF RequestsInv, OrderIsFounded, ProductsKnown
      <3> QED BY <3>1, ValidItems
    <2> HIDE DEF items
    <2>2. \A k, l \in D : items[k].product.oid = items[l].product.oid => k = l
      <3>1. \A i, j \in Item : i.product.spelling = j.product.spelling /\ i.product.oid = j.product.oid
                                   => i.product = j.product
        BY DEF Item
      <3> QED BY <2>1, <3>1 DEF Distinct
    <2>3. f \in Surjection(D, oids) /\ f \in Injection(D, oids)
      BY <2>2 DEF Surjection, Injection, IsInjective
    <2>4. D = 1..Len(items) /\ Len(items) \in Nat
      BY <2>1 DEF Distinct
    <2>5. IsFiniteSet(D) /\ Cardinality(D) = Len(items)
      <3>1. IsFiniteSet(1..Len(items))
            /\ Cardinality(1..Len(items)) = IF 1 > Len(items) THEN 0 ELSE Len(items) - 1 + 1
        BY <2>4, FS_Interval
      <3> QED BY <2>4, <3>1
    <2>6. Cardinality(oids) = Len(items)
      <3> HIDE DEF f, oids, D
      <3> QED BY <2>3, <2>5, FS_Surjection
    <2> QED BY <2>6 DEF items
  <1> QED BY <1>1, RequestsAlways, PTL

(* fingerprintRequest: a 202 names an order that means what was asked, and *)
(* a key is called reused only for another meaning or spelling.            *)
THEOREM RepliesAreMeant == RequestsSpec => []RepliesMatchMeaning
  <1>1. ASSUME RequestsInv PROVE RepliesMatchMeaning
    <2>1. ASSUME NEW o \in orders, reply.code = "ACCEPTED", reply.order = o.id
          PROVE  Meaning(o.request) = Meaning(asked)
      <3>1. PICK p \in orders : p.id = reply.order /\ p.fingerprint = Fingerprint(asked)
        BY <1>1, <2>1 DEF RequestsInv, ReplyIsFounded
      <3>2. p = o
        BY <1>1, <2>1, <3>1 DEF RequestsInv, OrdersAreDistinct
      <3>3. asked \in Request /\ ValidBody(asked)
        BY <1>1, <2>1 DEF RequestsInv, ReplyIsFounded, WellFormed
      <3>4. o.request \in Request /\ ValidBody(o.request) /\ o.fingerprint = Fingerprint(o.request)
        BY <1>1 DEF RequestsInv, OrderIsFounded
      <3> QED BY <3>1, <3>2, <3>3, <3>4, FingerprintsKeepMeaning
    <2>2. ASSUME NEW o \in orders, reply.code = "IDEMPOTENCY_KEY_REUSED", o \in Existing,
                 Meaning(o.request) = Meaning(asked),
                 <<o.request.customer, ProductStrings(o.request.items)>>
                     = <<asked.customer, ProductStrings(asked.items)>>
          PROVE  FALSE
      <3>1. asked \in Request /\ ValidBody(asked) /\ o.fingerprint # Fingerprint(asked)
        BY <1>1, <2>2 DEF RequestsInv, ReplyIsFounded, WellFormed
      <3>2. /\ o.request \in Request /\ ValidBody(o.request) /\ ProductsKnown(o.request.items)
            /\ o.fingerprint = Fingerprint(o.request)
        BY <1>1 DEF RequestsInv, OrderIsFounded
      <3>3. Fingerprint(asked) = Fingerprint(o.request)
        BY <2>2, <3>1, <3>2, MeaningsAreFingerprinted
      <3> QED BY <3>1, <3>2, <3>3
    <2> QED BY <2>1, <2>2 DEF RepliesMatchMeaning
  <1> QED BY <1>1, RequestsAlways, PTL

(* Money is rounded once, whatever the floats do: an order keeps for every *)
(* line a cent nearest to the catalog price, if that leaves three bits of  *)
(* a float, and every total that fits a float is exactly the sum of those  *)
(* cents times the quantities.                                             *)
THEOREM MoneyIsAlwaysRoundedOnce == RequestsSpec => []MoneyIsRoundedOnce
  <1>1. ASSUME RequestsInv PROVE MoneyIsRoundedOnce
    <2>1. ASSUME NEW o \in orders
          PROVE  /\ Len(o.request.items) \in Nat /\ DOMAIN o.request.items = 1..Len(o.request.items)
                 /\ \A k \in DOMAIN o.request.items :
                        /\ o.request.items[k].product.oid \in DOMAIN Price
                        /\ o.request.items[k].quantity \in Nat
                        /\ o.unitPrices[k] = UnitPrice(o.request.items[k])
                 /\ o.totalAmount = TotalAmount(o.request.items)
                 /\ [k \in DOMAIN o.request.items |-> o.unitPrices[k] * o.request.items[k].quantity]
                       = Amount(o.request.items)
      <3>1. OrderIsFounded(o) /\ o.request \in Request /\ ValidBody(o.request)
        BY <1>1 DEF RequestsInv, OrderIsFounded
      <3>2. \A k \in DOMAIN o.request.items : o.unitPrices[k] = UnitPrice(o.request.items[k])
        BY <3>1 DEF OrderIsFounded
      <3> QED BY <3>1, <3>2, ValidItems DEF OrderIsFounded, ProductsKnown, Amount
    <2>2. ASSUME NEW o \in orders, NEW k \in DOMAIN o.request.items,
                 Price[o.request.items[k].product.oid] < 2 ^ (Mantissa - 3)
          PROVE  2 * Price[o.request.items[k].product.oid]
                     \in ((2 * o.unitPrices[k] - 1) * Parts)..((2 * o.unitPrices[k] + 1) * Parts)
      <3> DEFINE price == Price[o.request.items[k].product.oid]
      <3>1. o.unitPrices[k] = ToMinorUnits(price) /\ price \in Nat \ {0}
        BY <2>1, OrderRequestsAssumption DEF UnitPrice
      <3>2. price \in Prices
        BY <2>2, <3>1, PriceBounds DEF Prices
      <3> HIDE DEF price
      <3>3. 2 * price \in ((2 * ToMinorUnits(price) - 1) * Parts)..((2 * ToMinorUnits(price) + 1) * Parts)
        BY <3>2, PricesAreNearest
      <3> QED BY <3>1, <3>3 DEF price
    <2>3. ASSUME NEW o \in orders,
                 SumFunctionOnSet(Amount(o.request.items), DOMAIN o.request.items) < 2 ^ Mantissa
          PROVE  o.totalAmount = SumFunctionOnSet(Amount(o.request.items), DOMAIN o.request.items)
      <3> DEFINE items == o.request.items
      <3>1. /\ Len(items) \in Nat /\ DOMAIN items = 1..Len(items)
            /\ \A k \in DOMAIN items :
                   items[k].product.oid \in DOMAIN Price /\ items[k].quantity \in Nat
            /\ o.totalAmount = TotalAmount(items)
        BY <2>1
      <3> HIDE DEF items
      <3>2. TotalAmount(items) = SumFunctionOnSet(Amount(items), DOMAIN items)
        BY <2>3, <3>1, TotalIsExact DEF items
      <3> QED BY <3>1, <3>2 DEF items
    <2> QED BY <2>1, <2>2, <2>3 DEF MoneyIsRoundedOnce
  <1> QED BY <1>1, RequestsAlways, PTL
=============================================================================

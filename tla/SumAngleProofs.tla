--------------------------- MODULE SumAngleProofs ---------------------------
(* Theorems about SumAngle: what is written to sumangle.txt is read back,   *)
(* by induction over the digits, and the odometer on disk never loses any   *)
(* of the way the axis goes.                                                *)
EXTENDS SumAngle, WellFoundedInduction, SequenceTheorems, TLAPS

-----------------------------------------------------------------------------
(* Induction over data: the library's induction theorems take a predicate,   *)
(* these a set.                                                              *)

\* A set of naturals has a least element.
LEMMA LeastNatural ==
    ASSUME NEW S \in SUBSET Nat, S # {}
    PROVE  \E m \in S : \A n \in S : m <= n
<1> DEFINE R == OpToRel(<, Nat)
<1>1. IsWellFoundedOn(R, Nat)
  BY NatLessThanWellFounded
<1>2. \E x \in S : \A y \in S : <<y, x>> \notin R
  <2> HIDE DEF R
  <2> QED BY <1>1, WFMin
<1>3. \A x, y \in Nat : <<y, x>> \notin R => x <= y
  BY DEF OpToRel
<1> QED BY <1>2, <1>3

\* A set with 0 and the successor of each of its elements has all naturals.
LEMMA SetInduction ==
    ASSUME NEW S \in SUBSET Nat, 0 \in S, \A n \in S : n + 1 \in S
    PROVE  S = Nat
<1>1. SUFFICES ASSUME Nat \ S # {} PROVE FALSE
  OBVIOUS
<1>2. PICK m \in Nat \ S : \A n \in Nat \ S : m <= n
  <2> DEFINE T == Nat \ S
  <2>1. T \in SUBSET Nat /\ T # {}
    BY <1>1
  <2> HIDE DEF T
  <2>2. \E m \in T : \A n \in T : m <= n
    BY <2>1, LeastNatural
  <2> QED BY <2>2 DEF T
<1>3. m # 0 /\ m - 1 \in Nat
  BY <1>2
<1>4. m - 1 \in S
  BY <1>2, <1>3
<1> QED BY <1>2, <1>3, <1>4

\* A function on the naturals that begins with b and goes on with the step G.
Recurs(S, b, G) ==
    \E h \in [Nat -> S] : h[0] = b /\ \A n \in Nat : h[n + 1] = G[n][h[n]]

\* Primitive recursion: every first value and every step make a function.
LEMMA Recursion ==
    ASSUME NEW S, NEW b \in S, NEW G \in [Nat -> [S -> S]]
    PROVE  Recurs(S, b, G)
<1> DEFINE Upto(g, n) == g[0] = b /\ \A i \in Nat : i < n => g[i + 1] = G[i][g[i]]
           Done == {n \in Nat : \E g \in [Nat -> S] : Upto(g, n)}
           Same(g, h) == {i \in Nat : \A n \in Nat : Upto(g, n) /\ Upto(h, n) /\ i <= n => g[i] = h[i]}
<1>1. \A n \in Nat : \E g \in [Nat -> S] : Upto(g, n)
  <2>1. 0 \in Done
    <3>1. [i \in Nat |-> b] \in [Nat -> S] /\ Upto([i \in Nat |-> b], 0)
      OBVIOUS
    <3> QED BY <3>1
  <2>2. ASSUME NEW n \in Done PROVE n + 1 \in Done
    <3>1. n \in Nat
      OBVIOUS
    <3>2. PICK g \in [Nat -> S] : Upto(g, n)
      OBVIOUS
    <3> DEFINE h == [g EXCEPT ![n + 1] = G[n][g[n]]]
    <3>3. h \in [Nat -> S]
      BY <3>1
    <3>4. h[0] = b
      BY <3>1, <3>2
    <3>5. ASSUME NEW i \in Nat, i < n + 1 PROVE h[i + 1] = G[i][h[i]]
      <4>1. CASE i = n
        BY <4>1, <3>1
      <4>2. CASE i < n
        BY <4>2, <3>1, <3>2
      <4> QED BY <4>1, <4>2, <3>5, <3>1
    <3> HIDE DEF h
    <3>6. Upto(h, n + 1)
      BY <3>4, <3>5
    <3> QED BY <3>1, <3>3, <3>6
  <2>3. Done \in SUBSET Nat
    OBVIOUS
  <2>4. Done = Nat
    <3> HIDE DEF Done
    <3> QED BY <2>1, <2>2, <2>3, SetInduction
  <2> QED BY <2>4
<1>2. ASSUME NEW g \in [Nat -> S], NEW h \in [Nat -> S]
      PROVE  Same(g, h) = Nat
  <2>1. 0 \in Same(g, h)
    OBVIOUS
  <2>2. ASSUME NEW i \in Same(g, h) PROVE i + 1 \in Same(g, h)
    <3>1. /\ i \in Nat
          /\ \A n \in Nat : Upto(g, n) /\ Upto(h, n) /\ i <= n => g[i] = h[i]
      <4> HIDE DEF Upto
      <4> QED OBVIOUS
    <3>2. ASSUME NEW n \in Nat, Upto(g, n), Upto(h, n), i + 1 <= n
          PROVE  g[i + 1] = h[i + 1]
      <4>1. i <= n /\ i < n
        BY <3>1, <3>2
      <4>2. g[i] = h[i]
        <5> HIDE DEF Upto
        <5> QED BY <3>1, <3>2, <4>1
      <4>3. g[i + 1] = G[i][g[i]] /\ h[i + 1] = G[i][h[i]]
        BY <3>1, <3>2, <4>1
      <4> QED BY <4>2, <4>3
    <3> HIDE DEF Upto
    <3> QED BY <3>1, <3>2
  <2>3. Same(g, h) \in SUBSET Nat
    OBVIOUS
  <2> DEFINE T == Same(g, h)
  <2> HIDE DEF Same
  <2>4. 0 \in T /\ T \in SUBSET Nat /\ \A i \in T : i + 1 \in T
    BY <2>1, <2>2, <2>3
  <2>5. T = Nat
    <3> HIDE DEF T
    <3> QED BY <2>4, SetInduction
  <2> QED BY <2>5
<1> DEFINE F == [n \in Nat |-> CHOOSE g \in [Nat -> S] : Upto(g, n)]
           h == [n \in Nat |-> F[n][n]]
<1>3. \A n \in Nat : F[n] \in [Nat -> S] /\ Upto(F[n], n)
  <2> HIDE DEF Upto
  <2> QED BY <1>1
<1>4. h \in [Nat -> S]
  <2> HIDE DEF F
  <2> QED BY <1>3
<1>5. h[0] = b
  <2> HIDE DEF F
  <2> QED BY <1>3
<1>6. ASSUME NEW n \in Nat PROVE h[n + 1] = G[n][h[n]]
  <2> DEFINE f == F[n]
             g == F[n + 1]
  <2>1. f \in [Nat -> S] /\ Upto(f, n) /\ g \in [Nat -> S] /\ Upto(g, n + 1)
    <3> HIDE DEF Upto, F
    <3>1. n + 1 \in Nat
      OBVIOUS
    <3> QED BY <1>3, <3>1
  <2>2. h[n] = f[n] /\ h[n + 1] = g[n + 1]
    OBVIOUS
  <2> HIDE DEF f, g, h
  <2>3. Upto(g, n)
    BY <2>1
  <2>4. n \in Same(f, g)
    <3> HIDE DEF Same
    <3> QED BY <1>2, <2>1
  <2>5. f[n] = g[n]
    <3> HIDE DEF Upto
    <3>1. n <= n
      OBVIOUS
    <3> QED BY <2>1, <2>3, <2>4, <3>1
  <2> QED BY <2>1, <2>2, <2>5
<1> HIDE DEF h
<1> QED BY <1>4, <1>5, <1>6 DEF Recurs

-----------------------------------------------------------------------------
(* The powers of the radix *)

\* Power satisfies its equation, and outgrows its argument.
LEMMA PowerEquation ==
    /\ Power[0] = 1
    /\ \A k \in Nat : Power[k] \in Nat /\ Power[k + 1] = Base * Power[k]
<1> DEFINE Eq(f) == [k \in Nat |-> IF k = 0 THEN 1 ELSE Base * f[k - 1]]
           G == [n \in Nat |-> [x \in Nat |-> Base * x]]
<1>1. Base \in Nat
  BY SumAngleAssumption
<1>2. G \in [Nat -> [Nat -> Nat]]
  BY <1>1
<1>3. PICK h \in [Nat -> Nat] : h[0] = 1 /\ \A n \in Nat : h[n + 1] = G[n][h[n]]
  <2>1. 1 \in Nat
    OBVIOUS
  <2> HIDE DEF G
  <2>2. Recurs(Nat, 1, G)
    BY <1>2, <2>1, Recursion
  <2> QED BY <2>2 DEF Recurs
<1>4. \A n \in Nat : h[n + 1] = Base * h[n]
  BY <1>3
<1>5. h = Eq(h)
  <2>1. \A k \in Nat : h[k] = Eq(h)[k]
    <3> TAKE k \in Nat
    <3>1. CASE k = 0
      BY <1>3, <3>1
    <3>2. CASE k # 0
      <4>1. k - 1 \in Nat /\ (k - 1) + 1 = k
        BY <3>2
      <4>2. h[(k - 1) + 1] = Base * h[k - 1]
        BY <1>4, <4>1
      <4> QED BY <3>2, <4>1, <4>2
    <3> QED BY <3>1, <3>2
  <2> QED BY <1>3, <2>1
<1>6. Power = Eq(Power)
  <2>1. \E f : f = Eq(f)
    BY <1>5
  <2> QED BY <2>1 DEF Power
<1>7. Power[0] = 1 /\ \A k \in Nat : Power[k + 1] = Base * Power[k]
  <2>1. \A k \in Nat : Power[k] = IF k = 0 THEN 1 ELSE Base * Power[k - 1]
    BY <1>6
  <2>2. \A k \in Nat : k + 1 \in Nat /\ k + 1 # 0 /\ (k + 1) - 1 = k
    OBVIOUS
  <2> QED BY <2>1, <2>2
<1>8. \A k \in Nat : Power[k] \in Nat
  <2> DEFINE T == {k \in Nat : Power[k] \in Nat}
  <2>1. 0 \in T /\ T \in SUBSET Nat /\ \A k \in T : k + 1 \in T
    BY <1>1, <1>7
  <2>2. T = Nat
    <3> HIDE DEF T
    <3> QED BY <2>1, SetInduction
  <2> QED BY <2>2
<1> QED BY <1>7, <1>8

\* A power is greater than its exponent, and the powers grow with it.
LEMMA PowerGrows ==
    /\ \A k \in Nat : k < Power[k]
    /\ \A j, k \in Nat : j <= k => Power[j] <= Power[k]
<1>1. \A p \in Nat : p > 0 => Base * p >= p + 1
  BY SumAngleAssumption
<1>2. \A k \in Nat : k < Power[k]
  <2> DEFINE T == {k \in Nat : k < Power[k]}
  <2>1. 0 \in T /\ T \in SUBSET Nat
    BY PowerEquation
  <2>2. ASSUME NEW k \in T PROVE k + 1 \in T
    <3>1. k \in Nat /\ Power[k] \in Nat /\ k < Power[k]
      BY PowerEquation
    <3>2. Power[k + 1] >= Power[k] + 1
      BY <1>1, <3>1, PowerEquation
    <3>3. Power[k + 1] \in Nat
      BY <3>1, PowerEquation
    <3> QED BY <3>1, <3>2, <3>3
  <2>3. T = Nat
    <3> HIDE DEF T
    <3> QED BY <2>1, <2>2, SetInduction
  <2> QED BY <2>3
<1>3. ASSUME NEW j \in Nat PROVE \A k \in Nat : j <= k => Power[j] <= Power[k]
  <2> DEFINE T == {d \in Nat : Power[j] <= Power[j + d]}
  <2>1. 0 \in T /\ T \in SUBSET Nat
    BY PowerEquation
  <2>2. ASSUME NEW d \in T PROVE d + 1 \in T
    <3>1. d \in Nat /\ j + d \in Nat /\ (j + d) + 1 = j + (d + 1) /\ Power[j] <= Power[j + d]
      OBVIOUS
    <3>2. Power[j + d] \in Nat /\ Power[j] \in Nat /\ Power[(j + d) + 1] \in Nat
          /\ Power[j + d] > 0
      BY <1>2, <3>1, PowerEquation
    <3>3. Power[(j + d) + 1] >= Power[j + d] + 1
      BY <1>1, <3>1, <3>2, PowerEquation
    <3> QED BY <3>1, <3>2, <3>3
  <2>3. T = Nat
    <3> HIDE DEF T
    <3> QED BY <2>1, <2>2, SetInduction
  <2>4. \A k \in Nat : j <= k => k - j \in T /\ j + (k - j) = k
    <3> HIDE DEF T
    <3> QED BY <2>3
  <2> QED BY <2>4
<1> QED BY <1>2, <1>3

-----------------------------------------------------------------------------
(* Division *)

\* What quotient and remainder are to each other.
LEMMA Division ==
    ASSUME NEW m \in Nat \ {0}, NEW n \in Nat
    PROVE  n \div m \in Nat /\ n % m \in 0..(m - 1) /\ n = m * (n \div m) + (n % m)
<1>1. n \div m \in Nat /\ n % m \in 0..(m - 1)
  OBVIOUS
<1>2. n = m * (n \div m) + (n % m)
  OBVIOUS
<1> QED BY <1>1, <1>2

\* Only one quotient has a remainder in range.
LEMMA OneQuotient ==
    ASSUME NEW m \in Nat \ {0}, NEW p \in Int, NEW q \in Int,
           NEW r \in 0..(m - 1), NEW s \in 0..(m - 1), m * p + r = m * q + s
    PROVE  p = q
<1>1. m * (p - q) = s - r
  OBVIOUS
<1>2. ~(p - q >= 1)
  <2>1. ASSUME p - q >= 1 PROVE m * (p - q) >= m
    BY <2>1
  <2> QED BY <1>1, <2>1
<1>3. ~(p - q <= -1)
  <2>1. ASSUME p - q <= -1 PROVE m * (p - q) <= -m
    BY <2>1
  <2> QED BY <1>1, <2>1
<1> QED BY <1>2, <1>3

\* To divide by a product is to divide by one factor and then by the other.
LEMMA DivisionByProduct ==
    ASSUME NEW a \in Nat \ {0}, NEW b \in Nat \ {0}, NEW n \in Nat
    PROVE  n \div (b * a) = (n \div a) \div b
<1> DEFINE q == n \div a
           r == n % a
           s == q \div b
           t == q % b
           u == n \div (b * a)
           w == n % (b * a)
<1>1. b * a \in Nat \ {0}
  OBVIOUS
<1>2. q \in Nat /\ r \in 0..(a - 1) /\ n = a * q + r
  BY Zenon, Division
<1>3. s \in Nat /\ t \in 0..(b - 1) /\ q = b * s + t
  BY Zenon, <1>2, Division
<1>4. u \in Nat /\ w \in 0..(b * a - 1) /\ n = (b * a) * u + w
  BY Zenon, <1>1, Division
<1> HIDE DEF q, r, s, t, u, w
<1>5. a * t + r \in 0..(b * a - 1)
  <2>1. t \in Nat /\ b - 1 - t \in Nat /\ r \in Nat /\ a - 1 - r \in Nat
    BY <1>2, <1>3
  <2>2. a * t \in Nat /\ a * (b - 1 - t) \in Nat
    BY <2>1
  <2>3. a * (b - 1 - t) = b * a - a - a * t
    BY <2>1
  <2> QED BY <1>1, <2>1, <2>2, <2>3
<1>6. n = (b * a) * s + (a * t + r)
  <2>1. a * (b * s + t) = (b * a) * s + a * t
    BY <1>3
  <2>2. n = a * (b * s + t) + r
    BY <1>2, <1>3
  <2>3. a * t \in Int /\ r \in Int /\ (b * a) * s \in Int
    BY <1>2, <1>3
  <2> QED BY <2>1, <2>2, <2>3
<1>7. u = s
  <2> DEFINE m == b * a
             v == a * t + r
  <2>1. m * u + w = m * s + v
    BY <1>4, <1>6
  <2>2. /\ m \in Nat \ {0} /\ u \in Int /\ s \in Int
        /\ w \in 0..(m - 1) /\ v \in 0..(m - 1)
    BY <1>1, <1>3, <1>4, <1>5
  <2> HIDE DEF m, v
  <2> QED BY <2>1, <2>2, OneQuotient
<1> QED BY <1>7 DEF q, s, u

-----------------------------------------------------------------------------
(* The text of a number *)

\* Every number has a width: its power is greater, the one before is not.
LEMMA WidthFits ==
    ASSUME NEW n \in Nat
    PROVE  /\ Width(n) \in Nat \ {0} /\ n < Power[Width(n)]
           /\ Width(n) = 1 \/ Power[Width(n) - 1] <= n
<1> DEFINE T == {k \in Nat \ {0} : n < Power[k]}
<1>1. n + 1 \in T
  <2>1. n + 1 < Power[n + 1] /\ Power[n + 1] \in Nat
    BY PowerEquation, PowerGrows
  <2> QED BY <2>1
<1>2. PICK k \in T : \A j \in T : k <= j
  <2>1. T \in SUBSET Nat /\ T # {}
    BY <1>1
  <2> HIDE DEF T
  <2> QED BY <2>1, LeastNatural
<1>3. k \in 1..(n + 1) /\ n < Power[k]
  BY <1>1, <1>2
<1>4. k = 1 \/ Power[k - 1] <= n
  <2>1. SUFFICES ASSUME k # 1 PROVE Power[k - 1] <= n
    OBVIOUS
  <2>2. k - 1 \in Nat \ {0} /\ Power[k - 1] \in Nat
    BY <1>3, <2>1, PowerEquation
  <2>3. k - 1 \notin T
    <3> HIDE DEF T
    <3> QED BY <1>2, <1>3
  <2> QED BY <2>2, <2>3
<1>5. Width(n) \in 1..(n + 1) /\ n < Power[Width(n)]
      /\ (Width(n) = 1 \/ Power[Width(n) - 1] <= n)
  BY <1>3, <1>4, Zenon DEF Width
<1> QED BY <1>5

\* A greater number is not shorter.
LEMMA WidthGrows ==
    ASSUME NEW m \in Nat, NEW n \in Nat, m <= n
    PROVE  Width(m) <= Width(n)
<1> DEFINE j == Width(m)
           k == Width(n)
<1>1. j \in Nat \ {0} /\ k \in Nat \ {0} /\ n < Power[k] /\ (j = 1 \/ Power[j - 1] <= m)
  BY WidthFits
<1> HIDE DEF j, k
<1>2. SUFFICES ASSUME j > k PROVE FALSE
  BY <1>1 DEF j, k
<1>3. j - 1 \in Nat /\ k <= j - 1 /\ j # 1
  BY <1>1, <1>2
<1>4. Power[k] <= Power[j - 1] /\ Power[k] \in Nat /\ Power[j - 1] \in Nat
  BY <1>1, <1>3, PowerEquation, PowerGrows
<1> QED BY <1>1, <1>3, <1>4

\* ValueOf reads digit by digit.
LEMMA ValueEquation ==
    ASSUME NEW t \in Seq(0..(Base - 1))
    PROVE  \E v \in [Nat -> Nat] : /\ v[0] = 0 /\ ValueOf(t) = v[Len(t)]
                                   /\ \A i \in 1..Len(t) : v[i] = v[i - 1] * Base + t[i]
<1> DEFINE Eq(f) == [i \in 0..Len(t) |-> IF i = 0 THEN 0 ELSE f[i - 1] * Base + t[i]]
           G == [n \in Nat |-> [x \in Nat |-> IF n < Len(t) THEN x * Base + t[n + 1] ELSE x]]
           v == CHOOSE f : f = Eq(f)
<1>1. Base \in Nat \ {0, 1} /\ Len(t) \in Nat /\ \A i \in 1..Len(t) : t[i] \in Nat
  BY SumAngleAssumption
<1>2. G \in [Nat -> [Nat -> Nat]]
  <2>1. ASSUME NEW n \in Nat, NEW x \in Nat
        PROVE  (IF n < Len(t) THEN x * Base + t[n + 1] ELSE x) \in Nat
    <3>1. CASE n < Len(t)
      <4>1. t[n + 1] \in Nat /\ x * Base \in Nat
        BY <1>1, <3>1
      <4> QED BY <3>1, <4>1
    <3>2. CASE ~(n < Len(t))
      BY <3>2
    <3> QED BY <3>1, <3>2
  <2> QED BY <2>1
<1>3. PICK h \in [Nat -> Nat] : h[0] = 0 /\ \A n \in Nat : h[n + 1] = G[n][h[n]]
  <2>1. 0 \in Nat
    OBVIOUS
  <2> HIDE DEF G
  <2>2. Recurs(Nat, 0, G)
    BY <1>2, <2>1, Recursion
  <2> QED BY <2>2 DEF Recurs
<1>4. \A n \in Nat : n < Len(t) => h[n + 1] = h[n] * Base + t[n + 1]
  BY <1>3
<1>5. \A i \in 1..Len(t) : h[i] = h[i - 1] * Base + t[i]
  <2> TAKE i \in 1..Len(t)
  <2>1. i - 1 \in Nat /\ i - 1 < Len(t) /\ (i - 1) + 1 = i
    BY <1>1
  <2>2. h[(i - 1) + 1] = h[i - 1] * Base + t[(i - 1) + 1]
    BY <1>4, <2>1
  <2> QED BY <2>1, <2>2
<1> DEFINE g == [i \in 0..Len(t) |-> h[i]]
<1>6. g = Eq(g)
  <2>1. ASSUME NEW i \in 0..Len(t) PROVE g[i] = Eq(g)[i]
    <3>1. CASE i = 0
      BY <1>1, <1>3, <3>1
    <3>2. CASE i # 0
      <4>1. i \in 1..Len(t) /\ i - 1 \in 0..Len(t)
        BY <1>1, <3>2
      <4> QED BY <1>5, <3>2, <4>1
    <3> QED BY <3>1, <3>2
  <2> QED BY <2>1
<1>7. v = Eq(v)
  <2> HIDE DEF Eq, g
  <2>1. \E f : f = Eq(f)
    BY <1>6
  <2> QED BY <2>1
<1>8. ValueOf(t) = v[Len(t)]
  BY DEF ValueOf
<1>9. \A i \in 0..Len(t) : v[i] = h[i]
  <2> DEFINE T == {i \in Nat : i <= Len(t) => v[i] = h[i]}
  <2>1. \A i \in 0..Len(t) : v[i] = IF i = 0 THEN 0 ELSE v[i - 1] * Base + t[i]
    <3>1. \A i \in 0..Len(t) : Eq(v)[i] = IF i = 0 THEN 0 ELSE v[i - 1] * Base + t[i]
      <4> HIDE DEF v
      <4> QED OBVIOUS
    <3> HIDE DEF v, Eq
    <3> QED BY <1>7, <3>1
  <2> HIDE DEF v, G, g, Eq
  <2>2. 0 \in T /\ T \in SUBSET Nat
    <3>1. 0 \in 0..Len(t)
      BY <1>1
    <3>2. v[0] = IF 0 = 0 THEN 0 ELSE v[0 - 1] * Base + t[0]
      BY <2>1, <3>1
    <3>3. v[0] = 0
      BY <3>2
    <3> QED BY <1>3, <3>3
  <2>3. ASSUME NEW i \in T PROVE i + 1 \in T
    <3>1. SUFFICES ASSUME i + 1 <= Len(t) PROVE v[i + 1] = h[i + 1]
      OBVIOUS
    <3>2. i \in Nat /\ (i <= Len(t) => v[i] = h[i])
      OBVIOUS
    <3>3. v[i] = h[i] /\ i + 1 \in 1..Len(t) /\ i + 1 # 0 /\ (i + 1) - 1 = i
      <4> HIDE DEF T
      <4>1. Len(t) \in Nat
        OBVIOUS
      <4>2. i <= Len(t)
        BY <3>1, <3>2, <4>1
      <4>3. i + 1 \in 1..Len(t)
        BY <3>1, <3>2, <4>1
      <4>4. i + 1 # 0 /\ (i + 1) - 1 = i
        BY <3>2
      <4> QED BY <3>2, <4>2, <4>3, <4>4
    <3>4. v[i + 1] = v[i] * Base + t[i + 1]
      <4>1. i + 1 \in 0..Len(t)
        BY <1>1, <3>3
      <4>2. v[i + 1] = IF i + 1 = 0 THEN 0 ELSE v[(i + 1) - 1] * Base + t[i + 1]
        BY <2>1, <4>1
      <4> QED BY <3>3, <4>2
    <3>5. h[i + 1] = h[i] * Base + t[i + 1]
      BY <1>5, <3>3
    <3> QED BY <3>3, <3>4, <3>5
  <2>4. T = Nat
    <3> HIDE DEF T
    <3> QED BY <2>2, <2>3, SetInduction
  <2>5. \A i \in 0..Len(t) : i \in T /\ i <= Len(t)
    <3> HIDE DEF T
    <3> QED BY <1>1, <2>4
  <2> QED BY <2>5
<1>10. ValueOf(t) = h[Len(t)]
  <2> HIDE DEF v
  <2> QED BY <1>1, <1>8, <1>9
<1> QED BY <1>3, <1>5, <1>10

\* What a number is printed as is read as the number.
LEMMA TextIsRead ==
    ASSUME NEW n \in Nat
    PROVE  /\ Text(n) \in Seq(0..(Base - 1)) /\ Len(Text(n)) = Width(n)
           /\ ValueOf(Text(n)) = n
<1> DEFINE k == Width(n)
           d == [i \in 1..k |-> ((n \div Power[k - i]) % Base)]
<1>1. Base \in Nat \ {0, 1} /\ \A i \in Nat : Power[i] \in Nat \ {0}
  BY SumAngleAssumption, PowerEquation, PowerGrows
<1>2. k \in Nat \ {0} /\ n < Power[k]
  BY WidthFits
<1>3. Text(n) = d
  BY DEF Text
<1> HIDE DEF k
<1>4. ASSUME NEW i \in 1..k
      PROVE  /\ k - i \in Nat /\ n \div Power[k - i] \in Nat /\ d[i] \in 0..(Base - 1)
             /\ n \div Power[k - i] = Base * ((n \div Power[k - i]) \div Base) + d[i]
  <2> DEFINE q == n \div Power[k - i]
  <2>1. k - i \in Nat
    BY <1>2
  <2>2. q \in Nat
    BY <1>1, <2>1, Division
  <2>3. d[i] = q % Base
    OBVIOUS
  <2> HIDE DEF q, d
  <2>4. q % Base \in 0..(Base - 1) /\ q = Base * (q \div Base) + (q % Base)
    BY Zenon, <1>1, <2>2, Division
  <2>5. d[i] \in 0..(Base - 1) /\ q = Base * (q \div Base) + d[i]
    BY <2>3, <2>4
  <2> QED BY <2>1, <2>2, <2>5 DEF q
<1>5. d \in Seq(0..(Base - 1)) /\ Len(d) = k
  BY <1>2, <1>4
<1> HIDE DEF d
<1>6. PICK v \in [Nat -> Nat] : /\ v[0] = 0 /\ ValueOf(d) = v[Len(d)]
                                /\ \A i \in 1..Len(d) : v[i] = v[i - 1] * Base + d[i]
  BY <1>5, ValueEquation
<1> DEFINE T == {i \in Nat : i <= k => v[i] = n \div Power[k - i]}
<1>7. 0 \in T /\ T \in SUBSET Nat
  <2>1. n \div Power[k] = 0
    <3> DEFINE p == Power[k]
               u == n \div p
               w == n % p
    <3>1. p \in Nat \ {0} /\ n < p
      BY <1>1, <1>2
    <3>2. u \in Nat /\ w \in 0..(p - 1) /\ n = p * u + w
      <4> HIDE DEF p
      <4> QED BY Zenon, <3>1, Division
    <3>3. p * u + w = p * 0 + n /\ n \in 0..(p - 1)
      <4> HIDE DEF p, u, w
      <4> QED BY <3>1, <3>2
    <3>4. u = 0
      <4>1. 0 \in Int /\ u \in Int
        BY <3>2
      <4> HIDE DEF p, u, w
      <4> QED BY <3>1, <3>2, <3>3, <4>1, OneQuotient
    <3> QED BY <3>4
  <2> QED BY <1>2, <1>6, <2>1
<1>8. ASSUME NEW i \in T PROVE i + 1 \in T
  <2>1. SUFFICES ASSUME i + 1 <= k PROVE v[i + 1] = n \div Power[k - (i + 1)]
    OBVIOUS
  <2> DEFINE j == k - (i + 1)
  <2>2. /\ i \in Nat /\ v[i] = n \div Power[k - i] /\ i + 1 \in 1..k /\ j \in Nat
        /\ (i + 1) - 1 = i /\ k - i = j + 1
    BY <1>2, <2>1
  <2>3. v[i + 1] = v[i] * Base + d[i + 1]
    BY <1>5, <1>6, <2>2
  <2> HIDE DEF j
  <2>4. Power[j + 1] = Base * Power[j] /\ Power[j] \in Nat \ {0}
    BY <1>1, <2>2, PowerEquation
  <2>5. n \div Power[j + 1] = (n \div Power[j]) \div Base
    BY <1>1, <2>4, DivisionByProduct
  <2>6. n \div Power[j] = Base * ((n \div Power[j]) \div Base) + d[i + 1]
    BY <1>4, <2>2 DEF j
  <2>7. v[i] = (n \div Power[j]) \div Base
    BY <2>2, <2>5
  <2>8. v[i] \in Nat /\ d[i + 1] \in Nat
    BY <1>4, <1>6, <2>2
  <2>9. n \div Power[j] = Base * v[i] + d[i + 1]
    BY <2>6, <2>7
  <2>10. v[i + 1] = n \div Power[j]
    BY <1>1, <2>3, <2>8, <2>9
  <2> QED BY <2>10 DEF j
<1>9. T = Nat
  <2> HIDE DEF T
  <2> QED BY <1>7, <1>8, SetInduction
<1>10. v[k] = n
  <2>1. v[k] = n \div Power[k - k] /\ k - k = 0
    BY <1>2, <1>9
  <2>2. Power[0] = 1 /\ n \div 1 = n
    BY PowerEquation
  <2> QED BY <2>1, <2>2
<1> QED BY <1>3, <1>5, <1>6, <1>10 DEF k

\* A text that is not shorter covers all of the one it is written over.
LEMMA WrittenOver ==
    ASSUME NEW m \in Nat, NEW n \in Nat, m <= n
    PROVE  Over(Text(m), Text(n)) = Text(n)
<1>1. Text(m) \in Seq(0..(Base - 1)) /\ Text(n) \in Seq(0..(Base - 1))
      /\ Len(Text(m)) <= Len(Text(n))
  BY TextIsRead, WidthGrows
<1>2. SubSeq(Text(m), Len(Text(n)) + 1, Len(Text(m))) = <<>>
  BY <1>1
<1>3. Text(n) \o <<>> = Text(n)
  BY <1>1
<1> QED BY <1>2, <1>3 DEF Over

-----------------------------------------------------------------------------
(* The odometer *)

\* The inductive invariant: the file holds a number, g_sum_angle is that number at every
\* point where it is neither being read nor being added to, and what the file holds covers
\* the way gone and the way the drive still has to go.
Odometer ==
    /\ ValueOf(file) \in Nat /\ file = Text(ValueOf(file))
    /\ moving => dest # pos
    /\ pc \in {"update", "open", "print", "start"} => ~moving
    /\ pc = "read" => sum = 0
    /\ pc \in {"reset", "idle", "update", "start"} => sum = ValueOf(file)
    /\ pc \in {"open", "print"} => sum = ValueOf(file) + Diff
    /\ NeverUnderestimates
    /\ pc = "start" => base + travelled + Diff <= ValueOf(file)

\* The distance between two places, and how a step towards the one shortens it.
LEMMA Distance ==
    ASSUME NEW x \in Int, NEW y \in Int
    PROVE  /\ Abs(x - y) \in Nat
           /\ y < x => Abs(x - (y + 1)) = Abs(x - y) - 1
           /\ y > x => Abs(x - (y - 1)) = Abs(x - y) - 1
           /\ x = y => Abs(x - y) = 0
<1>1. Abs(x - y) \in Nat
  BY DEF Abs
<1>2. ASSUME y < x PROVE Abs(x - (y + 1)) = Abs(x - y) - 1
  BY <1>2 DEF Abs
<1>3. ASSUME y > x PROVE Abs(x - (y - 1)) = Abs(x - y) - 1
  <2>1. CASE y - 1 = x
    <3>1. x - (y - 1) = 0 /\ x - y = -1
      BY <2>1
    <3> QED BY <3>1 DEF Abs
  <2>2. CASE y - 1 # x
    <3>1. x - (y - 1) < 0 /\ x - y < 0 /\ -(x - (y - 1)) = -(x - y) - 1
      BY <1>3, <2>2
    <3> QED BY <3>1 DEF Abs
  <2> QED BY <2>1, <2>2
<1>4. ASSUME x = y PROVE Abs(x - y) = 0
  <2>1. x - y = 0
    BY <1>4
  <2> QED BY <2>1 DEF Abs
<1> QED BY <1>1, <1>2, <1>3, <1>4

\* What is left of a text after its first characters is a text.
LEMMA RestTyped ==
    ASSUME NEW S, NEW s \in Seq(S), NEW n \in Nat
    PROVE  SubSeq(s, n + 1, Len(s)) \in Seq(S)
<1>1. \A i \in (n + 1)..Len(s) : s[i] \in S
  <2> TAKE i \in (n + 1)..Len(s)
  <2>1. i \in 1..Len(s)
    OBVIOUS
  <2> QED BY <2>1
<1>2. n + 1 \in Int /\ Len(s) \in Int
  OBVIOUS
<1> QED BY <1>1, <1>2, SubSeqProperties

\* Every step keeps the types.
LEMMA TypeKept ==
    ASSUME TypeOK, Odometer, [Next]_vars
    PROVE  TypeOK'
<1>2. ValueOf(file) \in Nat
  BY DEF Odometer
<1>3. Diff \in Nat
  BY Distance DEF TypeOK, Diff
<1>4. CASE Launch
  BY <1>4 DEF Launch, TypeOK
<1>5. CASE ReadSum
  BY <1>2, <1>5 DEF ReadSum, TypeOK
<1>6. CASE ResetPosition
  BY <1>6 DEF ResetPosition, TypeOK
<1>7. ASSUME NEW a \in Angles, Accept(a) PROVE TypeOK'
  BY <1>7, SumAngleAssumption DEF Accept, TypeOK
<1>8. CASE Update
  BY <1>3, <1>8 DEF Update, TypeOK
<1>9. CASE OpenSum
  BY <1>9 DEF OpenSum, TypeOK
<1>10. CASE PrintSum
  <2>1. sum \in Nat
    BY DEF TypeOK
  <2>2. Text(sum) \in Seq(0..(Base - 1))
    BY <2>1, TextIsRead
  <2>3. file \in Seq(0..(Base - 1))
    BY DEF TypeOK
  <2>4. SubSeq(file, Len(Text(sum)) + 1, Len(file)) \in Seq(0..(Base - 1))
    <3>1. Len(Text(sum)) \in Nat
      BY <2>2
    <3> QED BY <2>3, <3>1, RestTyped
  <2>5. file' \in Seq(0..(Base - 1))
    BY <1>10, <2>2, <2>4 DEF PrintSum, Printed, Over
  <2> QED BY <1>10, <2>5 DEF PrintSum, TypeOK
<1>11. CASE Run
  <2>1. (dest # pos) \in BOOLEAN
    OBVIOUS
  <2> QED BY <1>11, <2>1 DEF Run, TypeOK
<1>12. CASE Cancel
  BY <1>12 DEF Cancel, TypeOK
<1>13. CASE Travel
  <2>1. pos' \in Int /\ moving' \in BOOLEAN /\ travelled' \in Nat
    BY <1>13 DEF Travel, TypeOK
  <2> QED BY <1>13, <2>1 DEF Travel, TypeOK
<1>14. CASE Crash
  BY <1>14, SumAngleAssumption DEF Crash, TypeOK
<1>15. CASE UNCHANGED vars
  BY <1>15 DEF vars, TypeOK
<1> QED
  BY <1>4, <1>5, <1>6, <1>7, <1>8, <1>9, <1>10, <1>11, <1>12, <1>13, <1>14, <1>15
     DEF Next, Query

\* What PrintSum leaves in the file when it holds a number that is not greater: the new
\* one, and nothing of the old.
LEMMA PrintedAlone ==
    ASSUME TypeOK, Odometer, PrintSum
    PROVE  file' = Text(sum) /\ ValueOf(file') = sum /\ sum = ValueOf(file) + Diff
<1>1. /\ ValueOf(file) \in Nat /\ file = Text(ValueOf(file)) /\ sum \in Nat
      /\ sum = ValueOf(file) + Diff
  BY DEF Odometer, TypeOK, PrintSum
<1>2. Diff \in Nat
  BY Distance DEF TypeOK, Diff
<1>3. Over(Text(ValueOf(file)), Text(sum)) = Text(sum)
  <2>1. ValueOf(file) <= sum
    BY <1>1, <1>2
  <2> QED BY <1>1, <2>1, WrittenOver
<1>4. file' = Over(file, Text(sum))
  BY DEF PrintSum, Printed
<1>5. file' = Text(sum)
  BY <1>1, <1>3, <1>4
<1> QED BY <1>1, <1>5, TextIsRead

\* Every step keeps the invariant.
LEMMA OdometerKept ==
    ASSUME TypeOK, Odometer, [Next]_vars
    PROVE  Odometer'
<1> DEFINE v == ValueOf(file)
<1>1. /\ v \in Nat /\ sum \in Nat /\ base \in Nat /\ travelled \in Nat
      /\ pos \in Int /\ dest \in Int /\ moving \in BOOLEAN
  BY DEF Odometer, TypeOK
<1>2. Diff \in Nat
  BY <1>1, Distance DEF Diff
<1>3. CASE Launch
  BY <1>3 DEF Launch, Odometer, NeverUnderestimates, Diff
<1>4. CASE ReadSum
  BY <1>1, <1>4 DEF ReadSum, Odometer, NeverUnderestimates, Diff
<1>5. CASE ResetPosition
  BY <1>1, <1>2, <1>5 DEF ResetPosition, Odometer, NeverUnderestimates, Diff
<1>6. ASSUME NEW a \in Angles, Accept(a) PROVE Odometer'
  BY <1>1, <1>6 DEF Accept, Odometer, NeverUnderestimates, Diff
<1>7. CASE Update
  BY <1>1, <1>2, <1>7 DEF Update, Odometer, NeverUnderestimates, Diff
<1>8. CASE OpenSum
  BY <1>8 DEF OpenSum, Odometer, NeverUnderestimates, Diff
<1>9. CASE PrintSum
  <2>1. file' = Text(sum) /\ ValueOf(file') = sum /\ sum = v + Diff
    BY <1>9, PrintedAlone
  <2>2. ~moving /\ pc' = "start" /\ UNCHANGED <<sum, pos, dest, moving, base, travelled>>
    BY <1>9 DEF PrintSum, Odometer
  <2>3. base + travelled <= v
    <3>1. base + travelled + (IF moving THEN Abs(dest - pos) ELSE 0) <= v
      BY DEF Odometer, NeverUnderestimates
    <3> HIDE DEF v
    <3> QED BY <1>1, <2>2, <3>1
  <2>4. Diff' = Diff
    BY <2>2 DEF Diff
  <2> HIDE DEF v
  <2>5. base' + travelled' + Diff' <= ValueOf(file')
    BY <1>1, <1>2, <2>1, <2>2, <2>3, <2>4
  <2>6. NeverUnderestimates'
    BY <1>1, <1>2, <2>1, <2>2, <2>3 DEF NeverUnderestimates
  <2> QED BY <1>1, <2>1, <2>2, <2>5, <2>6 DEF Odometer
<1>10. CASE Run
  BY <1>1, <1>2, <1>10 DEF Run, Odometer, NeverUnderestimates, Diff
<1>11. CASE Cancel
  BY <1>1, <1>2, <1>11 DEF Cancel, Odometer, NeverUnderestimates, Diff
<1>12. CASE Travel
  <2>1. moving /\ dest # pos /\ travelled' = travelled + 1 /\ moving' = (pos' # dest)
        /\ UNCHANGED <<pc, sum, file, dest, base>>
    BY <1>12 DEF Travel, Odometer
  <2>2. base + travelled + Diff <= v
    BY <2>1 DEF Odometer, NeverUnderestimates, Diff
  <2>3. pos' \in Int /\ Diff' = Diff - 1
    <3>1. CASE pos < dest
      <4>1. pos' = pos + 1
        BY <1>12, <3>1 DEF Travel
      <4>2. Abs(dest - (pos + 1)) = Abs(dest - pos) - 1
        BY <1>1, <3>1, Distance
      <4> QED BY <1>1, <2>1, <4>1, <4>2 DEF Diff
    <3>2. CASE pos > dest
      <4>1. pos' = pos - 1
        BY <1>1, <1>12, <3>2 DEF Travel
      <4>2. Abs(dest - (pos - 1)) = Abs(dest - pos) - 1
        BY <1>1, <3>2, Distance
      <4> QED BY <1>1, <2>1, <4>1, <4>2 DEF Diff
    <3> QED BY <1>1, <2>1, <3>1, <3>2
  <2>4. base + travelled' + Diff' <= v /\ Diff' \in Nat
    <3>1. Diff' \in Nat
      BY <1>1, <2>1, <2>3, Distance DEF Diff
    <3> HIDE DEF v
    <3> QED BY <1>1, <1>2, <2>1, <2>2, <2>3, <3>1
  <2>5. NeverUnderestimates'
    <3>1. CASE pos' = dest
      <4>1. moving' = FALSE
        BY <2>1, <3>1
      <4>2. base + travelled' <= v
        <5> HIDE DEF v
        <5>1. base + travelled' \in Nat
          BY <1>1, <2>1
        <5> QED BY <1>1, <2>4, <5>1
      <4> QED BY <1>1, <2>1, <4>1, <4>2 DEF NeverUnderestimates
    <3>2. CASE pos' # dest
      BY <2>1, <2>4, <3>2 DEF NeverUnderestimates, Diff
    <3> QED BY <3>1, <3>2
  <2>6. pc \notin {"update", "open", "print", "start"}
    BY <2>1 DEF Odometer
  <2>7. moving' => dest' # pos'
    BY <2>1
  <2> QED BY <2>1, <2>5, <2>6, <2>7 DEF Odometer
<1>13. CASE Crash
  BY <1>13 DEF Crash, Odometer, NeverUnderestimates, Diff
<1>14. CASE UNCHANGED vars
  BY <1>14 DEF vars, Odometer, NeverUnderestimates, Diff
<1> QED
  BY <1>3, <1>4, <1>5, <1>6, <1>7, <1>8, <1>9, <1>10, <1>11, <1>12, <1>13, <1>14
     DEF Next, Query

\* At the installation the file holds the sum, and nothing has been gone.
LEMMA OdometerInit ==
    ASSUME Init
    PROVE  TypeOK /\ Odometer
<1>1. base \in Nat /\ pos \in Int
  BY SumAngleAssumption DEF Init
<1>2. file = Text(base) /\ file \in Seq(0..(Base - 1)) /\ ValueOf(file) = base
  BY <1>1, TextIsRead DEF Init
<1>3. TypeOK
  <2>1. {pos, dest} \subseteq Int /\ {base, travelled} \subseteq Nat /\ moving \in BOOLEAN
    <3>1. dest \in Int /\ travelled \in Nat
      BY <1>1 DEF Init
    <3>2. moving \in BOOLEAN
      BY DEF Init
    <3> QED BY <1>1, <3>1, <3>2
  <2>2. sum \in Nat /\ moves \in 0..MaxMoves /\ crashes \in 0..MaxCrashes
    BY SumAngleAssumption DEF Init
  <2>3. pc = "down"
    BY DEF Init
  <2> QED BY <1>2, <2>1, <2>2, <2>3 DEF TypeOK
<1>4. Odometer
  BY <1>1, <1>2 DEF Init, Odometer, NeverUnderestimates
<1> QED BY <1>3, <1>4

\* The file holds a number that covers all of the way, over every run and every kill.
THEOREM OdometerHolds == Spec => [](TypeOK /\ Odometer)
<1>1. Init => TypeOK /\ Odometer
  BY OdometerInit
<1>2. TypeOK /\ Odometer /\ [Next]_vars => (TypeOK /\ Odometer)'
  BY TypeKept, OdometerKept
<1> QED BY <1>1, <1>2, PTL DEF Spec

\* What the axis has gone, and what the motion under way will still go, is on disk
\* before it is gone (goto_point, goto_left, goto_right: the update and the write come
\* before START).
THEOREM OdometerCovers == Spec => []NeverUnderestimates
<1>1. Odometer => NeverUnderestimates
  BY DEF Odometer
<1> QED BY <1>1, OdometerHolds, PTL

\* What sumangle.txt says never goes back (write_g_sum_angle over the old text, kills at
\* any point of it).
THEOREM OdometerGrows == Spec => FileNeverGoesBack
<1>1. TypeOK /\ Odometer /\ [Next]_vars => [ValueOf(file') >= ValueOf(file)]_vars
  <2> SUFFICES ASSUME TypeOK, Odometer, [Next]_vars PROVE ValueOf(file') >= ValueOf(file)
    OBVIOUS
  <2>1. ValueOf(file) \in Nat /\ Diff \in Nat
    BY Distance DEF Odometer, TypeOK, Diff
  <2>2. CASE PrintSum
    BY <2>1, <2>2, PrintedAlone
  <2>3. CASE ~PrintSum
    <3>1. file' = file
      BY <2>3 DEF Next, Query, vars, Launch, ReadSum, ResetPosition, Accept, Update, OpenSum,
                  Run, Cancel, Travel, Crash
    <3> QED BY <2>1, <3>1
  <2> QED BY <2>2, <2>3
<1> QED BY <1>1, OdometerHolds, PTL DEF Spec, FileNeverGoesBack

=============================================================================

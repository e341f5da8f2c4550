---------------------------- MODULE EncoderProofs ----------------------------
(* Theorems about Encoder: what the receive thread takes for a frame is one,   *)
(* wherever in a frame its first read began, and its buffer never overflows.   *)
EXTENDS Encoder, WellFoundedInduction, SequenceTheorems, TLAPS

-----------------------------------------------------------------------------
(* Bytes and counts *)

\* A function on the first numbers is a sequence.
LEMMA FiniteFunction ==
    ASSUME NEW S, NEW n \in Nat, NEW s \in [1..n -> S]
    PROVE  s \in Seq(S) /\ Len(s) = n
OBVIOUS

\* The elements of a sequence.
LEMMA Elements ==
    ASSUME NEW S, NEW s \in Seq(S)
    PROVE  Len(s) \in Nat /\ \A i \in 1..Len(s) : s[i] \in S
OBVIOUS

\* The lengths of a position and of a frame, and the bytes of the header.
LEMMA Sizes ==
    /\ Base \in Nat /\ Base > 1 /\ Pulses \in Nat /\ Pulses > 0
    /\ (Payload = 2 /\ FrameLen = 5) \/ (Payload = 3 /\ FrameLen = 6)
    /\ Mark[1] \in 0..(Base - 1) /\ Mark[2] \in 0..(Base - 1)
    /\ Mark \in Seq(0..(Base - 1)) /\ Len(Mark) = 2
<1>1. /\ Base \in Nat \ {0, 1} /\ Mark \in [1..2 -> 0..(Base - 1)] /\ Payload \in {2, 3}
      /\ Pulses \in Nat \ {0}
  BY EncoderAssumption
<1>2. Base \in Nat /\ Base > 1 /\ Pulses \in Nat /\ Pulses > 0
  BY <1>1
<1>3. (Payload = 2 /\ FrameLen = 5) \/ (Payload = 3 /\ FrameLen = 6)
  <2>1. CASE Payload = 2
    BY <2>1 DEF FrameLen
  <2>2. CASE Payload = 3
    BY <2>2 DEF FrameLen
  <2> QED BY <1>1, <2>1, <2>2
<1>4. Mark[1] \in 0..(Base - 1) /\ Mark[2] \in 0..(Base - 1)
  BY <1>1
<1>5. Mark \in Seq(0..(Base - 1)) /\ Len(Mark) = 2
  BY <1>1, 2 \in Nat, FiniteFunction
<1> QED BY <1>2, <1>3, <1>4, <1>5

\* CRC_check adds up the bytes before the last one: four of them for encoder 3.
LEMMA SumOfFour ==
    ASSUME NEW b, Len(b) = 4, \A i \in 1..4 : b[i] \in Int
    PROVE  Sum(b) = (b[1] + b[2] + b[3] + b[4]) % Base
<1> DEFINE Eq(f) == [i \in 0..4 |-> IF i = 0 THEN 0 ELSE f[i - 1] + b[i]]
           s == CHOOSE f : f = Eq(f)
           w == [i \in 0..4 |-> IF i = 0 THEN 0 ELSE IF i = 1 THEN b[1]
                                ELSE IF i = 2 THEN b[1] + b[2]
                                ELSE IF i = 3 THEN b[1] + b[2] + b[3]
                                ELSE b[1] + b[2] + b[3] + b[4]]
<1>1. w = Eq(w)
  <2>1. \A i \in 0..4 : w[i] = Eq(w)[i]
    OBVIOUS
  <2> QED BY <2>1
<1>2. s = Eq(s)
  <2> HIDE DEF Eq, w
  <2> QED BY <1>1
<1>3. /\ s[0] = 0 /\ s[1] = s[0] + b[1] /\ s[2] = s[1] + b[2] /\ s[3] = s[2] + b[3]
      /\ s[4] = s[3] + b[4]
  <2> HIDE DEF s
  <2> QED BY <1>2
<1>4. s[4] = b[1] + b[2] + b[3] + b[4]
  <2> HIDE DEF s
  <2> QED BY <1>3
<1>5. Sum(b) = s[4] % Base
  BY DEF Sum
<1> QED BY <1>4, <1>5

\* The sum of the five bytes of encoders 1 and 2 (CRC_check).
LEMMA SumOfFive ==
    ASSUME NEW b, Len(b) = 5, \A i \in 1..5 : b[i] \in Int
    PROVE  Sum(b) = (b[1] + b[2] + b[3] + b[4] + b[5]) % Base
<1> DEFINE Eq(f) == [i \in 0..5 |-> IF i = 0 THEN 0 ELSE f[i - 1] + b[i]]
           s == CHOOSE f : f = Eq(f)
           w == [i \in 0..5 |-> IF i = 0 THEN 0 ELSE IF i = 1 THEN b[1]
                                ELSE IF i = 2 THEN b[1] + b[2]
                                ELSE IF i = 3 THEN b[1] + b[2] + b[3]
                                ELSE IF i = 4 THEN b[1] + b[2] + b[3] + b[4]
                                ELSE b[1] + b[2] + b[3] + b[4] + b[5]]
<1>1. w = Eq(w)
  <2>1. \A i \in 0..5 : w[i] = Eq(w)[i]
    OBVIOUS
  <2> QED BY <2>1
<1>2. s = Eq(s)
  <2> HIDE DEF Eq, w
  <2> QED BY <1>1
<1>3. /\ s[0] = 0 /\ s[1] = s[0] + b[1] /\ s[2] = s[1] + b[2] /\ s[3] = s[2] + b[3]
      /\ s[4] = s[3] + b[4] /\ s[5] = s[4] + b[5]
  <2> HIDE DEF s
  <2> QED BY <1>2
<1>4. s[5] = b[1] + b[2] + b[3] + b[4] + b[5]
  <2> HIDE DEF s
  <2> QED BY <1>3
<1>5. Sum(b) = s[5] % Base
  BY DEF Sum
<1> QED BY <1>4, <1>5

\* The parsers put a position together from two bytes or from three.
LEMMA ValueOfBytes ==
    ASSUME NEW f, \A i \in 3..(2 + Payload) : f[i] \in Int
    PROVE  /\ Payload = 2 => Value(f) = f[3] * Base + f[4]
           /\ Payload = 3 => Value(f) = (f[3] * Base + f[4]) * Base + f[5]
<1> DEFINE Eq(v) == [i \in 2..(2 + Payload) |-> IF i = 2 THEN 0 ELSE v[i - 1] * Base + f[i]]
           v == CHOOSE g : g = Eq(g)
           w == [i \in 2..(2 + Payload) |->
                    IF i = 2 THEN 0 ELSE IF i = 3 THEN f[3] ELSE IF i = 4 THEN f[3] * Base + f[4]
                    ELSE (f[3] * Base + f[4]) * Base + f[5]]
<1>1. w = Eq(w)
  <2>1. w[2] = Eq(w)[2]
    BY Sizes
  <2>2. w[3] = Eq(w)[3]
    BY Sizes
  <2>3. w[4] = Eq(w)[4]
    BY Sizes
  <2>4. Payload = 3 => w[5] = Eq(w)[5]
    BY Sizes
  <2>5. \A i \in 2..(2 + Payload) : i \in {2, 3, 4} \/ (i = 5 /\ Payload = 3)
    BY Sizes
  <2>6. \A i \in 2..(2 + Payload) : w[i] = Eq(w)[i]
    <3> HIDE DEF w, Eq
    <3> QED BY <2>1, <2>2, <2>3, <2>4, <2>5
  <2> QED BY <2>6
<1>2. v = Eq(v)
  <2> HIDE DEF Eq, w
  <2> QED BY <1>1
<1>3. /\ v[2] = 0 /\ v[3] = v[2] * Base + f[3] /\ v[4] = v[3] * Base + f[4]
      /\ Payload = 3 => v[5] = v[4] * Base + f[5]
  <2> HIDE DEF v
  <2> QED BY <1>2, Sizes
<1>4. v[3] = f[3]
  <2> HIDE DEF v
  <2> QED BY <1>3, Sizes
<1>5. Value(f) = v[2 + Payload]
  BY DEF Value
<1>6. 2 + Payload = 4 \/ (2 + Payload = 5 /\ Payload = 3)
  BY Sizes
<1> HIDE DEF v
<1> QED BY <1>3, <1>4, <1>5, <1>6, Sizes

\* A number divided: the quotient and the rest.
LEMMA Division ==
    ASSUME NEW m \in Nat \ {0}, NEW n \in Int
    PROVE  n \div m \in Int /\ n % m \in 0..(m - 1) /\ n = m * (n \div m) + (n % m)
OBVIOUS

\* There is one quotient and one rest.
LEMMA OneQuotient ==
    ASSUME NEW m \in Nat \ {0}, NEW p \in Int, NEW q \in Int,
           NEW r \in 0..(m - 1), NEW s \in 0..(m - 1), m * p + r = m * q + s
    PROVE  p = q /\ r = s
<1>1. m * (p - q) = s - r
  OBVIOUS
<1>2. ~(p - q >= 1)
  <2>1. ASSUME p - q >= 1 PROVE m * (p - q) >= m
    BY <2>1
  <2> QED BY <1>1, <2>1
<1>3. ~(p - q <= -1)
  <2>1. ASSUME p - q <= -1 PROVE m * (p - q) <= -m
    BY <2>1
  <2> QED BY <1>1, <2>1
<1>4. p = q
  BY <1>2, <1>3
<1> QED BY <1>1, <1>4

\* The digits of a number of two places, to any base.
LEMMA TwoDigits ==
    ASSUME NEW b \in Nat \ {0}, NEW c \in Nat, c < b * b
    PROVE  ((c \div b) % b) * b + (c % b) = c
<1>1. c \div b \in Int /\ c % b \in 0..(b - 1) /\ c = b * (c \div b) + (c % b)
  BY Division
<1> DEFINE q == c \div b
<1>2. q \in 0..(b - 1)
  <2> HIDE DEF q
  <2>1. q \in Int /\ c >= b * q /\ c < b * q + b
    BY <1>1 DEF q
  <2>2. ~(q >= b)
    <3>1. ASSUME q >= b PROVE b * q >= b * b
      BY <2>1, <3>1
    <3> QED BY <2>1, <3>1
  <2>3. ~(q <= -1)
    <3>1. ASSUME q <= -1 PROVE b * q <= -b
      BY <2>1, <3>1
    <3> QED BY <2>1, <3>1
  <2> QED BY <2>1, <2>2, <2>3
<1>3. q % b = q
  <2> HIDE DEF q
  <2>1. q \div b \in Int /\ q % b \in 0..(b - 1) /\ q = b * (q \div b) + (q % b)
    BY <1>2, Division
  <2>2. q = b * 0 + q
    BY <1>2
  <2> QED BY <1>2, <2>1, <2>2, OneQuotient
<1> QED BY <1>1, <1>3

\* The digits of a number of three places.
LEMMA ThreeDigits ==
    ASSUME NEW b \in Nat \ {0}, NEW c \in Nat, c < b * (b * b)
    PROVE  (((c \div (b * b)) % b) * b + ((c \div b) % b)) * b + (c % b) = c
<1> DEFINE q == c \div b
<1>1. q \in Int /\ c % b \in 0..(b - 1) /\ c = b * q + (c % b)
  BY Division
<1>2. q \in Nat /\ q < b * b
  <2> HIDE DEF q
  <2>1. c >= b * q /\ c < b * q + b
    BY <1>1
  <2>2. ~(q >= b * b)
    <3>1. ASSUME q >= b * b PROVE b * q >= b * (b * b)
      BY <1>1, <3>1
    <3> QED BY <1>1, <2>1, <3>1
  <2>3. ~(q <= -1)
    <3>1. ASSUME q <= -1 PROVE b * q <= -b
      BY <1>1, <3>1
    <3> QED BY <1>1, <2>1, <3>1
  <2> QED BY <1>1, <2>2, <2>3
<1>3. ((q \div b) % b) * b + (q % b) = q
  <2> HIDE DEF q
  <2> QED BY <1>2, TwoDigits
<1>4. c \div (b * b) = q \div b
  <2> DEFINE m == b * b
             p == c \div m
             t == c % m
             u == q \div b
             v == q % b
  <2>1. m \in Nat \ {0}
    OBVIOUS
  <2>2. p \in Int /\ t \in 0..(m - 1) /\ c = m * p + t
    <3> HIDE DEF m
    <3> QED BY <2>1, Division
  <2>3. u \in Int /\ v \in 0..(b - 1) /\ q = b * u + v
    <3> HIDE DEF q
    <3> QED BY <1>2, Division
  <2>4. c = m * u + (b * v + (c % b))
    <3> HIDE DEF q, u, v
    <3>1. c = b * (b * u + v) + (c % b)
      BY <1>1, <2>3
    <3>2. b * (b * u + v) = (b * b) * u + b * v
      BY <2>3
    <3> QED BY <1>1, <2>3, <3>1, <3>2
  <2>5. b * v + (c % b) \in 0..(m - 1)
    <3> HIDE DEF v
    <3>1. b * v >= 0 /\ b * v <= b * (b - 1)
      BY <2>3
    <3>2. b * (b - 1) = m - b
      OBVIOUS
    <3> QED BY <1>1, <2>1, <2>3, <3>1, <3>2
  <2> HIDE DEF m, p, t, u, v, q
  <2>6. p = u
    BY <2>1, <2>2, <2>3, <2>4, <2>5, OneQuotient
  <2> QED BY <2>6 DEF m, p, u, q
<1> QED BY <1>1, <1>3, <1>4

-----------------------------------------------------------------------------
(* Frames *)

\* A count is one of a turn, and fits the bytes of a position.
LEMMA CountFits ==
    ASSUME NEW a \in Int
    PROVE  /\ Count(a) \in 0..Pulses
           /\ Payload = 2 => Count(a) < Base * Base
           /\ Payload = 3 => Count(a) < Base * (Base * Base)
<1>1. Pulses + 1 \in Nat \ {0} /\ (Pulses + 1) - 1 = Pulses
  BY Sizes
<1>2. Count(a) \in 0..Pulses
  BY <1>1, Division DEF Count
<1>3. Pulses < Base * Weight(Payload - 1)
  BY EncoderAssumption
<1>4. Weight(1) = Base /\ Weight(2) = Base * Base
  BY DEF Weight
<1>5. CASE Payload = 2
  <2>1. Payload - 1 = 1
    BY <1>5
  <2> QED BY <1>2, <1>3, <1>4, <1>5, <2>1, Sizes
<1>6. CASE Payload = 3
  <2>1. Payload - 1 = 2
    BY <1>6
  <2>2. Base * (Base * Base) \in Int
    BY Sizes
  <2> QED BY <1>2, <1>3, <1>4, <1>6, <2>1, <2>2, Sizes
<1> QED BY <1>2, <1>5, <1>6, Sizes

\* The bytes of a frame: header, position, sum.
LEMMA FrameBytes ==
    ASSUME NEW a \in Axis
    PROVE  /\ Frame[a] \in Seq(0..(Base - 1)) /\ Len(Frame[a]) = FrameLen
           /\ Frame[a][1] = Mark[1] /\ Frame[a][2] = Mark[2]
           /\ \A i \in 1..Payload :
                 Frame[a][2 + i] = (Count(a) \div Weight(Payload - i)) % Base
           /\ Frame[a][FrameLen] = Sum(SubSeq(Frame[a], 1, FrameLen - 1))
<1> DEFINE D == 0..(Base - 1)
           p == [i \in 1..Payload |-> (Count(a) \div Weight(Payload - i)) % Base]
           b == Mark \o p
<1>1. Count(a) \in Nat
  BY CountFits, EncoderAssumption
<1>2. \A k \in 0..2 : Weight(k) \in Nat \ {0}
  <2>1. Weight(0) = 1 /\ Weight(1) = Base /\ Weight(2) = Base * Base
    BY DEF Weight
  <2>2. Base * Base \in Nat /\ Base * Base # 0
    BY Sizes
  <2> QED BY <2>1, <2>2, Sizes
<1>3. \A i \in 1..Payload : (Count(a) \div Weight(Payload - i)) % Base \in D
  <2> TAKE i \in 1..Payload
  <2>1. Payload - i \in 0..2
    BY Sizes
  <2>2. Count(a) \div Weight(Payload - i) \in Int
    <3>1. Weight(Payload - i) \in Nat \ {0} /\ Count(a) \in Int
      BY <1>1, <1>2, <2>1
    <3> QED BY <3>1, Division
  <2>3. Base \in Nat \ {0}
    BY Sizes
  <2> QED BY <2>2, <2>3, Division
<1>4. p \in Seq(D) /\ Len(p) = Payload
  <2>1. p \in [1..Payload -> D]
    BY <1>3
  <2>2. Payload \in Nat
    BY Sizes
  <2> HIDE DEF p
  <2> QED BY <2>1, <2>2, FiniteFunction
<1>5. /\ b \in Seq(D) /\ Len(b) = 2 + Payload
      /\ b[1] = Mark[1] /\ b[2] = Mark[2] /\ \A i \in 1..Payload : b[2 + i] = p[i]
  <2>1. Mark \in Seq(D) /\ Len(Mark) = 2 /\ Payload \in Nat
    BY Sizes
  <2>2. /\ b \in Seq(D) /\ Len(b) = 2 + Payload
        /\ \A i \in 1..(2 + Payload) : b[i] = IF i <= 2 THEN Mark[i] ELSE p[i - 2]
    <3> HIDE DEF D, p
    <3>1. /\ b \in Seq(D) /\ Len(b) = Len(Mark) + Len(p)
          /\ \A i \in 1..(Len(Mark) + Len(p)) :
                b[i] = IF i <= Len(Mark) THEN Mark[i] ELSE p[i - Len(Mark)]
      <4>1. Mark \in Seq(D) /\ p \in Seq(D)
        BY <1>4, <2>1
      <4> QED BY <4>1, ConcatProperties
    <3> HIDE DEF b
    <3> QED BY <1>4, <2>1, <3>1
  <2> HIDE DEF D, p, b
  <2>3. b[1] = Mark[1] /\ b[2] = Mark[2]
    BY <2>1, <2>2
  <2>4. \A i \in 1..Payload : b[2 + i] = p[i]
    <3> TAKE i \in 1..Payload
    <3>1. 2 + i \in 1..(2 + Payload) /\ ~(2 + i <= 2) /\ (2 + i) - 2 = i
      BY <2>1
    <3> QED BY <2>2, <3>1
  <2> QED BY <2>2, <2>3, <2>4
<1>6. Sum(b) \in D
  <2> HIDE DEF D, p, b
  <2>1. \A i \in 1..Len(b) : b[i] \in Int
    <3>1. \A i \in 1..Len(b) : b[i] \in D
      BY <1>5
    <3> QED BY <3>1, Sizes DEF D
  <2>2. Base \in Nat \ {0}
    BY Sizes
  <2>3. CASE Payload = 2
    <3>1. Len(b) = 4 /\ \A i \in 1..4 : b[i] \in Int
      BY <1>5, <2>1, <2>3
    <3>2. Sum(b) = (b[1] + b[2] + b[3] + b[4]) % Base /\ b[1] + b[2] + b[3] + b[4] \in Int
      BY <3>1, SumOfFour
    <3> QED BY <2>2, <3>2, Division DEF D
  <2>4. CASE Payload = 3
    <3>1. Len(b) = 5 /\ \A i \in 1..5 : b[i] \in Int
      BY <1>5, <2>1, <2>4
    <3>2. /\ Sum(b) = (b[1] + b[2] + b[3] + b[4] + b[5]) % Base
          /\ b[1] + b[2] + b[3] + b[4] + b[5] \in Int
      BY <3>1, SumOfFive
    <3> QED BY <2>2, <3>2, Division DEF D
  <2> QED BY <2>3, <2>4, Sizes
<1>7. Frame[a] = Append(b, Sum(b))
  BY DEF Frame
<1> HIDE DEF D, p, b
<1>8. /\ Frame[a] \in Seq(D) /\ Len(Frame[a]) = Len(b) + 1
      /\ Frame[a][Len(b) + 1] = Sum(b) /\ \A i \in 1..Len(b) : Frame[a][i] = b[i]
  BY <1>5, <1>6, <1>7
<1>9. Len(b) + 1 = FrameLen /\ Len(b) = FrameLen - 1 /\ Len(b) \in Nat
  BY <1>5, Sizes DEF FrameLen
<1>10. SubSeq(Frame[a], 1, FrameLen - 1) = b
  BY <1>5, <1>7, <1>9
<1>11. \A i \in 1..Payload : 2 + i \in 1..Len(b)
  BY <1>5, Sizes
<1>12. 1 \in 1..Len(b) /\ 2 \in 1..Len(b)
  BY <1>5, Sizes
<1> QED BY <1>5, <1>8, <1>9, <1>10, <1>11, <1>12 DEF D, p

\* What the parsers read from a frame is the count that was sent.
LEMMA CountIsRead ==
    ASSUME NEW a \in Axis
    PROVE  Value(Frame[a]) = Count(a)
<1>1. Base \in Nat \ {0}
  BY Sizes
<1>2. Count(a) \in Nat
  BY CountFits, EncoderAssumption
<1>3. Weight(0) = 1 /\ Weight(1) = Base /\ Weight(2) = Base * Base
  BY DEF Weight
<1>4. Count(a) \div 1 = Count(a)
  BY <1>2
<1>5. \A i \in 3..(2 + Payload) : Frame[a][i] \in Int
  <2>1. 2 + Payload <= FrameLen /\ Len(Frame[a]) = FrameLen /\ Frame[a] \in Seq(0..(Base - 1))
    BY FrameBytes, Sizes
  <2>2. \A i \in 3..(2 + Payload) : i \in 1..Len(Frame[a])
    BY <2>1, Sizes
  <2>3. \A i \in 1..Len(Frame[a]) : Frame[a][i] \in 0..(Base - 1)
    BY <2>1, Elements
  <2>4. \A j \in 0..(Base - 1) : j \in Int
    OBVIOUS
  <2> QED BY <2>2, <2>3, <2>4
<1>6. CASE Payload = 2
  <2>1. /\ Frame[a][3] = (Count(a) \div Base) % Base
        /\ Frame[a][4] = Count(a) % Base
    <3>1. /\ Frame[a][2 + 1] = (Count(a) \div Weight(2 - 1)) % Base
          /\ Frame[a][2 + 2] = (Count(a) \div Weight(2 - 2)) % Base
      BY <1>6, FrameBytes
    <3> QED BY <1>3, <1>4, <3>1
  <2>2. Value(Frame[a]) = Frame[a][3] * Base + Frame[a][4]
    BY <1>5, <1>6, ValueOfBytes
  <2>3. Count(a) < Base * Base
    BY <1>6, CountFits, EncoderAssumption
  <2> QED BY <1>1, <1>2, <2>1, <2>2, <2>3, TwoDigits
<1>7. CASE Payload = 3
  <2>1. /\ Frame[a][3] = (Count(a) \div (Base * Base)) % Base
        /\ Frame[a][4] = (Count(a) \div Base) % Base
        /\ Frame[a][5] = Count(a) % Base
    <3>1. /\ Frame[a][2 + 1] = (Count(a) \div Weight(3 - 1)) % Base
          /\ Frame[a][2 + 2] = (Count(a) \div Weight(3 - 2)) % Base
          /\ Frame[a][2 + 3] = (Count(a) \div Weight(3 - 3)) % Base
      BY <1>7, FrameBytes
    <3> QED BY <1>3, <1>4, <3>1
  <2>2. Value(Frame[a]) = (Frame[a][3] * Base + Frame[a][4]) * Base + Frame[a][5]
    BY <1>5, <1>7, ValueOfBytes
  <2>3. Count(a) < Base * (Base * Base)
    BY <1>7, CountFits, EncoderAssumption
  <2> QED BY <1>1, <1>2, <2>1, <2>2, <2>3, ThreeDigits
<1> QED BY <1>6, <1>7, Sizes

-----------------------------------------------------------------------------
(* What looks like a frame between two frames *)

\* The bytes between two frames.
LEMMA BetweenBytes ==
    ASSUME NEW a \in Axis, NEW b \in Axis, NEW i \in 2..FrameLen
    PROVE  /\ Between(a, b, i) \in Seq(0..(Base - 1)) /\ Len(Between(a, b, i)) = FrameLen
           /\ \A j \in 1..FrameLen :
                 Between(a, b, i)[j] = IF i + j - 1 <= FrameLen THEN Frame[a][i + j - 1]
                                       ELSE Frame[b][i + j - 1 - FrameLen]
<1> DEFINE D == 0..(Base - 1)
           two == Frame[a] \o Frame[b]
<1>1. /\ Frame[a] \in Seq(D) /\ Len(Frame[a]) = FrameLen
      /\ Frame[b] \in Seq(D) /\ Len(Frame[b]) = FrameLen /\ FrameLen \in Nat
  <2>1. Frame[a] \in Seq(D) /\ Len(Frame[a]) = FrameLen
    BY FrameBytes
  <2>2. Frame[b] \in Seq(D) /\ Len(Frame[b]) = FrameLen
    BY FrameBytes
  <2>3. FrameLen \in Nat
    BY Sizes
  <2> QED BY <2>1, <2>2, <2>3
<1> HIDE DEF D
<1>2. /\ two \in Seq(D) /\ Len(two) = Len(Frame[a]) + Len(Frame[b])
      /\ \A k \in 1..(Len(Frame[a]) + Len(Frame[b])) :
            two[k] = IF k <= Len(Frame[a]) THEN Frame[a][k] ELSE Frame[b][k - Len(Frame[a])]
  BY <1>1, ConcatProperties
<1> HIDE DEF two
<1>3. /\ Len(two) = FrameLen + FrameLen
      /\ \A k \in 1..(FrameLen + FrameLen) :
            two[k] = IF k <= FrameLen THEN Frame[a][k] ELSE Frame[b][k - FrameLen]
  BY <1>1, <1>2
<1> DEFINE m == i + FrameLen - 1
<1>4. i \in Int /\ m \in Int /\ i <= m /\ m - i + 1 = FrameLen
  BY <1>1
<1>5. \A k \in i..m : two[k] \in D
  <2>1. \A k \in i..m : k \in 1..Len(two)
    BY <1>1, <1>3
  <2>2. \A k \in 1..Len(two) : two[k] \in D
    BY <1>2, Elements
  <2> QED BY <2>1, <2>2
<1> HIDE DEF m
<1>6. /\ SubSeq(two, i, m) \in Seq(D) /\ Len(SubSeq(two, i, m)) = FrameLen
      /\ \A j \in 1..FrameLen : SubSeq(two, i, m)[j] = two[i + j - 1]
  BY <1>4, <1>5, SubSeqProperties
<1>7. Between(a, b, i) = SubSeq(two, i, m)
  BY DEF Between, two, m
<1>8. \A j \in 1..FrameLen : i + j - 1 \in 1..(FrameLen + FrameLen)
  BY <1>1
<1> HIDE DEF two, m
<1>9. \A j \in 1..FrameLen :
         SubSeq(two, i, m)[j] = IF i + j - 1 <= FrameLen THEN Frame[a][i + j - 1]
                                ELSE Frame[b][i + j - 1 - FrameLen]
  BY <1>3, <1>6, <1>8
<1> QED BY <1>6, <1>7, <1>9 DEF D

\* The sum is over all bytes but the last.
LEMMA SoundBytes ==
    ASSUME NEW f \in Seq(0..(Base - 1)), Len(f) = FrameLen
    PROVE  /\ \A i \in 1..FrameLen : f[i] \in 0..(Base - 1)
           /\ Payload = 2 => /\ Sum(SubSeq(f, 1, FrameLen - 1)) = (f[1] + f[2] + f[3] + f[4]) % Base
                             /\ Sound(f) <=> f[5] = (f[1] + f[2] + f[3] + f[4]) % Base
           /\ Payload = 3 =>
                 /\ Sum(SubSeq(f, 1, FrameLen - 1)) = (f[1] + f[2] + f[3] + f[4] + f[5]) % Base
                 /\ Sound(f) <=> f[6] = (f[1] + f[2] + f[3] + f[4] + f[5]) % Base
<1> DEFINE g == SubSeq(f, 1, FrameLen - 1)
<1>1. \A i \in 1..FrameLen : f[i] \in 0..(Base - 1)
  BY Elements
<1>2. \A i \in 1..FrameLen : f[i] \in Int
  BY <1>1, Sizes
<1>3. Front(f) = g /\ Last(f) = f[FrameLen]
  BY DEF Front, Last
<1>4. Len(g) = FrameLen - 1 /\ \A i \in 1..(FrameLen - 1) : g[i] = f[i]
  <2>1. FrameLen \in Int /\ FrameLen - 1 \in Int /\ 1 <= FrameLen - 1
    BY Sizes
  <2>2. \A i \in 1..(FrameLen - 1) : f[i] \in Int
    BY <1>2, <2>1
  <2>3. /\ Len(g) = (FrameLen - 1) - 1 + 1
        /\ \A i \in 1..((FrameLen - 1) - 1 + 1) : g[i] = f[1 + i - 1]
    BY <2>1, <2>2, SubSeqProperties
  <2> HIDE DEF g
  <2> QED BY <2>1, <2>3
<1> HIDE DEF g
<1>5. ASSUME Payload = 2
      PROVE  Sum(g) = (f[1] + f[2] + f[3] + f[4]) % Base /\ FrameLen = 5
  <2>1. FrameLen = 5
    BY <1>5, Sizes
  <2>2. Len(g) = 4 /\ \A i \in 1..4 : g[i] = f[i] /\ g[i] \in Int
    BY <1>2, <1>4, <2>1
  <2>3. Sum(g) = (g[1] + g[2] + g[3] + g[4]) % Base
    BY <2>2, SumOfFour
  <2> QED BY <2>1, <2>2, <2>3
<1>6. ASSUME Payload = 3
      PROVE  Sum(g) = (f[1] + f[2] + f[3] + f[4] + f[5]) % Base /\ FrameLen = 6
  <2>1. FrameLen = 6
    BY <1>6, Sizes
  <2>2. Len(g) = 5 /\ \A i \in 1..5 : g[i] = f[i] /\ g[i] \in Int
    BY <1>2, <1>4, <2>1
  <2>3. Sum(g) = (g[1] + g[2] + g[3] + g[4] + g[5]) % Base
    BY <2>2, SumOfFive
  <2> QED BY <2>1, <2>2, <2>3
<1>7. Payload = 2 => (Sound(f) <=> f[5] = (f[1] + f[2] + f[3] + f[4]) % Base)
  BY <1>3, <1>5 DEF Sound
<1>8. Payload = 3 => (Sound(f) <=> f[6] = (f[1] + f[2] + f[3] + f[4] + f[5]) % Base)
  BY <1>3, <1>6 DEF Sound
<1> QED BY <1>1, <1>5, <1>6, <1>7, <1>8 DEF g

\* A sum of a few bytes is at most a few times the radix above its rest.
LEMMA SmallRest ==
    ASSUME NEW n \in Nat, n < 5 * Base
    PROVE  /\ n % Base \in 0..(Base - 1)
           /\ n % Base \in {n, n - Base, n - 2 * Base, n - 3 * Base, n - 4 * Base}
<1> DEFINE q == n \div Base
           r == n % Base
<1>1. Base \in Nat \ {0}
  BY Sizes
<1>2. q \in Int /\ r \in 0..(Base - 1) /\ n = Base * q + r
  BY <1>1, Division
<1> HIDE DEF q, r
<1>3. ~(q <= -1)
  <2>1. ASSUME q <= -1 PROVE Base * q <= -Base
    BY <1>1, <1>2, <2>1
  <2> QED BY <1>1, <1>2, <2>1
<1>4. ~(q >= 5)
  <2>1. ASSUME q >= 5 PROVE Base * q >= 5 * Base
    BY <1>1, <1>2, <2>1
  <2> QED BY <1>1, <1>2, <2>1
<1>5. q \in {0, 1, 2, 3, 4}
  BY <1>2, <1>3, <1>4
<1>6. r \in {n, n - Base, n - 2 * Base, n - 3 * Base, n - 4 * Base}
  BY <1>1, <1>2, <1>5
<1> QED BY <1>2, <1>6 DEF r

\* Counts of positions less than a turn apart are as far apart, or a turn more.
LEMMA CountsNear ==
    ASSUME NEW a \in Int, NEW b \in Int, NEW s \in Nat, Abs(a - b) <= s, s <= Pulses
    PROVE  LET k == Count(b) - Count(a)
               m == Pulses + 1
           IN  k \in (-s)..s \/ k + m \in (-s)..s \/ k - m \in (-s)..s
<1> DEFINE m == Pulses + 1
           p == a \div m
           r == a % m
           q == b \div m
           t == b % m
<1>1. m \in Nat \ {0} /\ s < m
  BY Sizes
<1>2. /\ p \in Int /\ r \in 0..(m - 1) /\ a = m * p + r
      /\ q \in Int /\ t \in 0..(m - 1) /\ b = m * q + t
  <2> HIDE DEF m
  <2> QED BY <1>1, Division
<1>3. Count(a) = r /\ Count(b) = t
  BY DEF Count
<1> HIDE DEF m, p, r, q, t
<1> DEFINE j == q - p
           k == t - r
<1>4. m * q - m * p = m * j /\ j \in Int
  BY <1>1, <1>2
<1>5. -s <= b - a /\ b - a <= s
  BY DEF Abs
<1> HIDE DEF j
<1>6. -s <= m * j + k /\ m * j + k <= s /\ m * j \in Int /\ k \in (-(m - 1))..(m - 1)
  BY <1>1, <1>2, <1>4, <1>5
<1>7. ~(j >= 2)
  <2>1. ASSUME j >= 2 PROVE m * j >= 2 * m
    BY <1>1, <1>4, <2>1
  <2> QED BY <1>1, <1>6, <2>1
<1>8. ~(j <= -2)
  <2>1. ASSUME j <= -2 PROVE m * j <= -(2 * m)
    BY <1>1, <1>4, <2>1
  <2> QED BY <1>1, <1>6, <2>1
<1>9. j \in {-1, 0, 1}
  BY <1>4, <1>7, <1>8
<1>10. m * j \in {-m, 0, m}
  BY <1>1, <1>9
<1>11. k \in (-s)..s \/ k + m \in (-s)..s \/ k - m \in (-s)..s
  BY <1>1, <1>6, <1>10
<1> QED BY <1>3, <1>11 DEF m, k

\* The two low bytes of a count.
High(c) == (c \div Base) % Base
Low(c)  == c % Base

\* A count of two bytes is made of them (the sum of a position in recv_proc_data_*).
LEMMA LowBytes ==
    ASSUME NEW c \in Nat, c < Base * Base
    PROVE  /\ High(c) \in 0..(Base - 1) /\ Low(c) \in 0..(Base - 1)
           /\ c = Base * High(c) + Low(c)
<1>1. Base \in Nat \ {0}
  BY Sizes
<1>2. c \div Base \in Int /\ Low(c) \in 0..(Base - 1)
  BY <1>1, Division DEF Low
<1>3. High(c) \in 0..(Base - 1)
  BY <1>1, <1>2, Division DEF High
<1>4. High(c) * Base + Low(c) = c
  BY <1>1, TwoDigits DEF High, Low
<1>5. High(c) * Base = Base * High(c)
  BY <1>1, <1>3
<1> QED BY <1>2, <1>3, <1>4, <1>5

\* The counts of a turn that has as many as two bytes can say.
LEMMA TwoBytes ==
    ASSUME Pulses + 1 = Base * Base, NEW a \in Int
    PROVE  Count(a) \in Nat /\ Count(a) < Base * Base
<1> DEFINE c == Count(a)
           m == Base * Base
<1>1. c \in 0..Pulses /\ Pulses \in Nat
  BY CountFits, Sizes
<1>2. m \in Int /\ Pulses + 1 = m
  BY Sizes
<1> HIDE DEF c, m
<1>3. c \in Nat /\ c < m
  BY <1>1, <1>2
<1> QED BY <1>3 DEF c, m

\* A frame of an encoder that counts a turn in two bytes, with a third one before them or
\* without.
LEMMA SixteenBits ==
    ASSUME Pulses + 1 = Base * Base, NEW a \in Axis
    PROVE  LET c == Count(a)
               f == Frame[a]
           IN  /\ c \in Nat /\ c < Base * Base
               /\ f[1] = Mark[1] /\ f[2] = Mark[2]
               /\ Payload = 2 => /\ f[3] = High(c) /\ f[4] = Low(c)
                                 /\ f[5] = (Mark[1] + Mark[2] + High(c) + Low(c)) % Base
               /\ Payload = 3 => /\ f[3] = 0 /\ f[4] = High(c) /\ f[5] = Low(c)
                                 /\ f[6] = (Mark[1] + Mark[2] + High(c) + Low(c)) % Base
<1> DEFINE c == Count(a)
           f == Frame[a]
<1>1. c \in Nat /\ c < Base * Base
  BY EncoderAssumption, TwoBytes
<1>2. /\ f \in Seq(0..(Base - 1)) /\ Len(f) = FrameLen
      /\ f[1] = Mark[1] /\ f[2] = Mark[2]
      /\ \A i \in 1..Payload : f[2 + i] = (c \div Weight(Payload - i)) % Base
      /\ f[FrameLen] = Sum(SubSeq(f, 1, FrameLen - 1))
  BY FrameBytes
<1>3. Weight(0) = 1 /\ Weight(1) = Base /\ Weight(2) = Base * Base
  BY DEF Weight
<1> HIDE DEF c, f
<1>4. c \div 1 = c
  BY <1>1
<1>5. High(c) \in 0..(Base - 1) /\ Low(c) \in 0..(Base - 1)
  BY <1>1, LowBytes
<1>6. CASE Payload = 2
  <2>1. f[3] = High(c) /\ f[4] = Low(c)
    <3>1. /\ f[2 + 1] = (c \div Weight(2 - 1)) % Base
          /\ f[2 + 2] = (c \div Weight(2 - 2)) % Base
      BY <1>2, <1>6
    <3> QED BY <1>3, <1>4, <3>1 DEF High, Low
  <2>2. f[5] = (f[1] + f[2] + f[3] + f[4]) % Base
    <3>1. FrameLen = 5
      BY <1>6, Sizes
    <3>2. Sum(SubSeq(f, 1, FrameLen - 1)) = (f[1] + f[2] + f[3] + f[4]) % Base
      BY <1>2, <1>6, SoundBytes
    <3> QED BY <1>2, <3>1, <3>2
  <2> QED BY <1>1, <1>2, <1>6, <2>1, <2>2 DEF c, f
<1>7. CASE Payload = 3
  <2>1. f[3] = (c \div (Base * Base)) % Base /\ f[4] = High(c) /\ f[5] = Low(c)
    <3>1. /\ f[2 + 1] = (c \div Weight(3 - 1)) % Base
          /\ f[2 + 2] = (c \div Weight(3 - 2)) % Base
          /\ f[2 + 3] = (c \div Weight(3 - 3)) % Base
      BY <1>2, <1>7
    <3> QED BY <1>3, <1>4, <3>1 DEF High, Low
  <2>2. f[3] = 0
    <3> DEFINE m == Base * Base
    <3>1. m \in Nat \ {0}
      BY Sizes
    <3> HIDE DEF m
    <3>2. c \div m \in Int /\ c % m \in 0..(m - 1) /\ c = m * (c \div m) + (c % m)
      BY <1>1, <3>1, Division
    <3>3. c \in 0..(m - 1) /\ c = m * 0 + c
      BY <1>1, <3>1 DEF m
    <3>4. m * 0 + c = m * (c \div m) + (c % m)
      BY <3>2, <3>3
    <3>5. c \div m = 0
      BY <3>1, <3>2, <3>3, <3>4, OneQuotient
    <3>6. 0 % Base = 0
      <4>1. Base \in Nat \ {0} /\ 0 = Base * 0 + 0 /\ 0 \in 0..(Base - 1)
        BY Sizes
      <4>2. 0 \div Base \in Int /\ 0 % Base \in 0..(Base - 1) /\ 0 = Base * (0 \div Base) + (0 % Base)
        BY <4>1, Division
      <4> QED BY <4>1, <4>2, OneQuotient
    <3> QED BY <2>1, <3>5, <3>6 DEF m
  <2>3. f[6] = (f[1] + f[2] + f[3] + f[4] + f[5]) % Base
    <3>1. FrameLen = 6
      BY <1>7, Sizes
    <3>2. Sum(SubSeq(f, 1, FrameLen - 1)) = (f[1] + f[2] + f[3] + f[4] + f[5]) % Base
      BY <1>2, <1>7, SoundBytes
    <3> QED BY <1>2, <3>1, <3>2
  <2>4. Mark[1] + Mark[2] + 0 + High(c) + Low(c) = Mark[1] + Mark[2] + High(c) + Low(c)
    BY <1>5, Sizes
  <2> QED BY <1>1, <1>2, <1>7, <2>1, <2>2, <2>3, <2>4 DEF c, f
<1> QED BY <1>6, <1>7, Sizes

\* The rest of a multiple of the radix and a byte is the byte.
LEMMA RestIs ==
    ASSUME NEW q \in Int, NEW r \in 0..(Base - 1)
    PROVE  (Base * q + r) % Base = r
<1> DEFINE n == Base * q + r
<1>1. Base \in Nat \ {0} /\ n \in Int
  BY Sizes
<1>2. n \div Base \in Int /\ n % Base \in 0..(Base - 1) /\ n = Base * (n \div Base) + (n % Base)
  <2> HIDE DEF n
  <2> QED BY <1>1, Division
<1>3. Base * (n \div Base) + (n % Base) = Base * q + r
  BY <1>2
<1> HIDE DEF n
<1>4. n % Base = r
  BY <1>1, <1>2, <1>3, OneQuotient
<1> QED BY <1>4 DEF n

\* The header in numbers.
LEMMA HeaderNumbers ==
    ASSUME HeaderApart
    PROVE  /\ Mark[1] \in 1..(Base - 1) /\ Mark[2] \in 0..(Base - 1) /\ Mark[1] # Mark[2]
           /\ 2 * Mark[1] # Base /\ Base # 3
           /\ (Mark[1] + Mark[2] + Mark[1] + Mark[2]) % Base = 0
<1>1. /\ Base \in Nat /\ Base > 1 /\ Mark[1] \in 0..(Base - 1) /\ Mark[2] \in 0..(Base - 1)
  BY Sizes
<1>2. Mark[1] # Mark[2] /\ Base % 2 = 0
  BY DEF HeaderApart
<1>3. Base # 3
  BY <1>2
<1>4. Mark[1] # 0
  <2>1. (Base * 0 + 0) % Base = 0
    BY <1>1, RestIs
  <2>2. Base * 0 + 0 = 2 * 0
    BY <1>1
  <2> QED BY <2>1, <2>2 DEF HeaderApart
<1>5. 2 * Mark[1] # Base
  <2>1. (Base * 1 + 0) % Base = 0
    BY <1>1, RestIs
  <2>2. Base * 1 + 0 = Base
    BY <1>1
  <2> QED BY <2>1, <2>2 DEF HeaderApart
<1>6. 2 * (Mark[1] + Mark[2]) = Mark[1] + Mark[2] + Mark[1] + Mark[2]
  BY <1>1
<1>7. (Mark[1] + Mark[2] + Mark[1] + Mark[2]) % Base = 0
  BY <1>6 DEF HeaderApart
<1> QED BY <1>1, <1>2, <1>3, <1>4, <1>5, <1>7

\* Where a count has the header for its bytes, the sum after it makes no frame.
LEMMA HeaderInCount ==
    ASSUME HeaderApart
    PROVE  Mark[2] # (Mark[1] + Mark[2] + 0 + Mark[1]) % Base
<1> DEFINE n == Mark[1] + Mark[2] + 0 + Mark[1]
<1>1. /\ Mark[1] \in 1..(Base - 1) /\ Mark[2] \in 0..(Base - 1) /\ 2 * Mark[1] # Base
      /\ Base \in Nat
  BY HeaderNumbers, Sizes
<1>2. n \in Nat /\ n < 5 * Base
  BY <1>1
<1>3. n % Base \in {n, n - Base, n - 2 * Base, n - 3 * Base, n - 4 * Base}
  <2> HIDE DEF n
  <2> QED BY <1>2, SmallRest
<1>4. Mark[2] \notin {n, n - Base, n - 2 * Base, n - 3 * Base, n - 4 * Base}
  BY <1>1
<1> QED BY <1>3, <1>4

\* Where the last byte of a count and the sum are a header, the position after it does
\* not begin with the sum that would make a frame.
LEMMA HeaderAtSum ==
    ASSUME HeaderApart, Pulses + 1 = Base * Base, MaxStep < Base,
           NEW a \in Int, NEW b \in Int, Abs(a - b) <= MaxStep,
           Low(Count(a)) = Mark[1],
           Mark[2] = (Mark[1] + Mark[2] + High(Count(a)) + Low(Count(a))) % Base
    PROVE  High(Count(b)) # 0
<1> DEFINE c == Count(a)
           d == Count(b)
           u == High(c)
           v == High(d)
           w == Low(d)
           x == Mark[1]
           y == Mark[2]
           n == x + y + u + x
<1>1. /\ x \in 1..(Base - 1) /\ y \in 0..(Base - 1) /\ 2 * x # Base /\ Base # 3
      /\ Base \in Nat /\ Base > 1
  BY HeaderNumbers, Sizes
<1>2. c \in Nat /\ c < Base * Base /\ d \in Nat /\ d < Base * Base
  BY TwoBytes
<1> DEFINE m == Base * Base
<1>3. /\ m \in Nat /\ m >= Base /\ MaxStep \in Nat /\ MaxStep < Base
      /\ \/ d - c \in (-MaxStep)..MaxStep
         \/ d - c + m \in (-MaxStep)..MaxStep
         \/ d - c - m \in (-MaxStep)..MaxStep
  <2>1. MaxStep \in Nat /\ MaxStep < Base
    BY EncoderAssumption
  <2>2. m \in Nat /\ m >= Base /\ Pulses + 1 = m /\ Pulses \in Nat
    BY Sizes
  <2> HIDE DEF m
  <2>3. MaxStep <= Pulses
    BY <1>1, <2>1, <2>2
  <2>4. \/ d - c \in (-MaxStep)..MaxStep
        \/ d - c + (Pulses + 1) \in (-MaxStep)..MaxStep
        \/ d - c - (Pulses + 1) \in (-MaxStep)..MaxStep
    BY <2>1, <2>3, CountsNear
  <2> QED BY <2>1, <2>2, <2>4
<1>4. /\ u \in 0..(Base - 1) /\ c = Base * u + x
      /\ v \in 0..(Base - 1) /\ w \in 0..(Base - 1) /\ d = Base * v + w
  <2>1. Low(c) = x
    OBVIOUS
  <2> HIDE DEF c, d, x
  <2>2. u \in 0..(Base - 1) /\ Low(c) \in 0..(Base - 1) /\ c = Base * u + Low(c)
    BY <1>2, LowBytes
  <2>3. v \in 0..(Base - 1) /\ w \in 0..(Base - 1) /\ d = Base * v + w
    BY <1>2, LowBytes
  <2> QED BY <2>1, <2>2, <2>3
<1>5. y = n % Base
  OBVIOUS
<1> HIDE DEF c, d, u, v, w, x, y, n
<1>6. n \in Nat /\ n < 5 * Base
  BY <1>1, <1>4 DEF n
<1>7. y \in {n, n - Base, n - 2 * Base, n - 3 * Base, n - 4 * Base}
  BY <1>5, <1>6, SmallRest
<1>8. x + u + x \in {0, Base, 2 * Base, 3 * Base, 4 * Base}
  BY <1>1, <1>4, <1>7 DEF n
<1>9. SUFFICES ASSUME v = 0 PROVE FALSE
  BY DEF v, d
<1>10. Base % 2 = 0
  BY DEF HeaderApart
<1>11. u # 0 /\ u # 1 /\ u # Base - 1
  BY <1>1, <1>4, <1>8, <1>10
<1>12. Base * u >= 2 * Base /\ Base * u <= m - 2 * Base
  <2>1. 2 <= u /\ u <= Base - 2 /\ u \in Int
    BY <1>1, <1>4, <1>11
  <2>2. Base * u >= Base * 2 /\ Base * u <= Base * (Base - 2)
    BY <1>1, <2>1
  <2>3. Base * (Base - 2) = m - 2 * Base
    BY <1>1
  <2> QED BY <1>1, <2>2, <2>3
<1>13. d = w
  <2>1. Base * v = 0
    BY <1>1, <1>9
  <2> QED BY <1>4, <2>1
<1> HIDE DEF m
<1>14. Base * u \in Int
  BY <1>1, <1>4
<1> QED BY <1>1, <1>3, <1>4, <1>12, <1>13, <1>14

\* Encoders whose turn has 2^16 counts and whose header is FF 81 send nothing that a
\* parser could take for another position, and with two bytes for it nothing at all that it
\* could take for a frame.
LEMMA SixteenBitsApart ==
    ASSUME HeaderApart, Pulses + 1 = Base * Base, MaxStep < Base
    PROVE  FramesApart /\ (Payload = 2 => FramesAlone)
<1>1. SUFFICES ASSUME NEW a \in Axis, NEW b \in Axis, Abs(a - b) <= MaxStep, NEW i \in 2..FrameLen,
                      IsHead(Between(a, b, i), 1), Sound(Between(a, b, i))
               PROVE  /\ Payload # 2
                      /\ Signed(Value(Between(a, b, i))) \in {PositionOf[a], PositionOf[b]}
  BY DEF FramesApart, FramesAlone
<1> DEFINE f == Between(a, b, i)
           g == Frame[a]
           h == Frame[b]
           c == Count(a)
           d == Count(b)
           x == Mark[1]
           y == Mark[2]
<1>2. a \in Int /\ b \in Int
  BY EncoderAssumption
<1>3. /\ f \in Seq(0..(Base - 1)) /\ Len(f) = FrameLen
      /\ \A j \in 1..FrameLen : f[j] = IF i + j - 1 <= FrameLen THEN g[i + j - 1]
                                       ELSE h[i + j - 1 - FrameLen]
  BY BetweenBytes
<1>4. f[1] = x /\ f[2] = y /\ Sound(f)
  BY <1>1 DEF IsHead
<1>5. /\ x \in 1..(Base - 1) /\ y \in 0..(Base - 1) /\ x # y
      /\ (x + y + x + y) % Base = 0
  BY HeaderNumbers
<1>6. /\ c \in Nat /\ c < Base * Base
      /\ g[2] = y
      /\ Payload = 2 => /\ g[3] = High(c) /\ g[4] = Low(c)
                        /\ g[5] = (x + y + High(c) + Low(c)) % Base
      /\ Payload = 3 => /\ g[3] = 0 /\ g[4] = High(c) /\ g[5] = Low(c)
                        /\ g[6] = (x + y + High(c) + Low(c)) % Base
  BY SixteenBits
<1>7. /\ h[1] = x /\ h[2] = y
      /\ Payload = 2 => h[3] = High(d)
      /\ Payload = 3 => h[3] = 0 /\ h[4] = High(d)
  BY SixteenBits
<1>8. y # (x + y + 0 + x) % Base
  BY HeaderInCount
<1>9. Low(c) = x /\ y = (x + y + High(c) + Low(c)) % Base => High(d) # 0
  BY <1>1, <1>2, HeaderAtSum
<1>10. c = Base * High(c) + Low(c) /\ High(c) \in Int /\ Low(c) \in Int
  <2> HIDE DEF c
  <2> QED BY <1>6, LowBytes
<1>11. /\ Payload = 2 => f[5] = (f[1] + f[2] + f[3] + f[4]) % Base
       /\ Payload = 3 => f[6] = (f[1] + f[2] + f[3] + f[4] + f[5]) % Base
       /\ \A j \in 1..FrameLen : f[j] \in Int
  <2> HIDE DEF f, g, h, c, d, x, y
  <2>1. f \in Seq(0..(Base - 1)) /\ Len(f) = FrameLen
    BY <1>3
  <2>2. /\ \A j \in 1..FrameLen : f[j] \in 0..(Base - 1)
        /\ Payload = 2 => (Sound(f) <=> f[5] = (f[1] + f[2] + f[3] + f[4]) % Base)
        /\ Payload = 3 => (Sound(f) <=> f[6] = (f[1] + f[2] + f[3] + f[4] + f[5]) % Base)
    BY <2>1, SoundBytes
  <2>3. \A j \in 0..(Base - 1) : j \in Int
    OBVIOUS
  <2>4. Sound(f)
    BY <1>4
  <2> QED BY <2>2, <2>3, <2>4
<1>12. PositionOf[a] = Signed(c)
  BY DEF PositionOf
<1> HIDE DEF f, g, h, c, d, x, y
<1>13. CASE Payload = 2
  <2>1. FrameLen = 5 /\ i \in {2, 3, 4, 5}
    BY <1>13, Sizes
  <2>2. CASE i = 2
    <3>1. f[1] = g[2]
      BY <1>3, <2>1, <2>2
    <3> QED BY <1>4, <1>5, <1>6, <3>1
  <2>3. CASE i = 3
    <3>1. f[1] = g[3] /\ f[2] = g[4] /\ f[3] = g[5] /\ f[4] = h[1] /\ f[5] = h[2]
      BY <1>3, <2>1, <2>3
    <3>2. High(c) = x /\ Low(c) = y
      BY <1>4, <1>6, <1>13, <3>1
    <3>3. f[3] = 0
      BY <1>5, <1>6, <1>13, <3>1, <3>2
    <3>4. y = (x + y + 0 + x) % Base
      BY <1>4, <1>7, <1>11, <1>13, <3>1, <3>3
    <3> QED BY <1>8, <3>4
  <2>4. CASE i = 4
    <3>1. f[1] = g[4] /\ f[2] = g[5] /\ f[3] = h[1] /\ f[4] = h[2] /\ f[5] = h[3]
      BY <1>3, <2>1, <2>4
    <3>2. Low(c) = x /\ y = (x + y + High(c) + Low(c)) % Base
      BY <1>4, <1>6, <1>13, <3>1
    <3>3. High(d) = (x + y + x + y) % Base
      BY <1>4, <1>7, <1>11, <1>13, <3>1
    <3> QED BY <1>5, <1>9, <3>2, <3>3
  <2>5. CASE i = 5
    <3>1. f[2] = h[1]
      BY <1>3, <2>1, <2>5
    <3> QED BY <1>4, <1>5, <1>7, <3>1
  <2> QED BY <2>1, <2>2, <2>3, <2>4, <2>5
<1>14. CASE Payload = 3
  <2>1. FrameLen = 6 /\ i \in {2, 3, 4, 5, 6}
    BY <1>14, Sizes
  <2>2. CASE i = 2
    <3>1. f[1] = g[2]
      BY <1>3, <2>1, <2>2
    <3> QED BY <1>4, <1>5, <1>6, <3>1
  <2>3. CASE i = 3
    <3>1. f[1] = g[3]
      BY <1>3, <2>1, <2>3
    <3> QED BY <1>4, <1>5, <1>6, <1>14, <3>1
  <2>4. CASE i = 4
    <3>1. f[1] = g[4] /\ f[2] = g[5] /\ f[3] = g[6] /\ f[4] = h[1] /\ f[5] = h[2]
      BY <1>3, <2>1, <2>4
    <3>2. High(c) = x /\ Low(c) = y
      BY <1>4, <1>6, <1>14, <3>1
    <3>3. f[3] = 0
      BY <1>5, <1>6, <1>14, <3>1, <3>2
    <3>4. Value(f) = (f[3] * Base + f[4]) * Base + f[5]
      BY <1>11, <1>14, <2>1, ValueOfBytes
    <3>5. Value(f) = (0 * Base + x) * Base + y
      BY <1>7, <3>1, <3>3, <3>4
    <3>6. (0 * Base + x) * Base + y = Base * x + y
      BY <1>5, Sizes
    <3>7. Value(f) = c
      BY <1>10, <3>2, <3>5, <3>6
    <3>8. Signed(Value(f)) = PositionOf[a]
      BY <1>12, <3>7
    <3> QED BY <1>14, <3>8 DEF f
  <2>5. CASE i = 5
    <3>1. f[1] = g[5] /\ f[2] = g[6] /\ f[3] = h[1] /\ f[4] = h[2] /\ f[5] = h[3] /\ f[6] = h[4]
      BY <1>3, <2>1, <2>5
    <3>2. Low(c) = x /\ y = (x + y + High(c) + Low(c)) % Base
      BY <1>4, <1>6, <1>14, <3>1
    <3>3. High(d) = (x + y + x + y + 0) % Base
      BY <1>4, <1>7, <1>11, <1>14, <3>1
    <3>4. x + y + x + y + 0 = x + y + x + y
      BY <1>5
    <3> QED BY <1>5, <1>9, <3>2, <3>3, <3>4
  <2>6. CASE i = 6
    <3>1. f[2] = h[1]
      BY <1>3, <2>1, <2>6
    <3> QED BY <1>4, <1>5, <1>7, <3>1
  <2> QED BY <2>1, <2>2, <2>3, <2>4, <2>5, <2>6
<1> QED BY <1>13, <1>14, Sizes

-----------------------------------------------------------------------------
(* What the bytes in the buffer and in the driver are, while none is lost *)

\* The byte that r others follow, when the last frame is of g[0], the one before of g[1]
\* and so on.
ByteOf(g, r) == Frame[g[r \div FrameLen]][FrameLen - (r % FrameLen)]

\* The last bytes of frames of positions in S, each at most MaxStep from the next one, the
\* last of them a: b is in the buffer, w in the driver.
StreamOf(g, S, a, b, w) ==
    /\ g \in [Nat -> S] /\ g[0] = a
    /\ \A m \in Nat : Abs(g[m] - g[m + 1]) <= MaxStep
    /\ \A i \in 1..Len(b) : b[i] = ByteOf(g, Len(b) + Len(w) - i)
    /\ \A i \in 1..Len(w) : w[i] = ByteOf(g, Len(w) - i)
Streamed(S, a, b, w) == \E g : StreamOf(g, S, a, b, w)

\* As many bytes as q frames have are in the buffer and in the driver; and as many behind what
\* looks like the first frame of the buffer.
Whole(b, w, q) == Len(b) + Len(w) = FrameLen * q
Behind(b, w, q) == Len(b) + Len(w) - (FirstHead(b) + FrameLen - 1) = FrameLen * q

\* One more frame, of c.
Shifted(g, c) == [m \in Nat |-> IF m = 0 THEN c ELSE g[m - 1]]

\* The frame a byte is in, and its place there.
LEMMA Places ==
    ASSUME NEW r \in Nat
    PROVE  /\ r \div FrameLen \in Nat /\ r % FrameLen \in 0..(FrameLen - 1)
           /\ r = FrameLen * (r \div FrameLen) + (r % FrameLen)
           /\ r < FrameLen => r \div FrameLen = 0 /\ r % FrameLen = r
           /\ (r + FrameLen) \div FrameLen = (r \div FrameLen) + 1
           /\ (r + FrameLen) % FrameLen = r % FrameLen
<1>1. CASE FrameLen = 5
  BY <1>1
<1>2. CASE FrameLen = 6
  BY <1>2
<1> QED BY <1>1, <1>2, Sizes

\* The byte at a place of a frame.
LEMMA ByteAt ==
    ASSUME NEW g, NEW q \in Nat, NEW u \in 0..(FrameLen - 1)
    PROVE  ByteOf(g, FrameLen * q + u) = Frame[g[q]][FrameLen - u]
<1>1. (FrameLen * q + u) \div FrameLen = q /\ (FrameLen * q + u) % FrameLen = u
  <2>1. CASE FrameLen = 5
    BY <2>1
  <2>2. CASE FrameLen = 6
    BY <2>2
  <2> QED BY <2>1, <2>2, Sizes
<1> QED BY <1>1 DEF ByteOf

\* The line is opened inside a frame.
LEMMA StreamBegins ==
    ASSUME NEW a \in Axis, NEW k \in 1..FrameLen
    PROVE  Streamed({a}, a, <<>>, SubSeq(Frame[a], k, FrameLen))
<1>1. Frame[a] \in Seq(0..(Base - 1)) /\ Len(Frame[a]) = FrameLen /\ FrameLen \in Int /\ a \in Int
  <2>1. Frame[a] \in Seq(0..(Base - 1)) /\ Len(Frame[a]) = FrameLen
    BY FrameBytes
  <2>2. FrameLen \in Int
    BY Sizes
  <2>3. a \in Int
    BY EncoderAssumption
  <2> QED BY <2>1, <2>2, <2>3
<1> DEFINE g == [m \in Nat |-> a]
           w == SubSeq(Frame[a], k, FrameLen)
<1>2. Len(w) = FrameLen - k + 1 /\ \A i \in 1..Len(w) : w[i] = Frame[a][k + i - 1]
  <2>1. \A i \in k..FrameLen : Frame[a][i] \in 0..(Base - 1)
    <3>1. \A i \in 1..Len(Frame[a]) : Frame[a][i] \in 0..(Base - 1)
      BY <1>1, Elements
    <3>2. \A i \in k..FrameLen : i \in 1..Len(Frame[a])
      BY <1>1
    <3> QED BY <3>1, <3>2
  <2>2. k \in Int /\ k <= FrameLen
    BY <1>1
  <2> QED BY <1>1, <2>1, <2>2, SubSeqProperties
<1> HIDE DEF w
<1>3. \A i \in 1..Len(w) : w[i] = ByteOf(g, Len(w) - i)
  <2> TAKE i \in 1..Len(w)
  <2> DEFINE r == Len(w) - i
  <2>1. r \in 0..(FrameLen - 1) /\ FrameLen - r = k + i - 1 /\ r = FrameLen * 0 + r
    BY <1>1, <1>2
  <2> HIDE DEF r
  <2>2. ByteOf(g, FrameLen * 0 + r) = Frame[g[0]][FrameLen - r]
    BY <2>1, ByteAt
  <2>3. ByteOf(g, r) = Frame[a][k + i - 1]
    BY <2>1, <2>2
  <2> QED BY <1>2, <2>3 DEF r
<1>4. \A m \in Nat : Abs(g[m] - g[m + 1]) <= MaxStep
  <2>1. MaxStep \in Nat /\ Abs(a - a) = 0
    BY <1>1, EncoderAssumption DEF Abs
  <2> QED BY <2>1
<1>5. g \in [Nat -> {a}] /\ g[0] = a
  OBVIOUS
<1> HIDE DEF g
<1>6. StreamOf(g, {a}, a, <<>>, w)
  BY <1>3, <1>4, <1>5 DEF StreamOf
<1> QED BY <1>6 DEF Streamed, w

\* The axis is at most MaxStep pulses from where it was in the frame before.
LEMMA StepAhead ==
    ASSUME axis \in Int, NEW c \in Ahead
    PROVE  Abs(c - axis) <= MaxStep
<1>1. MaxStep \in Nat
  BY EncoderAssumption
<1>2. c \in axis..(axis + MaxStep) \/ c \in (axis - MaxStep)..axis
  BY DEF Ahead
<1> QED BY <1>1, <1>2 DEF Abs

\* What was sent before is one frame further away.
LEMMA ShiftedIs ==
    ASSUME NEW g, NEW c, NEW m \in Nat
    PROVE  Shifted(g, c)[m + 1] = g[m]
<1>1. m + 1 \in Nat /\ m + 1 # 0 /\ (m + 1) - 1 = m
  OBVIOUS
<1> QED BY <1>1 DEF Shifted

\* A frame more in the driver.
LEMMA SentLength ==
    ASSUME NEW w \in Seq(0..(Base - 1)), NEW c \in Axis
    PROVE  Len(w \o Frame[c]) = Len(w) + FrameLen
<1>1. Frame[c] \in Seq(0..(Base - 1)) /\ Len(Frame[c]) = FrameLen
  BY FrameBytes
<1>2. Len(w \o Frame[c]) = Len(w) + Len(Frame[c])
  BY <1>1, ConcatProperties
<1> QED BY <1>1, <1>2

\* The encoder sends a frame.
LEMMA StreamGrows ==
    ASSUME NEW S \in SUBSET Axis, NEW a \in Axis, NEW c \in Axis, Abs(c - a) <= MaxStep,
           NEW b \in Seq(0..(Base - 1)), NEW w \in Seq(0..(Base - 1)),
           NEW g, StreamOf(g, S, a, b, w)
    PROVE  StreamOf(Shifted(g, c), S \cup {c}, c, b, w \o Frame[c])
<1>1. StreamOf(g, S, a, b, w)
  OBVIOUS
<1> DEFINE h == [m \in Nat |-> IF m = 0 THEN c ELSE g[m - 1]]
           x == w \o Frame[c]
<1>2. /\ Frame[c] \in Seq(0..(Base - 1)) /\ Len(Frame[c]) = FrameLen /\ FrameLen \in Nat
      /\ Len(w) \in Nat /\ Len(b) \in Nat
  BY FrameBytes, Sizes
<1>3. /\ Len(x) = Len(w) + FrameLen
      /\ \A i \in 1..(Len(w) + FrameLen) :
            x[i] = IF i <= Len(w) THEN w[i] ELSE Frame[c][i - Len(w)]
  <2>1. /\ Len(x) = Len(w) + Len(Frame[c])
        /\ \A i \in 1..(Len(w) + Len(Frame[c])) :
              x[i] = IF i <= Len(w) THEN w[i] ELSE Frame[c][i - Len(w)]
    BY <1>2, ConcatProperties
  <2> QED BY <1>2, <2>1
<1>4. /\ g \in [Nat -> S] /\ g[0] = a /\ \A m \in Nat : Abs(g[m] - g[m + 1]) <= MaxStep
      /\ \A i \in 1..Len(b) : b[i] = ByteOf(g, Len(b) + Len(w) - i)
      /\ \A i \in 1..Len(w) : w[i] = ByteOf(g, Len(w) - i)
  BY <1>1 DEF StreamOf
<1>5. h \in [Nat -> S \cup {c}] /\ h[0] = c /\ \A m \in Nat : h[m + 1] = g[m]
  <2>1. \A m \in Nat : (IF m = 0 THEN c ELSE g[m - 1]) \in S \cup {c}
    <3> TAKE m \in Nat
    <3>1. CASE m = 0
      BY <3>1
    <3>2. CASE m # 0
      <4>1. m - 1 \in Nat
        BY <3>2
      <4> QED BY <1>4, <3>2, <4>1
    <3> QED BY <3>1, <3>2
  <2>2. h \in [Nat -> S \cup {c}]
    BY <2>1
  <2>3. h[0] = c
    OBVIOUS
  <2>4. \A m \in Nat : h[m + 1] = g[m]
    <3> TAKE m \in Nat
    <3>1. m + 1 \in Nat /\ m + 1 # 0 /\ (m + 1) - 1 = m
      OBVIOUS
    <3> QED BY <3>1
  <2> QED BY <2>2, <2>3, <2>4
<1> HIDE DEF h, x
<1>6. \A m \in Nat : Abs(h[m] - h[m + 1]) <= MaxStep
  <2> TAKE m \in Nat
  <2>1. CASE m = 0
    BY <1>4, <1>5, <2>1
  <2>2. CASE m # 0
    <3>1. PICK k \in Nat : m = k + 1
      BY <2>2
    <3> QED BY <1>4, <1>5, <3>1
  <2> QED BY <2>1, <2>2
<1>7. ASSUME NEW r \in Nat PROVE ByteOf(h, r + FrameLen) = ByteOf(g, r)
  BY <1>5, Places DEF ByteOf
<1>8. \A i \in 1..Len(b) : b[i] = ByteOf(h, Len(b) + Len(x) - i)
  <2> TAKE i \in 1..Len(b)
  <2> DEFINE r == Len(b) + Len(w) - i
  <2>1. r \in Nat /\ Len(b) + Len(x) - i = r + FrameLen
    BY <1>2, <1>3
  <2>2. b[i] = ByteOf(g, r)
    BY <1>4
  <2> HIDE DEF r
  <2> QED BY <1>7, <2>1, <2>2
<1>9. \A i \in 1..Len(x) : x[i] = ByteOf(h, Len(x) - i)
  <2> TAKE i \in 1..Len(x)
  <2>1. CASE i <= Len(w)
    <3> DEFINE r == Len(w) - i
    <3>1. /\ r \in Nat /\ Len(x) - i = r + FrameLen
          /\ i \in 1..Len(w) /\ i \in 1..(Len(w) + FrameLen)
      BY <1>2, <1>3, <2>1
    <3>2. x[i] = w[i] /\ w[i] = ByteOf(g, r)
      BY <1>3, <1>4, <2>1, <3>1
    <3> HIDE DEF r
    <3> QED BY <1>7, <3>1, <3>2
  <2>2. CASE i > Len(w)
    <3> DEFINE r == Len(x) - i
    <3>1. r \in 0..(FrameLen - 1) /\ FrameLen - r = i - Len(w)
      BY <1>2, <1>3, <2>2
    <3>2. r = FrameLen * 0 + r
      BY <1>2, <3>1
    <3>3. x[i] = Frame[c][i - Len(w)]
      <4>1. i \in 1..(Len(w) + FrameLen) /\ ~(i <= Len(w))
        BY <1>2, <1>3, <2>2
      <4> QED BY <1>3, <4>1
    <3> HIDE DEF r
    <3>4. ByteOf(h, FrameLen * 0 + r) = Frame[h[0]][FrameLen - r]
      BY <3>1, ByteAt
    <3> QED BY <1>5, <3>1, <3>2, <3>3, <3>4 DEF r
  <2> QED BY <1>2, <2>1, <2>2
<1>10. StreamOf(h, S \cup {c}, c, b, x)
  BY <1>5, <1>6, <1>8, <1>9 DEF StreamOf
<1>11. h = Shifted(g, c)
  BY DEF h, Shifted
<1> QED BY <1>10, <1>11 DEF x

\* A set of natural numbers has a least one.
LEMMA LeastNumber ==
    ASSUME NEW S \in SUBSET Nat, S # {}
    PROVE  \E m \in S : \A n \in S : m <= n
<1> DEFINE R == OpToRel(<, Nat)
<1>1. IsWellFoundedOn(R, Nat)
  BY NatLessThanWellFounded
<1>2. \E x \in S : \A y \in S : <<y, x>> \notin R
  <2> HIDE DEF R
  <2> QED BY <1>1, WFMin
<1>3. \A x, y \in Nat : <<y, x>> \notin R => x <= y
  BY DEF OpToRel
<1> QED BY <1>2, <1>3

\* Bytes go from the driver to the buffer.
LEMMA StreamRead ==
    ASSUME NEW S \in SUBSET Axis, NEW a \in Axis,
           NEW b \in Seq(0..(Base - 1)), NEW w \in Seq(0..(Base - 1)),
           NEW g, StreamOf(g, S, a, b, w), NEW n \in 0..Len(w)
    PROVE  /\ StreamOf(g, S, a, b \o SubSeq(w, 1, n), SubSeq(w, n + 1, Len(w)))
           /\ Len(b \o SubSeq(w, 1, n)) + Len(SubSeq(w, n + 1, Len(w))) = Len(b) + Len(w)
<1>1. StreamOf(g, S, a, b, w)
  OBVIOUS
<1> DEFINE D == 0..(Base - 1)
           v == SubSeq(w, 1, n)
           c == b \o v
           x == SubSeq(w, n + 1, Len(w))
<1>2. Len(w) \in Nat /\ Len(b) \in Nat /\ n \in Nat /\ n <= Len(w)
  OBVIOUS
<1>3. \A i \in 1..Len(w) : w[i] \in D
  BY Elements
<1> HIDE DEF D
<1>4. v \in Seq(D) /\ Len(v) = n /\ \A i \in 1..n : v[i] = w[i]
  <2>1. /\ v \in Seq(D) /\ Len(v) = (IF 1 <= n THEN n - 1 + 1 ELSE 0)
        /\ \A i \in 1..(n - 1 + 1) : v[i] = w[1 + i - 1]
    <3>1. \A i \in 1..n : w[i] \in D
      BY <1>2, <1>3
    <3> QED BY <1>2, <3>1, SubSeqProperties
  <2> HIDE DEF v
  <2> QED BY <1>2, <2>1
<1>5. Len(x) = Len(w) - n /\ \A i \in 1..(Len(w) - n) : x[i] = w[n + i]
  <2>1. /\ Len(x) = (IF n + 1 <= Len(w) THEN Len(w) - (n + 1) + 1 ELSE 0)
        /\ \A i \in 1..(Len(w) - (n + 1) + 1) : x[i] = w[(n + 1) + i - 1]
    <3>1. \A i \in (n + 1)..Len(w) : w[i] \in D
      BY <1>2, <1>3
    <3>2. n + 1 \in Int /\ Len(w) \in Int
      BY <1>2
    <3> QED BY <3>1, <3>2, SubSeqProperties
  <2> HIDE DEF x
  <2> QED BY <1>2, <2>1
<1> HIDE DEF v, x
<1>6. Len(c) = Len(b) + n /\ \A i \in 1..(Len(b) + n) : c[i] = IF i <= Len(b) THEN b[i]
                                                               ELSE w[i - Len(b)]
  <2>1. b \in Seq(D)
    BY DEF D
  <2>2. /\ Len(c) = Len(b) + Len(v)
        /\ \A i \in 1..(Len(b) + Len(v)) : c[i] = IF i <= Len(b) THEN b[i] ELSE v[i - Len(b)]
    BY <1>4, <2>1, ConcatProperties
  <2> HIDE DEF c
  <2> QED BY <1>2, <1>4, <2>2
<1> HIDE DEF c
<1>7. /\ \A i \in 1..Len(b) : b[i] = ByteOf(g, Len(b) + Len(w) - i)
      /\ \A i \in 1..Len(w) : w[i] = ByteOf(g, Len(w) - i)
  BY <1>1 DEF StreamOf
<1>8. \A i \in 1..Len(c) : c[i] = ByteOf(g, Len(c) + Len(x) - i)
  <2> TAKE i \in 1..Len(c)
  <2>1. Len(c) + Len(x) - i = Len(b) + Len(w) - i /\ i \in 1..(Len(b) + n)
    BY <1>2, <1>5, <1>6
  <2>2. CASE i <= Len(b)
    <3>1. c[i] = b[i] /\ i \in 1..Len(b)
      BY <1>2, <1>6, <2>1, <2>2
    <3> QED BY <1>7, <2>1, <3>1
  <2>3. CASE ~(i <= Len(b))
    <3>1. c[i] = w[i - Len(b)] /\ i - Len(b) \in 1..Len(w)
      BY <1>2, <1>6, <2>1, <2>3
    <3>2. Len(w) - (i - Len(b)) = Len(b) + Len(w) - i
      BY <1>2, <2>1
    <3> QED BY <1>7, <2>1, <3>1, <3>2
  <2> QED BY <2>2, <2>3
<1>9. \A i \in 1..Len(x) : x[i] = ByteOf(g, Len(x) - i)
  <2> TAKE i \in 1..Len(x)
  <2>1. x[i] = w[n + i] /\ n + i \in 1..Len(w) /\ Len(w) - (n + i) = Len(x) - i
    BY <1>2, <1>5
  <2> QED BY <1>7, <2>1
<1>10. StreamOf(g, S, a, c, x)
  BY <1>1, <1>8, <1>9 DEF StreamOf
<1>11. Len(c) + Len(x) = Len(b) + Len(w)
  BY <1>2, <1>5, <1>6
<1> QED BY <1>10, <1>11 DEF c, v, x

\* The first bytes leave the buffer.
LEMMA StreamCut ==
    ASSUME NEW S \in SUBSET Axis, NEW a \in Axis,
           NEW b \in Seq(0..(Base - 1)), NEW w \in Seq(0..(Base - 1)),
           NEW g, StreamOf(g, S, a, b, w), NEW n \in 1..(Len(b) + 1)
    PROVE  /\ StreamOf(g, S, a, SubSeq(b, n, Len(b)), w)
           /\ Len(SubSeq(b, n, Len(b))) = Len(b) - n + 1
<1>1. StreamOf(g, S, a, b, w)
  OBVIOUS
<1> DEFINE D == 0..(Base - 1)
           c == SubSeq(b, n, Len(b))
<1>2. Len(w) \in Nat /\ Len(b) \in Nat /\ n \in Int /\ 1 <= n /\ n <= Len(b) + 1
  OBVIOUS
<1>3. \A i \in 1..Len(b) : b[i] \in D
  BY Elements
<1> HIDE DEF D
<1>4. Len(c) = Len(b) - n + 1 /\ \A i \in 1..(Len(b) - n + 1) : c[i] = b[n + i - 1]
  <2>1. /\ Len(c) = (IF n <= Len(b) THEN Len(b) - n + 1 ELSE 0)
        /\ \A i \in 1..(Len(b) - n + 1) : c[i] = b[n + i - 1]
    <3>1. \A i \in n..Len(b) : b[i] \in D
      BY <1>2, <1>3
    <3>2. n \in Int /\ Len(b) \in Int
      BY <1>2
    <3> QED BY <3>1, <3>2, SubSeqProperties
  <2> HIDE DEF c
  <2> QED BY <1>2, <2>1
<1> HIDE DEF c
<1>5. \A i \in 1..Len(b) : b[i] = ByteOf(g, Len(b) + Len(w) - i)
  BY <1>1 DEF StreamOf
<1>6. \A i \in 1..Len(c) : c[i] = ByteOf(g, Len(c) + Len(w) - i)
  <2> TAKE i \in 1..Len(c)
  <2>1. /\ c[i] = b[n + i - 1] /\ n + i - 1 \in 1..Len(b)
        /\ Len(b) + Len(w) - (n + i - 1) = Len(c) + Len(w) - i
    BY <1>2, <1>4
  <2> QED BY <1>5, <2>1
<1>7. StreamOf(g, S, a, c, w)
  BY <1>1, <1>6 DEF StreamOf
<1> QED BY <1>4, <1>7 DEF c

\* The buffer is emptied.
LEMMA StreamDropped ==
    ASSUME NEW S \in SUBSET Axis, NEW a \in Axis,
           NEW b, NEW w, NEW g, StreamOf(g, S, a, b, w)
    PROVE  StreamOf(g, S, a, <<>>, w)
<1>1. Len(<<>>) = 0 /\ \A i \in 1..0 : FALSE
  OBVIOUS
<1>2. \A i \in 1..Len(<<>>) : <<>>[i] = ByteOf(g, Len(<<>>) + Len(w) - i)
  BY <1>1
<1> QED BY <1>2 DEF StreamOf

\* Where the first header is.
LEMMA FirstHeadIs ==
    ASSUME NEW b \in Seq(0..(Base - 1)), HasFrame(b)
    PROVE  /\ FirstHead(b) \in 1..(Len(b) - 1) /\ IsHead(b, FirstHead(b))
           /\ \A j \in 1..(FirstHead(b) - 1) : ~IsHead(b, j)
           /\ FirstHead(b) + FrameLen - 1 <= Len(b)
           /\ First(b) \in Seq(0..(Base - 1)) /\ Len(First(b)) = FrameLen
           /\ \A j \in 1..FrameLen : First(b)[j] = b[FirstHead(b) + j - 1]
<1> DEFINE H == {i \in 1..(Len(b) - 1) : IsHead(b, i)}
           P(i) == IsHead(b, i) /\ \A j \in 1..(i - 1) : ~IsHead(b, j)
           h == FirstHead(b)
<1>1. Len(b) \in Nat /\ H # {} /\ FirstHead(b) + FrameLen - 1 <= Len(b)
  BY DEF HasFrame, HeadsOf
<1>2. PICK i \in H : \A j \in H : i <= j
  <2>1. H \subseteq Nat
    OBVIOUS
  <2> HIDE DEF H
  <2> QED BY <1>1, <2>1, LeastNumber
<1>3. i \in 1..(Len(b) - 1) /\ IsHead(b, i)
  OBVIOUS
<1>4. \A j \in 1..(i - 1) : ~IsHead(b, j)
  <2>1. SUFFICES ASSUME NEW j \in 1..(i - 1), IsHead(b, j) PROVE FALSE
    OBVIOUS
  <2>2. j \in 1..(Len(b) - 1) /\ ~(i <= j)
    BY <1>1, <1>3
  <2> QED BY <1>2, <2>1, <2>2
<1>5. h \in 1..(Len(b) - 1) /\ IsHead(b, h) /\ \A j \in 1..(h - 1) : ~IsHead(b, j)
  <2>1. \E k \in 1..(Len(b) - 1) : P(k)
    BY <1>3, <1>4
  <2>2. h = CHOOSE k \in 1..(Len(b) - 1) : P(k)
    BY DEF FirstHead
  <2>3. h \in 1..(Len(b) - 1) /\ P(h)
    <3> HIDE DEF h, P
    <3> QED BY <2>1, <2>2
  <2> QED BY <2>3
<1>6. h + FrameLen - 1 <= Len(b)
  BY <1>1
<1> DEFINE m == h + FrameLen - 1
<1>7. /\ First(b) = SubSeq(b, h, m) /\ h \in Int /\ m \in Int /\ 1 <= h /\ h <= m
      /\ m <= Len(b) /\ m - h + 1 = FrameLen
  <2>1. First(b) = SubSeq(b, h, m)
    BY DEF First
  <2>2. FrameLen \in Int /\ FrameLen > 1
    BY Sizes
  <2>3. h \in 1..(Len(b) - 1) /\ m = h + FrameLen - 1 /\ m <= Len(b)
    BY <1>5, <1>6
  <2> HIDE DEF h, m
  <2> QED BY <1>1, <2>1, <2>2, <2>3
<1> HIDE DEF h, m
<1>8. \A j \in h..m : b[j] \in 0..(Base - 1)
  <2>1. \A j \in h..m : j \in 1..Len(b)
    BY <1>1, <1>7
  <2>2. \A j \in 1..Len(b) : b[j] \in 0..(Base - 1)
    BY Elements
  <2> QED BY <2>1, <2>2
<1>9. /\ SubSeq(b, h, m) \in Seq(0..(Base - 1)) /\ Len(SubSeq(b, h, m)) = FrameLen
      /\ \A j \in 1..FrameLen : SubSeq(b, h, m)[j] = b[h + j - 1]
  BY <1>7, <1>8, SubSeqProperties
<1> QED BY <1>5, <1>6, <1>7, <1>9 DEF h

\* What looks like a frame in the buffer is one that was sent, as many bytes before the end
\* as some frames have, or lies between two that were.
LEMMA FrameInStream ==
    ASSUME NEW S \in SUBSET Axis, NEW a \in Axis, NEW b \in Seq(0..(Base - 1)),
           NEW w \in Seq(0..(Base - 1)), NEW g, StreamOf(g, S, a, b, w), HasFrame(b)
    PROVE  \/ \E q \in Nat : First(b) = Frame[g[q]] /\ Behind(b, w, q)
           \/ \E c, d \in S : \E i \in 2..FrameLen :
                 Abs(c - d) <= MaxStep /\ First(b) = Between(c, d, i)
<1>1. StreamOf(g, S, a, b, w)
  OBVIOUS
<1> DEFINE D == 0..(Base - 1)
           h == FirstHead(b)
           f == First(b)
           r == Len(b) + Len(w) - (h + FrameLen - 1)
           q == r \div FrameLen
           u == r % FrameLen
<1>2. /\ Len(b) \in Nat /\ Len(w) \in Nat /\ FrameLen \in Int /\ FrameLen > 1
      /\ h \in 1..(Len(b) - 1) /\ h + FrameLen - 1 <= Len(b)
      /\ f \in Seq(D) /\ Len(f) = FrameLen /\ \A j \in 1..FrameLen : f[j] = b[h + j - 1]
  <2>1. /\ FirstHead(b) \in 1..(Len(b) - 1) /\ FirstHead(b) + FrameLen - 1 <= Len(b)
        /\ First(b) \in Seq(0..(Base - 1)) /\ Len(First(b)) = FrameLen
        /\ \A j \in 1..FrameLen : First(b)[j] = b[FirstHead(b) + j - 1]
    BY FirstHeadIs
  <2>2. Len(b) \in Nat /\ Len(w) \in Nat
    OBVIOUS
  <2>3. FrameLen \in Int /\ FrameLen > 1
    BY Sizes
  <2> QED BY <2>1, <2>2, <2>3
<1>3. r \in Nat
  <2> HIDE DEF f, h
  <2> QED BY <1>2
<1>4. q \in Nat /\ u \in 0..(FrameLen - 1) /\ r = FrameLen * q + u
  <2> HIDE DEF r
  <2> QED BY <1>3, Places
<1>sizes. FrameLen \in Int /\ Len(f) = FrameLen /\ u \in 0..(FrameLen - 1)
  BY <1>2, <1>4
<1>5. \A j \in 1..FrameLen : f[j] = ByteOf(g, r + (FrameLen - j))
  <2> TAKE j \in 1..FrameLen
  <2> HIDE DEF f, h
  <2>1. f[j] = b[h + j - 1] /\ h + j - 1 \in 1..Len(b)
    BY <1>2
  <2>2. Len(b) + Len(w) - (h + j - 1) = r + (FrameLen - j)
    BY <1>2
  <2>3. \A i \in 1..Len(b) : b[i] = ByteOf(g, Len(b) + Len(w) - i)
    BY <1>1 DEF StreamOf
  <2> HIDE DEF r
  <2> QED BY <2>1, <2>2, <2>3
<1>6. g \in [Nat -> S] /\ \A m \in Nat : Abs(g[m] - g[m + 1]) <= MaxStep
  BY <1>1 DEF StreamOf
<1>7. q + 1 \in Nat /\ g[q] \in S /\ g[q + 1] \in S /\ g[q] \in Int /\ g[q + 1] \in Int
  <2>1. q + 1 \in Nat
    BY <1>4
  <2>2. g[q] \in S /\ g[q + 1] \in S
    BY <1>4, <1>6, <2>1
  <2>3. S \subseteq Int
    BY EncoderAssumption
  <2> QED BY <2>1, <2>2, <2>3
<1> HIDE DEF f, h, r, q, u
<1>8. \A j \in 1..FrameLen : f[j] = IF j <= u THEN Frame[g[q + 1]][FrameLen - u + j]
                                    ELSE Frame[g[q]][j - u]
  <2> TAKE j \in 1..FrameLen
  <2>1. CASE j <= u
    <3> DEFINE v == u - j
    <3>1. v \in 0..(FrameLen - 1) /\ FrameLen - v = FrameLen - u + j
      BY <1>sizes, <2>1
    <3>2. r + (FrameLen - j) = FrameLen * (q + 1) + v
      <4>1. FrameLen * (q + 1) = FrameLen * q + FrameLen
        BY <1>2, <1>4
      <4> QED BY <1>2, <1>4, <4>1
    <3> HIDE DEF v
    <3>3. ByteOf(g, FrameLen * (q + 1) + v) = Frame[g[q + 1]][FrameLen - v]
      BY <1>7, <3>1, ByteAt
    <3> QED BY <1>5, <2>1, <3>1, <3>2, <3>3
  <2>2. CASE ~(j <= u)
    <3> DEFINE v == u + FrameLen - j
    <3>1. v \in 0..(FrameLen - 1) /\ FrameLen - v = j - u
      BY <1>sizes, <2>2
    <3>2. r + (FrameLen - j) = FrameLen * q + v
      <4>1. FrameLen * q \in Int
        BY <1>2, <1>4
      <4> QED BY <1>2, <1>4, <4>1
    <3> HIDE DEF v
    <3>3. ByteOf(g, FrameLen * q + v) = Frame[g[q]][FrameLen - v]
      BY <1>4, <3>1, ByteAt
    <3> QED BY <1>5, <2>2, <3>1, <3>2, <3>3
  <2> QED BY <2>1, <2>2
<1>9. g[q] \in Axis /\ g[q + 1] \in Axis
  BY <1>7
<1>10. CASE u = 0
  <2>1. Frame[g[q]] \in Seq(D) /\ Len(Frame[g[q]]) = FrameLen
    BY <1>9, FrameBytes
  <2>2. \A j \in 1..Len(f) : f[j] = Frame[g[q]][j]
    <3> TAKE j \in 1..Len(f)
    <3>1. ~(j <= 0) /\ j - 0 = j /\ j \in 1..FrameLen
      BY <1>sizes
    <3> QED BY <1>8, <1>10, <3>1
  <2>3. f = Frame[g[q]]
    <3> DEFINE e == Frame[g[q]]
    <3>1. f \in Seq(D) /\ e \in Seq(D) /\ Len(f) = Len(e) /\ \A j \in 1..Len(f) : f[j] = e[j]
      BY <1>2, <2>1, <2>2
    <3> HIDE DEF D, e
    <3>2. f = e
      BY <3>1, SeqEqual
    <3> QED BY <3>2 DEF e
  <2>4. r = FrameLen * q
    <3>1. FrameLen * q \in Int
      BY <1>2, <1>4
    <3> QED BY <1>4, <1>10, <3>1
  <2>5. Len(b) + Len(w) - (FirstHead(b) + FrameLen - 1) = r
    BY DEF r, h
  <2>6. Behind(b, w, q)
    BY <2>4, <2>5 DEF Behind
  <2> QED BY <1>4, <2>3, <2>6 DEF f
<1>11. CASE u # 0
  <2> DEFINE i == FrameLen - u + 1
             e == Between(g[q + 1], g[q], i)
  <2>1. i \in 2..FrameLen
    BY <1>2, <1>4, <1>11
  <2>2. /\ e \in Seq(D) /\ Len(e) = FrameLen
        /\ \A j \in 1..FrameLen :
              e[j] = IF i + j - 1 <= FrameLen THEN Frame[g[q + 1]][i + j - 1]
                     ELSE Frame[g[q]][i + j - 1 - FrameLen]
    <3> HIDE DEF i
    <3> QED BY <1>9, <2>1, BetweenBytes
  <2> HIDE DEF e
  <2>3. \A j \in 1..Len(f) : f[j] = e[j]
    <3> TAKE j \in 1..Len(f)
    <3>1. /\ j \in 1..FrameLen /\ i + j - 1 = FrameLen - u + j /\ i + j - 1 - FrameLen = j - u
          /\ (i + j - 1 <= FrameLen) <=> (j <= u)
      BY <1>sizes
    <3> HIDE DEF i
    <3> QED BY <1>8, <2>2, <3>1
  <2>4. f = e
    <3> HIDE DEF D
    <3> QED BY <1>2, <2>2, <2>3, SeqEqual
  <2>5. Abs(g[q + 1] - g[q]) <= MaxStep
    <3>1. Abs(g[q] - g[q + 1]) <= MaxStep
      BY <1>4, <1>6
    <3> QED BY <1>7, <3>1 DEF Abs
  <2> HIDE DEF i
  <2> QED BY <1>7, <2>1, <2>4, <2>5 DEF e, f
<1> QED BY <1>10, <1>11

\* It begins with the header.
LEMMA FirstBegins ==
    ASSUME NEW b \in Seq(0..(Base - 1)), HasFrame(b)
    PROVE  IsHead(First(b), 1)
<1>1. /\ First(b)[1] = b[FirstHead(b) + 1 - 1] /\ First(b)[2] = b[FirstHead(b) + 2 - 1]
      /\ FirstHead(b) \in 1..(Len(b) - 1)
  <2>1. 1 \in 1..FrameLen /\ 2 \in 1..FrameLen
    BY Sizes
  <2> QED BY <2>1, FirstHeadIs
<1>2. FirstHead(b) + 1 - 1 = FirstHead(b) /\ FirstHead(b) + 2 - 1 = FirstHead(b) + 1
  BY <1>1
<1>3. IsHead(b, FirstHead(b))
  BY FirstHeadIs
<1> QED BY <1>1, <1>2, <1>3 DEF IsHead

\* So a sound one has a position that was sent.
LEMMA SoundIsSent ==
    ASSUME FramesApart, NEW S \in SUBSET Axis, NEW a \in Axis, NEW b \in Seq(0..(Base - 1)),
           NEW w \in Seq(0..(Base - 1)), Streamed(S, a, b, w), HasFrame(b), Sound(First(b))
    PROVE  Signed(Value(First(b))) \in {PositionOf[c] : c \in S}
<1> PICK g : StreamOf(g, S, a, b, w)
  BY DEF Streamed
<1>1. CASE \E q \in Nat : First(b) = Frame[g[q]]
  <2>1. PICK c \in S : First(b) = Frame[c]
    <3>1. \A q \in Nat : g[q] \in S
      BY DEF StreamOf
    <3> QED BY <1>1, <3>1
  <2>2. c \in Axis
    OBVIOUS
  <2>3. Value(First(b)) = Count(c)
    BY <2>1, <2>2, CountIsRead
  <2>4. PositionOf[c] = Signed(Count(c))
    BY <2>2 DEF PositionOf
  <2> QED BY <2>3, <2>4
<1>2. CASE \E c, d \in S : \E i \in 2..FrameLen :
               Abs(c - d) <= MaxStep /\ First(b) = Between(c, d, i)
  <2>1. PICK c \in S, d \in S, i \in 2..FrameLen :
            Abs(c - d) <= MaxStep /\ First(b) = Between(c, d, i)
    BY <1>2
  <2>2. IsHead(First(b), 1)
    BY FirstBegins
  <2>3. c \in Axis /\ d \in Axis
    OBVIOUS
  <2>4. Signed(Value(Between(c, d, i))) \in {PositionOf[c], PositionOf[d]}
    BY <2>1, <2>2, <2>3 DEF FramesApart
  <2> QED BY <2>1, <2>4
<1> QED BY <1>1, <1>2, FrameInStream

-----------------------------------------------------------------------------
(* The types of the state *)

\* What a frame leaves in the buffer.
LEMMA ConsumedType ==
    ASSUME NEW b \in Seq(0..(Base - 1)), HasFrame(b)
    PROVE  /\ Consumed(b) \in Seq(0..(Base - 1)) /\ Len(Consumed(b)) <= Len(b)
           /\ FirstHead(b) + FrameLen \in 1..(Len(b) + 1)
<1> DEFINE D == 0..(Base - 1)
           n == FirstHead(b) + FrameLen
<1>1. /\ Len(b) \in Nat /\ FrameLen \in Int /\ FrameLen > 1
      /\ FirstHead(b) \in 1..(Len(b) - 1) /\ FirstHead(b) + FrameLen - 1 <= Len(b)
  <2>1. FirstHead(b) \in 1..(Len(b) - 1) /\ FirstHead(b) + FrameLen - 1 <= Len(b)
    BY FirstHeadIs
  <2>2. FrameLen \in Int /\ FrameLen > 1
    BY Sizes
  <2>3. Len(b) \in Nat
    OBVIOUS
  <2> QED BY <2>1, <2>2, <2>3
<1>2. n \in 1..(Len(b) + 1)
  BY <1>1
<1>3. \A i \in 1..Len(b) : b[i] \in D
  BY Elements
<1> HIDE DEF D, n
<1>4. \A i \in n..Len(b) : b[i] \in D
  BY <1>1, <1>2, <1>3
<1>5. n \in Int /\ Len(b) \in Int
  BY <1>1, <1>2
<1>6. /\ SubSeq(b, n, Len(b)) \in Seq(D)
      /\ Len(SubSeq(b, n, Len(b))) = IF n <= Len(b) THEN Len(b) - n + 1 ELSE 0
  BY <1>4, <1>5, SubSeqProperties
<1>7. Len(SubSeq(b, n, Len(b))) <= Len(b)
  BY <1>1, <1>2, <1>6
<1>8. Consumed(b) = SubSeq(b, n, Len(b))
  BY DEF Consumed, n
<1> QED BY <1>2, <1>6, <1>7, <1>8 DEF D, n

\* Digits to a radix make an integer.
LEMMA DigitsMakeInt ==
    ASSUME NEW x \in Int, NEW y \in Int, NEW z \in Int, NEW r \in Int
    PROVE  x * r + y \in Int /\ (x * r + y) * r + z \in Int
<1>1. \A p, q \in Int : p * q \in Int /\ p + q \in Int
  OBVIOUS
<1> QED BY <1>1

\* A position is a number.
LEMMA ValueType ==
    ASSUME NEW b \in Seq(0..(Base - 1)), HasFrame(b)
    PROVE  Signed(Value(First(b))) \in Int
<1>1. \A j \in 1..FrameLen : First(b)[j] \in Int
  <2>1. First(b) \in Seq(0..(Base - 1)) /\ Len(First(b)) = FrameLen
    BY FirstHeadIs
  <2>2. \A j \in 1..Len(First(b)) : First(b)[j] \in 0..(Base - 1)
    BY <2>1, Elements
  <2>3. \A j \in 0..(Base - 1) : j \in Int
    OBVIOUS
  <2> QED BY <2>1, <2>2, <2>3
<1>2. \A i \in 3..(2 + Payload) : First(b)[i] \in Int
  BY <1>1, Sizes
<1>3. Value(First(b)) \in Int
  <2>1. /\ Payload = 2 => Value(First(b)) = First(b)[3] * Base + First(b)[4]
        /\ Payload = 3 => Value(First(b)) =
              (First(b)[3] * Base + First(b)[4]) * Base + First(b)[5]
    BY <1>2, ValueOfBytes
  <2>2. CASE Payload = 2
    <3>1. First(b)[3] \in Int /\ First(b)[4] \in Int /\ Base \in Int
      BY <1>2, <2>2, Sizes
    <3>2. First(b)[3] * Base + First(b)[4] \in Int
      BY <3>1, DigitsMakeInt
    <3> QED BY <2>1, <2>2, <3>2
  <2>3. CASE Payload = 3
    <3>1. First(b)[3] \in Int /\ First(b)[4] \in Int /\ First(b)[5] \in Int /\ Base \in Int
      BY <1>2, <2>3, Sizes
    <3>2. (First(b)[3] * Base + First(b)[4]) * Base + First(b)[5] \in Int
      BY <3>1, DigitsMakeInt
    <3> QED BY <2>1, <2>3, <3>2
  <2> QED BY <2>2, <2>3, Sizes
<1>4. Direction \in {-1, 1} /\ Pulses \in Nat
  BY EncoderAssumption
<1> DEFINE v == Value(First(b))
<1> HIDE DEF v
<1>5. v \in Int => Signed(v) \in Int
  BY <1>4 DEF Signed
<1> QED BY <1>3, <1>5 DEF v

\* The bytes read and those left are bytes.
LEMMA PartsType ==
    ASSUME NEW S, NEW w \in Seq(S), NEW m \in Int, NEW n \in Int, 1 <= m, n <= Len(w)
    PROVE  /\ SubSeq(w, m, n) \in Seq(S)
           /\ Len(SubSeq(w, m, n)) = IF m <= n THEN n - m + 1 ELSE 0
<1>1. \A i \in 1..Len(w) : w[i] \in S
  BY Elements
<1>2. \A i \in m..n : i \in 1..Len(w)
  OBVIOUS
<1>3. \A i \in m..n : w[i] \in S
  BY <1>1, <1>2
<1> QED BY <1>3, SubSeqProperties

\* The bounds of the buffer, of the reads and of the model.
LEMMA BoundsType ==
    /\ Capacity \in Nat /\ Capacity > 0 /\ MaxRead \in 1..Capacity
    /\ MaxLost \in Nat /\ MaxMoves \in Nat /\ Axis \subseteq Int
<1>1. /\ Capacity \in Nat /\ MaxRead \in 1..Capacity
      /\ {MaxWire, MaxMoves, MaxLost} \subseteq Nat /\ Axis \subseteq Int
  BY EncoderAssumption
<1>2. Capacity > 0
  BY <1>1
<1> QED BY <1>1, <1>2

\* The variables have their types, and the buffer has always room for one more byte
\* (receivethread).
THEOREM EncoderTyped == Spec => []TypeOK
<1> DEFINE D == 0..(Base - 1)
<1>1. Init => TypeOK
  <2> SUFFICES ASSUME Init PROVE TypeOK
    OBVIOUS
  <2>1. /\ axis \in Axis /\ heading \in {-1, 1} /\ latest = axis /\ seen = {axis}
        /\ buf = <<>> /\ pc = "read"
        /\ enabled = FALSE /\ start = 0 /\ position = 0 /\ fooled = FALSE
        /\ lost = 0 /\ moves = 0
    BY DEF Init
  <2>2. PICK k \in 1..FrameLen : wire = SubSeq(Frame[axis], k, FrameLen)
    BY DEF Init
  <2>3. wire \in Seq(D)
    <3>1. Frame[axis] \in Seq(D) /\ Len(Frame[axis]) = FrameLen
      BY <2>1, FrameBytes
    <3>2. k \in Int /\ FrameLen \in Int /\ 1 <= k
      BY Sizes
    <3> HIDE DEF D
    <3> QED BY <2>2, <3>1, <3>2, PartsType
  <2>4. Len(buf) < Capacity /\ buf \in Seq(D)
    BY <2>1, BoundsType, EmptySeq
  <2>5. lost \in 0..MaxLost /\ moves \in 0..MaxMoves
    BY <2>1, BoundsType
  <2>6. enabled \in BOOLEAN /\ fooled \in BOOLEAN
    BY <2>1
  <2>7. {start, position} \subseteq Int
    BY <2>1
  <2> QED BY <2>1, <2>3, <2>4, <2>5, <2>6, <2>7 DEF TypeOK
<1>2. TypeOK /\ [Next]_vars => TypeOK'
  <2> SUFFICES ASSUME TypeOK, [Next]_vars PROVE TypeOK'
    OBVIOUS
  <2>1. /\ axis \in Axis /\ heading \in {-1, 1} /\ latest \in Axis /\ seen \subseteq Axis
        /\ wire \in Seq(D) /\ buf \in Seq(D) /\ Len(buf) < Capacity
        /\ pc \in {"read", "parse"} /\ enabled \in BOOLEAN
        /\ fooled \in BOOLEAN /\ {start, position} \subseteq Int
        /\ lost \in 0..MaxLost /\ moves \in 0..MaxMoves
    BY DEF TypeOK
  <2>2. /\ Len(wire) \in Nat /\ Len(buf) \in Nat /\ Capacity \in Nat /\ Capacity > 0
        /\ MaxRead \in 1..Capacity /\ MaxLost \in Nat /\ MaxMoves \in Nat /\ Axis \subseteq Int
    <3>1. Len(wire) \in Nat /\ Len(buf) \in Nat
      BY <2>1
    <3> QED BY <3>1, BoundsType
  <2>3. CASE Emit
    <3>1. /\ axis' \in Axis /\ moves' = moves + Abs(axis' - axis) /\ moves' <= MaxMoves
          /\ wire' = wire \o Frame[axis'] /\ latest' = axis' /\ seen' = seen \cup {axis'}
          /\ UNCHANGED <<heading, buf, pc, enabled, start, position, fooled, lost>>
      BY <2>3 DEF Emit
    <3>2. wire' \in Seq(D)
      <4>1. Frame[axis'] \in Seq(D)
        BY <3>1, FrameBytes
      <4> HIDE DEF D
      <4> QED BY <2>1, <3>1, <4>1, ConcatProperties
    <3>3. moves' \in 0..MaxMoves
      <4>1. Abs(axis' - axis) \in Nat
        <5>1. axis \in Int /\ axis' \in Int
          BY <2>1, <2>2, <3>1
        <5>2. axis' - axis \in Int
          BY <5>1
        <5>3. PICK d \in Int : d = axis' - axis
          BY <5>2
        <5>4. Abs(d) \in Nat
          BY DEF Abs
        <5> QED BY <5>3, <5>4
      <4>2. moves \in Nat /\ MaxMoves \in Nat
        BY <2>1, <2>2
      <4>3. moves' = moves + Abs(axis' - axis) /\ moves' <= MaxMoves
        BY <3>1
      <4> QED BY <4>1, <4>2, <4>3
    <3>4. seen' \subseteq Axis
      BY <2>1, <3>1
    <3> HIDE DEF D
    <3> QED BY <2>1, <3>1, <3>2, <3>3, <3>4 DEF TypeOK, D
  <2>4. CASE LoseByte
    <3>1. /\ lost < MaxLost /\ lost' = lost + 1
          /\ UNCHANGED <<axis, heading, buf, pc, enabled, start, position, latest, seen,
                         fooled, moves>>
      BY <2>4 DEF LoseByte
    <3>2. PICK i \in 1..Len(wire) : wire' = RemoveAt(wire, i)
      BY <2>4 DEF LoseByte
    <3>3. wire' \in Seq(D)
      <4>1. SubSeq(wire, 1, i - 1) \in Seq(D)
        <5>1. 1 \in Int /\ i - 1 \in Int /\ 1 <= 1 /\ i - 1 <= Len(wire)
          BY <2>2
        <5> HIDE DEF D
        <5> QED BY <2>1, <5>1, PartsType
      <4>2. SubSeq(wire, i + 1, Len(wire)) \in Seq(D)
        <5>1. i + 1 \in Int /\ Len(wire) \in Int /\ 1 <= i + 1 /\ Len(wire) <= Len(wire)
          BY <2>2
        <5> HIDE DEF D
        <5> QED BY <2>1, <5>1, PartsType
      <4> HIDE DEF D
      <4> QED BY <3>2, <4>1, <4>2, ConcatProperties DEF RemoveAt
    <3>4. lost' \in 0..MaxLost
      BY <2>1, <2>2, <3>1
    <3> HIDE DEF D
    <3> QED BY <2>1, <3>1, <3>3, <3>4 DEF TypeOK, D
  <2>5. CASE Read
    <3> DEFINE n == IF Len(wire) < MaxRead THEN Len(wire) ELSE MaxRead
               new == buf \o SubSeq(wire, 1, n)
    <3>1. /\ wire' = SubSeq(wire, n + 1, Len(wire))
          /\ IF Fits(n) THEN buf' = new /\ pc' = "parse" ELSE buf' = <<>> /\ UNCHANGED pc
          /\ UNCHANGED <<axis, heading, enabled, start, position, latest, seen, fooled, lost,
                         moves>>
      BY <2>5 DEF Read
    <3>2. n \in 0..Len(wire)
      BY <2>2
    <3> HIDE DEF n
    <3>3. wire' \in Seq(D)
      <4>1. n + 1 \in Int /\ Len(wire) \in Int /\ 1 <= n + 1 /\ Len(wire) <= Len(wire)
        BY <2>2, <3>2
      <4> HIDE DEF D
      <4> QED BY <2>1, <3>1, <4>1, PartsType
    <3>4. SubSeq(wire, 1, n) \in Seq(D) /\ Len(SubSeq(wire, 1, n)) = n
      <4>1. 1 \in Int /\ n \in Int /\ 1 <= 1 /\ n <= Len(wire) /\ 0 <= n
        BY <2>2, <3>2
      <4>2. /\ SubSeq(wire, 1, n) \in Seq(D)
            /\ Len(SubSeq(wire, 1, n)) = IF 1 <= n THEN n - 1 + 1 ELSE 0
        <5> HIDE DEF D
        <5> QED BY <2>1, <4>1, PartsType
      <4> QED BY <4>1, <4>2
    <3>5. new \in Seq(D) /\ Len(new) = Len(buf) + n
      <4>1. new \in Seq(D) /\ Len(new) = Len(buf) + Len(SubSeq(wire, 1, n))
        <5> HIDE DEF D
        <5> QED BY <2>1, <3>4, ConcatProperties
      <4> QED BY <3>4, <4>1
    <3> HIDE DEF new, D
    <3>6. CASE Fits(n)
      <4>1. buf' = new /\ pc' = "parse"
        BY <3>1, <3>6
      <4>2. Len(buf') < Capacity
        BY <2>2, <3>2, <3>5, <3>6, <4>1 DEF Fits
      <4> QED BY <2>1, <3>1, <3>3, <3>5, <4>1, <4>2 DEF TypeOK, D
    <3>7. CASE ~Fits(n)
      <4>1. buf' = <<>> /\ pc' = pc
        BY <3>1, <3>7
      <4>2. buf' \in Seq(D) /\ Len(buf') < Capacity
        BY <2>2, <4>1, EmptySeq
      <4> QED BY <2>1, <3>1, <3>3, <4>1, <4>2 DEF TypeOK, D
    <3> QED BY <3>6, <3>7
  <2>6. CASE Parse
    <3> DEFINE p == Signed(Value(First(buf)))
    <3>1. /\ HasFrame(buf)
          /\ start' = (IF enabled THEN start ELSE p)
          /\ position' = (IF ~enabled \/ Near(position, p) THEN p ELSE position)
          /\ fooled' = (fooled \/ p \notin {PositionOf[a] : a \in seen})
          /\ enabled' = TRUE /\ buf' = Consumed(buf)
          /\ UNCHANGED <<axis, heading, wire, pc, latest, seen, lost, moves>>
      BY <2>6 DEF Parse
    <3>2. p \in Int
      BY <2>1, <3>1, ValueType
    <3>3. buf' \in Seq(D) /\ Len(buf') <= Len(buf)
      BY <2>1, <3>1, ConsumedType
    <3> HIDE DEF p, D
    <3>4. Len(buf') < Capacity
      <4>1. Len(buf') \in Nat
        BY <3>3
      <4> QED BY <2>1, <2>2, <3>3, <4>1
    <3>5. start' \in Int /\ position' \in Int
      BY <2>1, <3>1, <3>2
    <3>6. fooled' \in BOOLEAN /\ enabled' \in BOOLEAN
      BY <3>1
    <3> QED BY <2>1, <3>1, <3>3, <3>4, <3>5, <3>6 DEF TypeOK, D
  <2>7. CASE Break
    <3>1. /\ pc' = "read"
          /\ UNCHANGED <<axis, heading, wire, enabled, start, position, latest, seen, fooled,
                         lost, moves>>
          /\ buf' = buf \/ (HasFrame(buf) /\ buf' = Consumed(buf))
      BY <2>7 DEF Break
    <3>2. buf' \in Seq(D) /\ Len(buf') <= Len(buf)
      <4>1. CASE buf' = buf
        BY <2>1, <2>2, <4>1
      <4>2. CASE HasFrame(buf) /\ buf' = Consumed(buf)
        BY <2>1, <4>2, ConsumedType
      <4> QED BY <3>1, <4>1, <4>2
    <3> HIDE DEF D
    <3>3. Len(buf') < Capacity
      <4>1. Len(buf') \in Nat
        BY <3>2
      <4> QED BY <2>1, <2>2, <3>2, <4>1
    <3> QED BY <2>1, <3>1, <3>2, <3>3 DEF TypeOK, D
  <2>8. CASE UNCHANGED vars
    BY <2>1, <2>8 DEF TypeOK, vars
  <2> QED BY <2>3, <2>4, <2>5, <2>6, <2>7, <2>8 DEF Next
<1> QED BY <1>1, <1>2, PTL DEF Spec

-----------------------------------------------------------------------------
(* No position but those sent *)

\* Until a byte is lost, the buffer and the driver hold the end of what was sent.
Intact == lost = 0 => Streamed(seen, axis, buf, wire)

\* The buffer and the driver hold the end of what the encoder sent, whatever has been read,
\* dropped or consumed (receivethread, recv_proc_data_*).
THEOREM EncoderIntact == Spec => []Intact
<1>1. Init => Intact
  <2> SUFFICES ASSUME Init PROVE Intact
    OBVIOUS
  <2>1. axis \in Axis /\ seen = {axis} /\ buf = <<>>
    BY DEF Init
  <2>2. PICK k \in 1..FrameLen : wire = SubSeq(Frame[axis], k, FrameLen)
    BY DEF Init
  <2> QED BY <2>1, <2>2, StreamBegins DEF Intact
<1>2. TypeOK /\ Intact /\ [Next]_vars => Intact'
  <2> SUFFICES ASSUME TypeOK, Intact, [Next]_vars, lost' = 0
               PROVE  Streamed(seen, axis, buf, wire)'
    BY DEF Intact
  <2>1. /\ axis \in Axis /\ heading \in {-1, 1} /\ seen \in SUBSET Axis
        /\ wire \in Seq(0..(Base - 1)) /\ buf \in Seq(0..(Base - 1)) /\ lost \in Nat
        /\ axis \in Int /\ Axis \subseteq Int
    BY EncoderAssumption DEF TypeOK
  <2>2. lost = 0
    BY <2>1 DEF Next, Emit, LoseByte, Read, Parse, Break, vars
  <2>3. PICK g : StreamOf(g, seen, axis, buf, wire)
    BY <2>2 DEF Intact, Streamed
  <2>4. CASE Emit
    <3>1. /\ axis' \in Axis /\ axis' \in Ahead
          /\ wire' = wire \o Frame[axis'] /\ seen' = seen \cup {axis'} /\ buf' = buf
      BY <2>4 DEF Emit
    <3>2. PICK c \in Axis : c = axis'
      BY <3>1
    <3>3. Abs(c - axis) <= MaxStep
      <4>1. c \in Ahead /\ axis \in Int
        BY <2>1, <3>1, <3>2
      <4> QED BY <4>1, StepAhead
    <3>4. StreamOf(Shifted(g, c), seen \cup {c}, c, buf, wire \o Frame[c])
      BY <2>1, <2>3, <3>3, StreamGrows
    <3>5. Streamed(seen \cup {c}, c, buf, wire \o Frame[c])
      BY <3>4 DEF Streamed
    <3> QED BY <3>1, <3>2, <3>5
  <2>5. CASE LoseByte
    BY <2>1, <2>5 DEF LoseByte
  <2>6. CASE Read
    <3> DEFINE n == IF Len(wire) < MaxRead THEN Len(wire) ELSE MaxRead
               new == buf \o SubSeq(wire, 1, n)
               rest == SubSeq(wire, n + 1, Len(wire))
    <3>1. /\ wire' = rest /\ (buf' = new \/ buf' = <<>>) /\ axis' = axis /\ seen' = seen
      BY <2>6 DEF Read
    <3>2. n \in 0..Len(wire)
      BY <2>1, BoundsType
    <3> HIDE DEF n
    <3>3. StreamOf(g, seen, axis, new, rest)
      BY <2>1, <2>3, <3>2, StreamRead
    <3> HIDE DEF new, rest
    <3>4. StreamOf(g, seen, axis, <<>>, rest)
      BY <2>1, <3>3, StreamDropped
    <3>5. Streamed(seen, axis, new, rest) /\ Streamed(seen, axis, <<>>, rest)
      BY <3>3, <3>4 DEF Streamed
    <3> QED BY <3>1, <3>5
  <2>7. ASSUME HasFrame(buf)
        PROVE  Streamed(seen, axis, Consumed(buf), wire)
    <3>1. FirstHead(buf) + FrameLen \in 1..(Len(buf) + 1)
      BY <2>1, <2>7, ConsumedType
    <3> DEFINE n == FirstHead(buf) + FrameLen
    <3>2. Consumed(buf) = SubSeq(buf, n, Len(buf))
      BY DEF Consumed
    <3> HIDE DEF n
    <3>3. n \in 1..(Len(buf) + 1)
      BY <3>1 DEF n
    <3>4. StreamOf(g, seen, axis, SubSeq(buf, n, Len(buf)), wire)
      BY <2>1, <2>3, <3>3, StreamCut
    <3> QED BY <3>2, <3>4 DEF Streamed
  <2>8. CASE Parse
    <3>1. HasFrame(buf) /\ buf' = Consumed(buf) /\ UNCHANGED <<axis, wire, seen>>
      BY <2>8 DEF Parse
    <3> QED BY <2>7, <3>1
  <2>9. CASE Break
    <3>1. /\ UNCHANGED <<axis, wire, seen>>
          /\ buf' = buf \/ (HasFrame(buf) /\ buf' = Consumed(buf))
      BY <2>9 DEF Break
    <3>2. Streamed(seen, axis, buf, wire)
      BY <2>3 DEF Streamed
    <3> QED BY <2>7, <3>1, <3>2
  <2>10. CASE UNCHANGED vars
    <3>1. Streamed(seen, axis, buf, wire)
      BY <2>3 DEF Streamed
    <3> QED BY <2>10, <3>1 DEF vars
  <2> QED BY <2>4, <2>5, <2>6, <2>8, <2>9, <2>10 DEF Next
<1> QED BY <1>1, <1>2, EncoderTyped, PTL DEF Spec

\* Of an encoder whose frames are apart, no position is taken that it has not sent, wherever
\* in a frame the first read began (recv_proc_data_*, receivethread).
THEOREM TakesOnlyWhatIsSent ==
    ASSUME FramesApart PROVE Spec => []NeverFooled
<1>1. Init => NeverFooled
  BY DEF Init, NeverFooled
<1>2. TypeOK /\ Intact /\ NeverFooled /\ [Next]_vars => NeverFooled'
  <2> SUFFICES ASSUME TypeOK, Intact, NeverFooled, [Next]_vars, lost' = 0
               PROVE  ~fooled'
    BY DEF NeverFooled
  <2>1. /\ axis \in Axis /\ seen \in SUBSET Axis
        /\ wire \in Seq(0..(Base - 1)) /\ buf \in Seq(0..(Base - 1)) /\ lost \in Nat
    BY EncoderAssumption DEF TypeOK
  <2>2. lost = 0
    BY <2>1 DEF Next, Emit, LoseByte, Read, Parse, Break, vars
  <2>3. Streamed(seen, axis, buf, wire) /\ ~fooled
    BY <2>2 DEF Intact, NeverFooled
  <2>4. CASE Parse
    <3> DEFINE p == Signed(Value(First(buf)))
    <3>1. /\ HasFrame(buf) /\ Sound(First(buf))
          /\ fooled' = (fooled \/ p \notin {PositionOf[a] : a \in seen})
      BY <2>4 DEF Parse
    <3>2. p \in {PositionOf[a] : a \in seen}
      BY <2>1, <2>3, <3>1, SoundIsSent
    <3> HIDE DEF p
    <3> QED BY <2>3, <3>1, <3>2
  <2>5. CASE ~Parse
    <3>1. fooled' = fooled
      BY <2>5 DEF Next, Emit, LoseByte, Read, Break, vars
    <3> QED BY <2>3, <3>1
  <2> QED BY <2>4, <2>5
<1> QED BY <1>1, <1>2, EncoderTyped, EncoderIntact, PTL DEF Spec

\* Encoders 1 and 3, of 2^16 counts a turn, are such encoders: the header FF 81 keeps their
\* frames apart, at every position and around the turn (Encoder_init).
THEOREM SixteenBitsNeverFool ==
    ASSUME HeaderApart, Pulses + 1 = Base * Base, MaxStep < Base PROVE Spec => []NeverFooled
BY SixteenBitsApart, TakesOnlyWhatIsSent

-----------------------------------------------------------------------------
(* The angle published follows the axis *)

\* What the parsers make of a frame.
LEMMA FrameIsRead ==
    ASSUME NEW a \in Axis
    PROVE  Sound(Frame[a]) /\ Signed(Value(Frame[a])) = PositionOf[a]
<1>1. /\ Len(Frame[a]) = FrameLen
      /\ Frame[a][FrameLen] = Sum(SubSeq(Frame[a], 1, FrameLen - 1))
  BY FrameBytes
<1>2. Sound(Frame[a])
  BY <1>1 DEF Sound, Last, Front
<1>3. Value(Frame[a]) = Count(a)
  BY CountIsRead
<1> QED BY <1>2, <1>3 DEF PositionOf

\* The buffer and the driver hold whole frames, and p is the position before them.
Followed(S, a, b, w, p) ==
    \E g : \E q \in Nat : StreamOf(g, S, a, b, w) /\ Whole(b, w, q) /\ p = PositionOf[g[q]]

\* A buffer that begins with a frame.
LEMMA BeginsWithFrame ==
    ASSUME NEW S \in SUBSET Axis, NEW a \in Axis, NEW b \in Seq(0..(Base - 1)),
           NEW w \in Seq(0..(Base - 1)), NEW g, StreamOf(g, S, a, b, w),
           NEW q \in Nat, Whole(b, w, q), Len(b) >= FrameLen
    PROVE  /\ q - 1 \in Nat /\ HasFrame(b) /\ FirstHead(b) = 1
           /\ First(b) = Frame[g[q - 1]]
<1> DEFINE D == 0..(Base - 1)
<1>1. /\ Len(b) \in Nat /\ Len(w) \in Nat /\ FrameLen \in Int /\ FrameLen > 4
      /\ Len(b) + Len(w) = FrameLen * q
  <2>1. FrameLen \in Int /\ FrameLen > 4
    BY Sizes
  <2> QED BY <2>1 DEF Whole
<1>2. q - 1 \in Nat
  <2>1. CASE q = 0
    BY <1>1, <2>1
  <2>2. CASE q # 0
    BY <2>2
  <2> QED BY <2>1, <2>2
<1> DEFINE k == q - 1
<1>3. FrameLen * q = FrameLen * k + FrameLen /\ FrameLen * k \in Int
  BY <1>1, <1>2
<1>4. k \in Nat /\ g[k] \in Axis
  <2>1. g \in [Nat -> S]
    BY DEF StreamOf
  <2> QED BY <1>2, <2>1
<1> HIDE DEF k
<1>5. ASSUME NEW j \in 1..FrameLen PROVE b[j] = Frame[g[k]][j]
  <2> DEFINE u == FrameLen - j
  <2>1. u \in 0..(FrameLen - 1) /\ FrameLen - u = j
    BY <1>1
  <2>2. j \in 1..Len(b) /\ Len(b) + Len(w) - j = FrameLen * k + u
    BY <1>1, <1>3
  <2>3. b[j] = ByteOf(g, Len(b) + Len(w) - j)
    BY <2>2 DEF StreamOf
  <2> HIDE DEF u
  <2>4. ByteOf(g, FrameLen * k + u) = Frame[g[k]][FrameLen - u]
    BY <1>4, <2>1, ByteAt
  <2> QED BY <2>1, <2>2, <2>3, <2>4
<1>6. IsHead(b, 1) /\ 1 \in 1..(Len(b) - 1)
  <2>1. b[1] = Frame[g[k]][1] /\ b[2] = Frame[g[k]][2]
    BY <1>1, <1>5
  <2>2. b[1] = Mark[1] /\ b[2] = Mark[2]
    BY <1>4, <2>1, FrameBytes
  <2>3. 1 + 1 = 2
    OBVIOUS
  <2>4. IsHead(b, 1)
    BY <2>2, <2>3 DEF IsHead
  <2> QED BY <1>1, <2>4
<1>7. FirstHead(b) = 1
  <2> DEFINE P(i) == IsHead(b, i) /\ \A j \in 1..(i - 1) : ~IsHead(b, j)
             h == FirstHead(b)
  <2>1. P(1)
    BY <1>6
  <2>2. h = CHOOSE i \in 1..(Len(b) - 1) : P(i)
    BY DEF FirstHead
  <2>3. h \in 1..(Len(b) - 1) /\ P(h)
    <3> HIDE DEF h, P
    <3> QED BY <1>6, <2>1, <2>2
  <2>4. \A j \in 1..(h - 1) : ~IsHead(b, j)
    BY <2>3
  <2> HIDE DEF h
  <2>5. ~(h > 1)
    <3>1. h > 1 => 1 \in 1..(h - 1)
      BY <1>1, <2>3
    <3> QED BY <1>6, <2>4, <3>1
  <2>6. h = 1
    BY <1>1, <2>3, <2>5
  <2> QED BY <2>6 DEF h
<1>8. HasFrame(b)
  <2>1. HeadsOf(b) # {}
    BY <1>6 DEF HeadsOf
  <2>2. 1 + FrameLen - 1 <= Len(b)
    BY <1>1
  <2> QED BY <1>7, <2>1, <2>2 DEF HasFrame
<1>9. First(b) = Frame[g[k]]
  <2> DEFINE f == First(b)
             e == Frame[g[k]]
  <2>1. e \in Seq(D) /\ Len(e) = FrameLen
    BY <1>4, FrameBytes
  <2>2. f \in Seq(D) /\ Len(f) = FrameLen /\ \A j \in 1..FrameLen : f[j] = b[FirstHead(b) + j - 1]
    BY <1>8, FirstHeadIs
  <2>3. \A j \in 1..FrameLen : f[j] = e[j]
    <3> TAKE j \in 1..FrameLen
    <3>1. 1 + j - 1 = j
      BY <1>1
    <3>2. f[j] = b[j]
      BY <1>7, <2>2, <3>1
    <3> QED BY <1>5, <3>2
  <2> HIDE DEF D, e, f
  <2>4. f = e
    BY <2>1, <2>2, <2>3, SeqEqual
  <2> QED BY <2>4 DEF e, f
<1> QED BY <1>4, <1>7, <1>8, <1>9 DEF k

\* The lengths of the buffer, of what the driver holds and of a frame.
LEMMA Lengths ==
    ASSUME NEW S, NEW b \in Seq(S), NEW w \in Seq(S)
    PROVE  Len(b) \in Nat /\ Len(w) \in Nat /\ FrameLen \in Int
BY Sizes

\* The rest of a stream, once a frame is read.
LEMMA FollowedOn ==
    ASSUME NEW S \in SUBSET Axis, NEW a \in Axis, NEW b \in Seq(0..(Base - 1)),
           NEW w \in Seq(0..(Base - 1)), NEW g, StreamOf(g, S, a, b, w), HasFrame(b),
           NEW q \in Nat, First(b) = Frame[g[q]], Behind(b, w, q)
    PROVE  /\ Followed(S, a, Consumed(b), w, Signed(Value(First(b))))
           /\ Signed(Value(First(b))) = PositionOf[g[q]]
<1> DEFINE n == FirstHead(b) + FrameLen
           c == SubSeq(b, n, Len(b))
<1>1. Consumed(b) = c
  BY DEF Consumed
<1>2. n \in 1..(Len(b) + 1)
  BY ConsumedType
<1> HIDE DEF n
<1>3. StreamOf(g, S, a, c, w) /\ Len(c) = Len(b) - n + 1
  BY <1>2, StreamCut
<1>4. Whole(c, w, q)
  <2> DEFINE t == FrameLen * q
             h == FirstHead(b)
  <2>1. Len(b) \in Nat /\ Len(w) \in Nat /\ FrameLen \in Int
    BY Lengths
  <2>2. h \in Int
    <3>1. FirstHead(b) \in 1..(Len(b) - 1)
      BY FirstHeadIs
    <3> QED BY <3>1
  <2>3. Len(b) + Len(w) - (h + FrameLen - 1) = t
    BY DEF Behind
  <2> HIDE DEF c, t, h
  <2>4. Len(c) = Len(b) - (h + FrameLen) + 1
    BY <1>3 DEF n, h
  <2>5. Len(c) + Len(w) = t
    BY <2>1, <2>2, <2>3, <2>4
  <2> QED BY <2>5 DEF Whole, t
<1>5. g[q] \in Axis
  <2>1. g \in [Nat -> S]
    BY DEF StreamOf
  <2> QED BY <2>1
<1>6. Signed(Value(First(b))) = PositionOf[g[q]]
  BY <1>5, FrameIsRead
<1> HIDE DEF c
<1> QED BY <1>1, <1>3, <1>4, <1>6 DEF Followed

\* The first frame with a right sum is one that was sent, and what follows it are frames.
LEMMA FollowedFirst ==
    ASSUME FramesAlone, NEW S \in SUBSET Axis, NEW a \in Axis, NEW b \in Seq(0..(Base - 1)),
           NEW w \in Seq(0..(Base - 1)), NEW g, StreamOf(g, S, a, b, w),
           HasFrame(b), Sound(First(b))
    PROVE  Followed(S, a, Consumed(b), w, Signed(Value(First(b))))
<1>1. ~\E c, d \in S : \E i \in 2..FrameLen : Abs(c - d) <= MaxStep /\ First(b) = Between(c, d, i)
  <2>1. SUFFICES ASSUME NEW c \in S, NEW d \in S, NEW i \in 2..FrameLen,
                        Abs(c - d) <= MaxStep, First(b) = Between(c, d, i)
                 PROVE  FALSE
    OBVIOUS
  <2>2. c \in Axis /\ d \in Axis
    OBVIOUS
  <2>3. IsHead(First(b), 1)
    BY FirstBegins
  <2> QED BY <2>1, <2>2, <2>3 DEF FramesAlone
<1>2. PICK q \in Nat : First(b) = Frame[g[q]] /\ Behind(b, w, q)
  BY <1>1, FrameInStream
<1> QED BY <1>2, FollowedOn

\* Each frame after it is sound, is the next one that was sent, and passes the filter.
LEMMA FollowedNext ==
    ASSUME StepsNear, NEW S \in SUBSET Axis, NEW a \in Axis, NEW b \in Seq(0..(Base - 1)),
           NEW w \in Seq(0..(Base - 1)), NEW p, Followed(S, a, b, w, p), Len(b) >= FrameLen
    PROVE  /\ HasFrame(b) /\ Sound(First(b)) /\ Near(p, Signed(Value(First(b))))
           /\ Followed(S, a, Consumed(b), w, Signed(Value(First(b))))
<1>1. PICK g : \E q \in Nat : StreamOf(g, S, a, b, w) /\ Whole(b, w, q) /\ p = PositionOf[g[q]]
  BY DEF Followed
<1>2. PICK q \in Nat : StreamOf(g, S, a, b, w) /\ Whole(b, w, q) /\ p = PositionOf[g[q]]
  BY <1>1
<1> DEFINE k == q - 1
<1>3. k \in Nat /\ HasFrame(b) /\ FirstHead(b) = 1 /\ First(b) = Frame[g[k]]
  BY <1>2, BeginsWithFrame
<1>4. /\ g \in [Nat -> S] /\ \A m \in Nat : Abs(g[m] - g[m + 1]) <= MaxStep /\ k + 1 = q
  <2>1. StreamOf(g, S, a, b, w)
    BY <1>2
  <2>2. g \in [Nat -> S] /\ \A m \in Nat : Abs(g[m] - g[m + 1]) <= MaxStep
    BY <2>1 DEF StreamOf
  <2>3. k + 1 = q
    OBVIOUS
  <2> QED BY <2>2, <2>3
<1>5. Behind(b, w, k)
  <2>1. Len(b) \in Nat /\ Len(w) \in Nat /\ FrameLen \in Int
    BY Lengths
  <2>2. FrameLen * q = FrameLen * k + FrameLen /\ FrameLen * k \in Int
    BY <1>3, <2>1
  <2>3. Len(b) + Len(w) = FrameLen * q
    BY <1>2 DEF Whole
  <2> HIDE DEF k
  <2>4. Len(b) + Len(w) - (1 + FrameLen - 1) = FrameLen * k
    BY <2>1, <2>2, <2>3
  <2> QED BY <1>3, <2>4 DEF Behind
<1> HIDE DEF k
<1>6. g[k] \in Axis /\ g[q] \in Axis /\ g[k] \in Int /\ g[q] \in Int
  <2>1. g[k] \in Axis /\ g[q] \in Axis
    BY <1>3, <1>4
  <2> QED BY <2>1, BoundsType
<1>7. Abs(g[q] - g[k]) <= MaxStep
  <2>1. Abs(g[k] - g[q]) <= MaxStep
    BY <1>3, <1>4
  <2> QED BY <1>6, <2>1 DEF Abs
<1>8. /\ Followed(S, a, Consumed(b), w, Signed(Value(First(b))))
      /\ Signed(Value(First(b))) = PositionOf[g[k]]
  BY <1>2, <1>3, <1>5, FollowedOn
<1>9. Near(p, Signed(Value(First(b))))
  BY <1>2, <1>6, <1>7, <1>8 DEF StepsNear
<1>10. Sound(First(b))
  BY <1>3, <1>6, FrameIsRead
<1> QED BY <1>3, <1>8, <1>9, <1>10

\* Once the thread has an angle, it holds whole frames and the angle is that of the frame
\* before them; at its read there is none left.
Following ==
    /\ latest = axis
    /\ lost = 0 /\ enabled => /\ Followed(seen, axis, buf, wire, position)
                              /\ pc = "read" => Len(buf) < FrameLen

\* The thread keeps step with the encoder (receivethread).
LEMMA FollowingHolds ==
    ASSUME FramesAlone, StepsNear, MaxRead + FrameLen <= Capacity
    PROVE  Spec => []Following
<1>1. Init => Following
  BY DEF Init, Following
<1>2. TypeOK /\ Intact /\ Following /\ [Next]_vars => Following'
  <2> SUFFICES ASSUME TypeOK, Intact, Following, [Next]_vars PROVE Following'
    OBVIOUS
  <2>1. /\ axis \in Axis /\ heading \in {-1, 1} /\ seen \in SUBSET Axis
        /\ wire \in Seq(0..(Base - 1)) /\ buf \in Seq(0..(Base - 1)) /\ lost \in Nat
        /\ axis \in Int /\ Axis \subseteq Int /\ pc \in {"read", "parse"} /\ enabled \in BOOLEAN
    BY EncoderAssumption DEF TypeOK
  <2>2. latest' = axis'
    BY DEF Following, Next, Emit, LoseByte, Read, Parse, Break, vars
  <2>3. SUFFICES ASSUME lost' = 0, enabled'
                 PROVE  /\ Followed(seen, axis, buf, wire, position)'
                        /\ (pc = "read" => Len(buf) < FrameLen)'
    BY <2>2 DEF Following
  <2>4. lost = 0
    <3>1. lost' = lost \/ lost' = lost + 1
      BY DEF Next, Emit, LoseByte, Read, Parse, Break, vars
    <3> QED BY <2>1, <2>3, <3>1
  <2>5. PICK g : StreamOf(g, seen, axis, buf, wire)
    BY <2>4 DEF Intact, Streamed
  <2>6. ASSUME enabled
        PROVE  /\ Followed(seen, axis, buf, wire, position)
               /\ pc = "read" => Len(buf) < FrameLen
    BY <2>4, <2>6 DEF Following
  <2>7. Len(buf) \in Nat /\ Len(wire) \in Nat /\ FrameLen \in Nat
    BY <2>1, Sizes
  <2>8. CASE Emit
    <3>1. /\ axis' \in Axis /\ axis' \in Ahead
          /\ wire' = wire \o Frame[axis'] /\ seen' = seen \cup {axis'}
          /\ UNCHANGED <<buf, pc, enabled, position>>
      BY <2>8 DEF Emit
    <3>2. PICK c \in Axis : c = axis'
      BY <3>1
    <3>3. Abs(c - axis) <= MaxStep
      <4>1. c \in Ahead /\ axis \in Int
        BY <2>1, <3>1, <3>2
      <4> QED BY <4>1, StepAhead
    <3>4. enabled
      BY <2>3, <3>1
    <3>5. PICK h : \E q \in Nat : /\ StreamOf(h, seen, axis, buf, wire)
                                  /\ Whole(buf, wire, q) /\ position = PositionOf[h[q]]
      BY <2>6, <3>4 DEF Followed
    <3>6. PICK q \in Nat : /\ StreamOf(h, seen, axis, buf, wire)
                           /\ Whole(buf, wire, q) /\ position = PositionOf[h[q]]
      BY <3>5
    <3> DEFINE w == wire \o Frame[c]
               i == Shifted(h, c)
               r == q + 1
    <3>7. /\ StreamOf(i, seen \cup {c}, c, buf, w) /\ i[q + 1] = h[q]
          /\ Len(w) = Len(wire) + FrameLen
      <4>1. /\ StreamOf(h, seen, axis, buf, wire) /\ seen \in SUBSET Axis /\ axis \in Axis
            /\ wire \in Seq(0..(Base - 1)) /\ buf \in Seq(0..(Base - 1))
        BY <2>1, <3>6
      <4>2. StreamOf(Shifted(h, c), seen \cup {c}, c, buf, wire \o Frame[c])
        BY <3>3, <4>1, StreamGrows
      <4>3. Shifted(h, c)[q + 1] = h[q]
        BY ShiftedIs
      <4>4. Len(wire \o Frame[c]) = Len(wire) + FrameLen
        BY <4>1, SentLength
      <4> QED BY <4>2, <4>3, <4>4
    <3>8. Whole(buf, w, r)
      <4>1. FrameLen * (q + 1) = FrameLen * q + FrameLen /\ FrameLen * q \in Int
        BY <2>7
      <4>2. Len(buf) + Len(wire) = FrameLen * q
        BY <3>6 DEF Whole
      <4> HIDE DEF w
      <4>3. Len(buf) + Len(w) = FrameLen * (q + 1)
        BY <2>7, <3>7, <4>1, <4>2
      <4> QED BY <4>3 DEF Whole
    <3>9. position = PositionOf[i[r]] /\ r \in Nat
      BY <3>6, <3>7
    <3>10. StreamOf(i, seen \cup {c}, c, buf, w)
      BY <3>7
    <3> HIDE DEF w, i, r
    <3>11. Followed(seen \cup {c}, c, buf, w, position)
      BY <3>8, <3>9, <3>10 DEF Followed
    <3>12. w = wire \o Frame[c]
      BY DEF w
    <3> QED BY <2>6, <3>1, <3>2, <3>4, <3>11, <3>12
  <2>9. CASE LoseByte
    BY <2>1, <2>3, <2>9 DEF LoseByte
  <2>10. CASE Read
    <3> DEFINE n == IF Len(wire) < MaxRead THEN Len(wire) ELSE MaxRead
               new == buf \o SubSeq(wire, 1, n)
               rest == SubSeq(wire, n + 1, Len(wire))
    <3>1. /\ pc = "read" /\ wire' = rest
          /\ Fits(n) => buf' = new /\ pc' = "parse"
          /\ UNCHANGED <<axis, seen, position, enabled>>
      BY <2>10 DEF Read
    <3>2. n \in 0..Len(wire) /\ n <= MaxRead
      BY <2>7, BoundsType
    <3> HIDE DEF n
    <3>3. enabled
      BY <2>3, <3>1
    <3>4. Fits(n)
      <4>1. Len(buf) < FrameLen
        BY <2>6, <3>1, <3>3
      <4> QED BY <2>7, <3>2, <4>1, BoundsType DEF Fits
    <3>5. PICK h : \E q \in Nat : /\ StreamOf(h, seen, axis, buf, wire)
                                  /\ Whole(buf, wire, q) /\ position = PositionOf[h[q]]
      BY <2>6, <3>3 DEF Followed
    <3>6. PICK q \in Nat : /\ StreamOf(h, seen, axis, buf, wire)
                           /\ Whole(buf, wire, q) /\ position = PositionOf[h[q]]
      BY <3>5
    <3>7. StreamOf(h, seen, axis, new, rest) /\ Len(new) + Len(rest) = Len(buf) + Len(wire)
      <4>1. StreamOf(h, seen, axis, buf, wire)
        BY <3>6
      <4>2. n \in 0..Len(wire)
        BY <3>2
      <4>3. /\ seen \in SUBSET Axis /\ axis \in Axis
            /\ wire \in Seq(0..(Base - 1)) /\ buf \in Seq(0..(Base - 1))
        BY <2>1
      <4> QED BY <4>1, <4>2, <4>3, StreamRead, ZenonT(60)
    <3> HIDE DEF new, rest
    <3>8. Whole(new, rest, q)
      BY <3>6, <3>7 DEF Whole
    <3>9. Followed(seen, axis, new, rest, position)
      BY <3>6, <3>7, <3>8 DEF Followed
    <3> QED BY <3>1, <3>4, <3>9
  <2>11. ASSUME enabled, HasFrame(buf)
         PROVE  /\ Sound(First(buf)) /\ Near(position, Signed(Value(First(buf))))
                /\ Followed(seen, axis, Consumed(buf), wire, Signed(Value(First(buf))))
    <3>1. Len(buf) >= FrameLen
      <4>1. FirstHead(buf) \in 1..(Len(buf) - 1) /\ FirstHead(buf) + FrameLen - 1 <= Len(buf)
        BY <2>1, <2>11, FirstHeadIs
      <4> QED BY <2>7, <4>1
    <3>2. Followed(seen, axis, buf, wire, position)
      BY <2>6, <2>11
    <3> QED BY <2>1, <3>1, <3>2, FollowedNext
  <2>12. CASE Parse
    <3> DEFINE p == Signed(Value(First(buf)))
    <3>1. /\ pc = "parse" /\ HasFrame(buf) /\ Sound(First(buf))
          /\ position' = (IF ~enabled \/ Near(position, p) THEN p ELSE position)
          /\ buf' = Consumed(buf) /\ UNCHANGED <<axis, wire, pc, seen>>
      BY <2>12 DEF Parse
    <3>2. CASE enabled
      <4>1. Near(position, p) /\ Followed(seen, axis, Consumed(buf), wire, p)
        BY <2>11, <3>1, <3>2
      <4> HIDE DEF p
      <4> QED BY <3>1, <4>1
    <3>3. CASE ~enabled
      <4>1. Followed(seen, axis, Consumed(buf), wire, p)
        BY <2>1, <2>5, <3>1, FollowedFirst
      <4> HIDE DEF p
      <4> QED BY <3>1, <3>3, <4>1
    <3> QED BY <2>1, <3>2, <3>3
  <2>13. CASE Break
    <3>1. /\ UNCHANGED <<axis, wire, seen, enabled, position>>
          /\ \/ (Len(buf) <= 2 \/ ~HasFrame(buf)) /\ buf' = buf
             \/ HasFrame(buf) /\ ~Sound(First(buf))
      BY <2>13 DEF Break
    <3>2. enabled
      BY <2>3, <3>1
    <3>3. Followed(seen, axis, buf, wire, position)
      BY <2>6, <3>2
    <3>4. buf' = buf /\ (Len(buf) <= 2 \/ ~HasFrame(buf))
      BY <2>11, <3>1, <3>2
    <3>5. Len(buf) < FrameLen
      <4>1. ASSUME Len(buf) >= FrameLen PROVE HasFrame(buf)
        BY <2>1, <3>3, <4>1, FollowedNext
      <4>2. FrameLen > 2
        BY Sizes
      <4> QED BY <2>7, <3>4, <4>1, <4>2
    <3> QED BY <3>1, <3>3, <3>4, <3>5
  <2>14. CASE UNCHANGED vars
    BY <2>3, <2>6, <2>14 DEF vars
  <2> QED BY <2>8, <2>9, <2>10, <2>12, <2>13, <2>14 DEF Next
<1> QED BY <1>1, <1>2, EncoderTyped, EncoderIntact, PTL DEF Spec

\* When all that was sent has been read, the angle published is that of the last frame: of
\* an encoder whose frames nothing between them can be taken for, with a buffer that has room
\* for a read behind a part of a frame, while the axis is never past the filter
\* (receivethread).
THEOREM PublishesTheLatest ==
    ASSUME FramesAlone, StepsNear, MaxRead + FrameLen <= Capacity
    PROVE  Spec => []UpToDate
<1>1. TypeOK /\ Following => UpToDate
  <2> SUFFICES ASSUME TypeOK, Following, lost = 0, enabled, wire = <<>>, pc = "read"
               PROVE  position = PositionOf[latest]
    BY DEF UpToDate
  <2>1. /\ latest = axis /\ Followed(seen, axis, buf, wire, position) /\ Len(buf) < FrameLen
    BY DEF Following
  <2>2. PICK g : \E q \in Nat : /\ StreamOf(g, seen, axis, buf, wire)
                                /\ Whole(buf, wire, q) /\ position = PositionOf[g[q]]
    BY <2>1 DEF Followed
  <2>3. PICK q \in Nat : /\ StreamOf(g, seen, axis, buf, wire)
                         /\ Whole(buf, wire, q) /\ position = PositionOf[g[q]]
    BY <2>2
  <2>4. Len(buf) \in Nat /\ Len(wire) = 0 /\ FrameLen \in Nat
    BY Sizes DEF TypeOK
  <2>5. Len(buf) + Len(wire) = FrameLen * q
    BY <2>3 DEF Whole
  <2>6. q = 0
    <3>1. q >= 1 => FrameLen * q >= FrameLen
      BY <2>4
    <3> QED BY <2>1, <2>4, <2>5, <3>1
  <2>7. g[0] = axis
    BY <2>3 DEF StreamOf
  <2> QED BY <2>1, <2>3, <2>6, <2>7
<1> QED BY <1>1, EncoderTyped, FollowingHolds, PTL

\* An axis that keeps away from half a turn makes small steps.
LEMMA SmallSteps ==
    ASSUME Axis \subseteq (-(Pulses \div 2))..(Pulses \div 2), MaxStep < Threshold
    PROVE  StepsNear
<1> DEFINE half == Pulses \div 2
           m == Pulses + 1
<1>1. /\ half \in Nat /\ half <= Pulses /\ 2 * half <= Pulses /\ Pulses \in Nat
      /\ m \in Nat \ {0} /\ m = Pulses + 1
  BY Sizes
<1>2. Direction \in {-1, 1} /\ Threshold \in Nat
  BY EncoderAssumption
<1>3. ASSUME NEW a \in Axis
      PROVE  /\ a \in (-half)..half
             /\ PositionOf[a] = Direction * (IF a < 0 THEN a + 1 ELSE a)
  <2>1. a \in (-half)..half
    OBVIOUS
  <2> HIDE DEF half
  <2>2. a \in Int
    BY <1>1, <2>1
  <2> HIDE DEF m
  <2>3. a \div m \in Int /\ a % m \in 0..(m - 1) /\ a = m * (a \div m) + (a % m)
    BY <1>1, <2>2, Division
  <2>4. CASE a < 0
    <3>1. a + m \in 0..(m - 1) /\ a = m * (-1) + (a + m) /\ -1 \in Int
      BY <1>1, <2>1, <2>4
    <3>2. m * (-1) + (a + m) = m * (a \div m) + (a % m)
      BY <2>3, <3>1
    <3>3. a % m = a + m
      BY <1>1, <2>3, <3>1, <3>2, OneQuotient
    <3>4. Count(a) = a + Pulses + 1
      BY <1>1, <2>2, <3>3 DEF Count, m
    <3>5. Count(a) > half /\ Count(a) - Pulses = a + 1
      BY <1>1, <2>1, <3>4
    <3>6. Signed(Count(a)) = Direction * (a + 1)
      BY <3>5 DEF Signed, half
    <3> QED BY <2>1, <2>4, <3>6 DEF PositionOf
  <2>5. CASE a >= 0
    <3>1. a \in 0..(m - 1) /\ a = m * 0 + a
      BY <1>1, <2>1, <2>5
    <3>2. m * 0 + a = m * (a \div m) + (a % m)
      BY <2>3, <3>1
    <3>3. a % m = a
      BY <1>1, <2>3, <3>1, <3>2, OneQuotient
    <3>4. Count(a) = a /\ ~(Count(a) > half)
      BY <1>1, <2>1, <3>3 DEF Count, m
    <3>5. Signed(Count(a)) = Direction * a
      BY <3>4 DEF Signed, half
    <3>6. ~(a < 0)
      BY <2>2, <2>5
    <3> QED BY <2>1, <3>5, <3>6 DEF PositionOf
  <2> QED BY <2>2, <2>4, <2>5
<1>4. SUFFICES ASSUME NEW a \in Axis, NEW b \in Axis, Abs(a - b) <= MaxStep
               PROVE  Near(PositionOf[a], PositionOf[b])
  BY DEF StepsNear
<1>5. /\ a \in Int /\ b \in Int
      /\ PositionOf[a] = Direction * (IF a < 0 THEN a + 1 ELSE a)
      /\ PositionOf[b] = Direction * (IF b < 0 THEN b + 1 ELSE b)
  BY <1>1, <1>3
<1> DEFINE x == IF a < 0 THEN a + 1 ELSE a
           y == IF b < 0 THEN b + 1 ELSE b
<1>6. MaxStep \in Nat
  BY EncoderAssumption
<1>7. x \in Int /\ y \in Int /\ x - y \in (-MaxStep)..MaxStep
  BY <1>4, <1>5, <1>6 DEF Abs
<1>8. PositionOf[a] = Direction * x /\ PositionOf[b] = Direction * y
  BY <1>5
<1> HIDE DEF x, y
<1>9. Direction * x - Direction * y \in (-MaxStep)..MaxStep
  <2>1. CASE Direction = 1
    BY <1>6, <1>7, <2>1
  <2>2. CASE Direction = -1
    BY <1>6, <1>7, <2>2
  <2> QED BY <1>2, <2>1, <2>2
<1> DEFINE z == PositionOf[a] - PositionOf[b]
<1>10. z \in (-MaxStep)..MaxStep
  BY <1>8, <1>9
<1> HIDE DEF z
<1>11. Abs(z) \in Int /\ Abs(z) <= MaxStep
  BY <1>6, <1>10 DEF Abs
<1> QED BY <1>2, <1>6, <1>11 DEF Near, z

\* Encoder 3, of two bytes and 2^16 counts a turn, is such an encoder, and 128 bytes are room
\* for a read of 120 and a part of a frame of 5.
THEOREM TwoBytesUpToDate ==
    ASSUME Payload = 2, HeaderApart, Pulses + 1 = Base * Base,
           Axis \subseteq (-(Pulses \div 2))..(Pulses \div 2), MaxStep < Threshold,
           MaxStep < Base, MaxRead + FrameLen <= Capacity
    PROVE  Spec => []UpToDate
BY SixteenBitsApart, SmallSteps, PublishesTheLatest

=============================================================================

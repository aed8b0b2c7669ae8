-------------------------- MODULE ArithmeticLemmas ---------------------------
(***************************************************************************)
(* Facts about natural numbers that the proofs share: induction, division, *)
(* powers, and powers of two and their multiples.                          *)
(***************************************************************************)
EXTENDS Powers, Integers, WellFoundedInduction, TLAPS

\* What holds of 0 and of the successor of each number it holds of holds of all
\* numbers: otherwise there were a least one it does not hold of.
LEMMA NatSetInduction ==
  ASSUME NEW S, 0 \in S, \A n \in Nat : n \in S => n + 1 \in S
  PROVE  Nat \subseteq S
<1> SUFFICES ASSUME Nat \ S # {} PROVE FALSE
  BY Zenon
<1>1. PICK x \in Nat \ S : \A y \in Nat \ S : ~ (<<y, x>> \in OpToRel(<,Nat))
  <2> DEFINE R == OpToRel(<,Nat)
             T == Nat \ S
  <2>1. IsWellFoundedOn(R, Nat)
    BY NatLessThanWellFounded, Zenon
  <2>2. T \subseteq Nat /\ T # {}
    BY Zenon
  <2> HIDE DEF R, T
  <2>3. \E x \in T : \A y \in T : ~ (<<y, x>> \in R)
    BY <2>1, <2>2, WFMin, Zenon
  <2> QED BY <2>3, Zenon DEF R, T
<1>2. x # 0 /\ x - 1 \in Nat
  OBVIOUS
<1>3. <<x - 1, x>> \in OpToRel(<,Nat)
  BY <1>2 DEF OpToRel
<1>4. x - 1 \in S
  BY <1>1, <1>2, <1>3, Zenon
<1> QED BY <1>4, <1>2

LEMMA Quotient ==
  ASSUME NEW a \in Nat, NEW b \in Nat \ {0}
  PROVE  /\ a \div b \in Nat /\ (a \div b) * b <= a /\ a < (a \div b) * b + b
  OBVIOUS

LEMMA Monotone ==
  ASSUME NEW x \in Nat, NEW y \in Nat, NEW b \in Nat, x <= y
  PROVE  x * b <= y * b /\ x * b \in Nat /\ y * b \in Nat
  OBVIOUS

LEMMA FitsIff ==
  ASSUME NEW a \in Nat, NEW b \in Nat \ {0}, NEW x \in Nat
  PROVE  x * b <= a <=> x <= a \div b
<1>1. PICK q : q = a \div b /\ q \in Nat /\ q * b <= a /\ a < q * b + b
  BY Quotient, Zenon
<1>2. x <= q => x * b <= q * b
  BY <1>1, Monotone, Zenon
<1>3. ~ (x <= q) => (q + 1) * b <= x * b
  BY <1>1, Monotone
<1>4. (q + 1) * b = q * b + b /\ q * b \in Nat /\ x * b \in Nat
  BY <1>1
<1> QED BY <1>1, <1>2, <1>3, <1>4

LEMMA PowerFacts ==
  ASSUME NEW c \in Nat
  PROVE  /\ Power(c, 0) = 1
         /\ \A n \in Nat : Power(c, n) \in Nat /\ Power(c, n + 1) = c * Power(c, n)
<1> DEFINE Def(h) == [k \in Nat |-> IF k = 0 THEN 1 ELSE c * h[k - 1]]
           power == CHOOSE h : h = Def(h)
           Upto(n, h) == h \in [0 .. n -> Nat] /\ h[0] = 1 /\ \A k \in 0 .. n - 1 : h[k + 1] = c * h[k]
           S == {n \in Nat : \E h : Upto(n, h)}
           upto(n) == CHOOSE h : Upto(n, h)
           T == {n \in Nat : \A m \in Nat : \A g, h : n <= m /\ Upto(n, g) /\ Upto(m, h) => g[n] = h[n]}
           f == [n \in Nat |-> upto(n)[n]]
<1>1. \A n : Power(c, n) = power[n]
  BY Zenon DEF Power
<1>2. \A n \in Nat : \E h : Upto(n, h)
  <2>1. 0 \in S
    <3>1. Upto(0, [k \in 0 .. 0 |-> 1])
      OBVIOUS
    <3> QED BY <3>1, Zenon
  <2>2. ASSUME NEW n \in Nat, n \in S PROVE n + 1 \in S
    <3>1. PICK h : Upto(n, h)
      BY <2>2, Zenon
    <3>2. n \in 0 .. n /\ h[n] \in Nat /\ c * h[n] \in Nat
      BY <3>1
    <3> DEFINE g == [k \in 0 .. n + 1 |-> IF k = n + 1 THEN c * h[n] ELSE h[k]]
    <3>3. g \in [0 .. n + 1 -> Nat] /\ g[0] = 1
      BY <3>1, <3>2
    <3>4. ASSUME NEW k \in 0 .. n PROVE g[k + 1] = c * g[k]
      <4>1. CASE k = n
        BY <4>1
      <4>2. CASE k # n
        BY <3>1, <4>2
      <4> QED BY <4>1, <4>2, Zenon
    <3>5. 0 .. n = 0 .. (n + 1) - 1
      OBVIOUS
    <3>6. Upto(n + 1, g)
      <4> HIDE DEF g
      <4> QED BY <3>3, <3>4, <3>5, Zenon
    <3> HIDE DEF Upto, g
    <3> QED BY <3>6
  <2>3. Nat \subseteq S
    <3> HIDE DEF S
    <3> QED BY <2>1, <2>2, NatSetInduction, Zenon
  <2> HIDE DEF Upto
  <2> QED BY <2>3, Zenon
<1>3. \A n \in Nat : Upto(n, upto(n))
  <2> HIDE DEF Upto
  <2> QED BY <1>2, Zenon
<1> HIDE DEF upto
<1>4. Nat \subseteq T
  <2>1. 0 \in T
    BY Zenon
  <2>2. ASSUME NEW n \in Nat, n \in T PROVE n + 1 \in T
    <3> HIDE DEF Upto
    <3> SUFFICES ASSUME NEW m \in Nat, NEW g, NEW h, n + 1 <= m, Upto(n + 1, g), Upto(m, h)
                 PROVE  g[n + 1] = h[n + 1]
      OBVIOUS
    <3> USE DEF Upto
    <3> DEFINE b == [k \in 0 .. n |-> g[k]]
    <3>1. n \in 0 .. (n + 1) - 1 /\ n \in 0 .. m - 1 /\ n <= m
      OBVIOUS
    <3>2. Upto(n, b) /\ b[n] = g[n]
      OBVIOUS
    <3>3. b[n] = h[n]
      <4> HIDE DEF b, Upto
      <4> QED BY <2>2, <3>1, <3>2, Zenon
    <3>4. g[n + 1] = c * g[n] /\ h[n + 1] = c * h[n]
      BY <3>1, Zenon
    <3> QED BY <3>2, <3>3, <3>4, Zenon
  <2> HIDE DEF T
  <2> QED BY <2>1, <2>2, NatSetInduction, Zenon
<1>5. \A n \in Nat : f[n] = upto(n)[n] /\ f[n] \in Nat
  <2> SUFFICES ASSUME NEW n \in Nat PROVE upto(n)[n] \in Nat
    BY Zenon
  <2>1. upto(n) \in [0 .. n -> Nat] /\ n \in 0 .. n
    BY <1>3
  <2> QED BY <2>1, Zenon
<1>6. f[0] = 1
  <2>1. upto(0)[0] = 1
    BY <1>3, Zenon
  <2> QED BY <1>5, <2>1, Zenon
<1>7. ASSUME NEW n \in Nat PROVE f[n + 1] = c * f[n]
  <2>1. PICK g, h : g = upto(n) /\ h = upto(n + 1)
    BY Zenon
  <2>2. Upto(n, g) /\ Upto(n + 1, h) /\ n <= n + 1 /\ n + 1 \in Nat
    <3> HIDE DEF Upto
    <3> QED BY <1>3, <2>1
  <2>3. g[n] = h[n]
    <3> HIDE DEF Upto
    <3> QED BY <1>4, <2>2, Zenon
  <2>4. h[n + 1] = c * h[n]
    <3>1. n \in 0 .. (n + 1) - 1
      OBVIOUS
    <3> QED BY <2>2, <3>1, Zenon
  <2>5. f[n] = g[n] /\ f[n + 1] = h[n + 1]
    BY <2>1, <2>2, Zenon
  <2> QED BY <2>3, <2>4, <2>5, Zenon
<1> HIDE DEF f, Upto, S, T
<1>8. f = Def(f)
  <2>1. f = [k \in Nat |-> f[k]]
    BY Zenon DEF f
  <2>2. ASSUME NEW k \in Nat PROVE f[k] = IF k = 0 THEN 1 ELSE c * f[k - 1]
    <3>1. k # 0 => k - 1 \in Nat /\ (k - 1) + 1 = k
      OBVIOUS
    <3> QED BY <1>6, <1>7, <3>1, Zenon
  <2> QED BY <2>1, <2>2, Zenon
<1>9. power = Def(power)
  <2> HIDE DEF Def
  <2> QED BY <1>8, Zenon
<1> HIDE DEF power
<1>10. power[0] = 1 /\ \A n \in Nat : power[n + 1] = c * power[n]
  <2>1. \A k \in Nat : power[k] = IF k = 0 THEN 1 ELSE c * power[k - 1]
    BY <1>9, Zenon
  <2>2. \A n \in Nat : n + 1 \in Nat /\ n + 1 # 0 /\ (n + 1) - 1 = n
    OBVIOUS
  <2> HIDE DEF Def
  <2> QED BY <2>1, <2>2, Zenon
<1>11. \A n \in Nat : power[n] \in Nat
  <2> DEFINE N == {n \in Nat : power[n] \in Nat}
  <2>1. 0 \in N /\ \A n \in Nat : n \in N => n + 1 \in N
    BY <1>10
  <2> HIDE DEF N
  <2>2. Nat \subseteq N
    BY <2>1, NatSetInduction, Zenon
  <2> QED BY <2>2, Zenon DEF N
<1> QED BY <1>1, <1>10, <1>11, Zenon

LEMMA PowerPositive ==
  ASSUME NEW c \in Nat \ {0}
  PROVE  \A n \in Nat : Power(c, n) \in Nat \ {0}
<1> DEFINE S == {n \in Nat : Power(c, n) # 0}
<1>1. Power(c, 0) = 1 /\ \A n \in Nat : Power(c, n) \in Nat /\ Power(c, n + 1) = c * Power(c, n)
  BY PowerFacts, Zenon
<1>2. 0 \in S
  BY <1>1
<1>3. ASSUME NEW n \in Nat, n \in S PROVE n + 1 \in S
  <2>1. PICK p : p = Power(c, n) /\ p \in Nat /\ p # 0 /\ Power(c, n + 1) = c * p
    BY <1>1, <1>3, Zenon
  <2>2. c * p # 0 /\ n + 1 \in Nat
    BY <2>1
  <2> QED BY <2>1, <2>2, Zenon
<1> HIDE DEF S
<1>4. Nat \subseteq S
  BY <1>2, <1>3, NatSetInduction, Zenon
<1> QED BY <1>1, <1>4, Zenon DEF S

Multiple(n, a) == \E j \in Nat : n = j * a

LEMMA MultipleIff ==
  ASSUME NEW n \in Nat, NEW a \in Nat \ {0}
  PROVE  n % a = 0 <=> Multiple(n, a)
<1>1. n % a = 0 => Multiple(n, a)
  <2>1. n \div a \in Nat /\ n = (n \div a) * a + (n % a)
    OBVIOUS
  <2> QED BY <2>1 DEF Multiple
<1>2. ASSUME NEW j \in Nat, n = j * a PROVE n % a = 0
  BY <1>2
<1> QED BY <1>1, <1>2 DEF Multiple

LEMMA MultipleFacts ==
  ASSUME NEW a \in Nat \ {0}, NEW b \in Nat \ {0}, NEW m \in Nat, NEW n \in Nat
  PROVE  /\ Multiple(0, a) /\ Multiple(a, a)
         /\ Multiple(m, a) /\ Multiple(n, a) => Multiple(m + n, a)
         /\ Multiple(m, a) /\ Multiple(a, b) => Multiple(m, b)
         /\ Multiple(m, a) => Multiple(n * m, a)
         /\ Multiple(m, a) /\ Multiple(n, a) /\ m < n => m + a <= n
<1>1. Multiple(0, a) /\ Multiple(a, a)
  <2>1. 0 \in Nat /\ 0 = 0 * a /\ 1 \in Nat /\ a = 1 * a
    OBVIOUS
  <2> QED BY <2>1, Zenon DEF Multiple
<1>2. ASSUME NEW j \in Nat, NEW k \in Nat, m = j * a, n = k * a
      PROVE  Multiple(m + n, a) /\ (m < n => m + a <= n)
  <2>1. m + n = (j + k) * a /\ j + k \in Nat
    BY <1>2
  <2>2. ASSUME m < n PROVE m + a <= n
    <3>1. j < k
      <4>1. ~ (j < k) => k * a <= j * a
        BY Monotone, a \in Nat
      <4> QED BY <1>2, <2>2, <4>1
    <3>2. (j + 1) * a <= k * a
      <4>1. j + 1 \in Nat /\ j + 1 <= k /\ a \in Nat
        BY <3>1
      <4> QED BY <4>1, Monotone, Zenon
    <3>3. (j + 1) * a = m + a
      BY <1>2
    <3> QED BY <1>2, <3>2, <3>3, Zenon
  <2> QED BY <2>1, <2>2, Zenon DEF Multiple
<1>3. ASSUME NEW j \in Nat, NEW k \in Nat, m = j * a, a = k * b PROVE Multiple(m, b)
  <2>1. m = (j * k) * b /\ j * k \in Nat
    BY <1>3
  <2> QED BY <2>1, Zenon DEF Multiple
<1>4. ASSUME NEW j \in Nat, m = j * a PROVE Multiple(n * m, a)
  <2>1. n * m = (n * j) * a /\ n * j \in Nat
    BY <1>4
  <2> QED BY <2>1, Zenon DEF Multiple
<1> QED BY <1>1, <1>2, <1>3, <1>4, Zenon DEF Multiple

Two(k) == Power(2, k)

LEMMA TwoFacts ==
  /\ Two(0) = 1
  /\ \A n \in Nat : Two(n) \in Nat \ {0} /\ Two(n + 1) = 2 * Two(n)
<1>1. 2 \in Nat \ {0} /\ 2 \in Nat
  OBVIOUS
<1> QED BY <1>1, PowerFacts, PowerPositive, Zenon DEF Two

LEMMA TwoSum ==
  ASSUME NEW k \in Nat
  PROVE  \A d \in Nat : Two(k + d) = Two(d) * Two(k)
<1> DEFINE S == {d \in Nat : Two(k + d) = Two(d) * Two(k)}
<1>1. 0 \in S
  <2>1. Two(k) \in Nat /\ Two(0) = 1
    BY TwoFacts, Zenon
  <2>2. 1 * Two(k) = Two(k) /\ k + 0 = k
    BY <2>1
  <2> QED BY <2>1, <2>2
<1>2. ASSUME NEW d \in Nat, d \in S PROVE d + 1 \in S
  <2>1. PICK x, y, z : /\ x = Two(k + d) /\ y = Two(d) /\ z = Two(k)
                       /\ x \in Nat /\ y \in Nat /\ z \in Nat /\ x = y * z
    <3>1. k + d \in Nat
      OBVIOUS
    <3> QED BY <1>2, <3>1, TwoFacts, Zenon
  <2>2. Two((k + d) + 1) = 2 * x /\ Two(d + 1) = 2 * y
    <3>1. k + d \in Nat
      OBVIOUS
    <3> QED BY <2>1, <3>1, TwoFacts, Zenon
  <2>3. 2 * x = (2 * y) * z /\ k + (d + 1) = (k + d) + 1 /\ d + 1 \in Nat
    BY <2>1
  <2>4. Two(k + (d + 1)) = Two(d + 1) * Two(k)
    BY <2>1, <2>2, <2>3, Zenon
  <2> QED BY <2>3, <2>4, Zenon
<1> HIDE DEF S
<1>3. Nat \subseteq S
  BY <1>1, <1>2, NatSetInduction, Zenon
<1> QED BY <1>3, Zenon DEF S

\* Of two powers of two the larger is a multiple of the smaller.
LEMMA TwoDivides ==
  ASSUME NEW k \in Nat, NEW m \in Nat
  PROVE  /\ k <= m => Multiple(Two(m), Two(k)) /\ Two(k) <= Two(m)
         /\ Two(k) <= Two(m) => Multiple(Two(m), Two(k))
<1>1. ASSUME NEW i \in Nat, NEW j \in Nat, i <= j
      PROVE  Multiple(Two(j), Two(i)) /\ Two(i) <= Two(j)
  <2>1. j - i \in Nat /\ i + (j - i) = j
    BY <1>1
  <2>2. PICK x, y, z : /\ x = Two(j) /\ y = Two(j - i) /\ z = Two(i) /\ x = y * z
                       /\ x \in Nat \ {0} /\ y \in Nat \ {0} /\ z \in Nat \ {0}
    <3>1. Two(i + (j - i)) = Two(j - i) * Two(i)
      BY <2>1, TwoSum, Zenon
    <3>2. Two(j) = Two(j - i) * Two(i)
      BY <2>1, <3>1, Zenon
    <3> QED BY <2>1, <3>2, TwoFacts, Zenon
  <2>3. z <= x
    <3>1. 1 * z <= y * z
      BY <2>2, Monotone
    <3> QED BY <2>2, <3>1
  <2> QED BY <2>2, <2>3, Zenon DEF Multiple
<1>2. Two(k) <= Two(m) => Multiple(Two(m), Two(k))
  <2>1. CASE k <= m
    BY <1>1, <2>1, Zenon
  <2>2. CASE ~ (k <= m)
    <3>1. Two(m) <= Two(k)
      BY <1>1, <2>2
    <3>2. Two(m) \in Nat \ {0} /\ Two(k) \in Nat \ {0}
      BY TwoFacts, Zenon
    <3>3. Two(k) <= Two(m) => Two(k) = Two(m)
      BY <3>1, <3>2
    <3> QED BY <3>2, <3>3, MultipleFacts, Zenon
  <2> QED BY <2>1, <2>2, Zenon
<1> QED BY <1>1, <1>2, Zenon
==============================================================================

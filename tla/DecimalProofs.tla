---------------------------- MODULE DecimalProofs ----------------------------
(***************************************************************************)
(* Theorems on Decimal, for every literal, every power of ten and every     *)
(* width of the integers.                                                   *)
(*                                                                         *)
(* What a row of digits of any length stands for is a recursive function;    *)
(* facts about it are proved by induction on a set of numbers, which          *)
(* well-foundedness of < on Nat justifies.                                  *)
(***************************************************************************)
EXTENDS Decimal, TLAPS, WellFoundedInduction

-----------------------------------------------------------------------------
(* Induction and recursion over Nat *)

(* Induction over Nat, for a set instead of a predicate.                     *)
LEMMA NatSetInduction ==
  ASSUME NEW S, 0 \in S, \A n \in Nat : n \in S => n + 1 \in S
  PROVE  Nat \subseteq S
<1> DEFINE T == Nat \ S
           R == OpToRel(<, Nat)
<1> SUFFICES ASSUME T # {} PROVE FALSE
  OBVIOUS
<1>1. T \subseteq Nat
  OBVIOUS
<1>2. IsWellFoundedOn(R, Nat)
  BY NatLessThanWellFounded
<1> HIDE DEF T, R
<1>3. PICK x \in T : \A y \in T : ~ (<<y, x>> \in R)
  BY <1>1, <1>2, WFMin
<1>4. x \in Nat /\ x # 0 /\ x - 1 \in Nat
  BY <1>1, <1>3 DEF T
<1>5. <<x - 1, x>> \in R
  BY <1>4 DEF R, OpToRel
<1>6. x - 1 \in S
  BY <1>3, <1>4, <1>5 DEF T
<1> QED BY <1>3, <1>4, <1>6 DEF T

(* g follows the recursion up to n, or all the way.                          *)
Follows(g, n, A, c, F) ==
  /\ g \in [0 .. n -> A] /\ g[0] = c
  /\ \A k \in 0 .. n - 1 : g[k + 1] = F[k][g[k]]

Solves(g, A, c, F) ==
  /\ g \in [Nat -> A] /\ g[0] = c
  /\ \A k \in Nat : g[k + 1] = F[k][g[k]]

(* A primitive recursion over Nat has a solution.                            *)
LEMMA NatRecursion ==
  ASSUME NEW A, NEW c \in A, NEW F \in [Nat -> [A -> A]]
  PROVE  \E g : Solves(g, A, c, F)
<1>1. \A n \in Nat : \E g : Follows(g, n, A, c, F)
  <2> DEFINE S == {n \in Nat : \E g : Follows(g, n, A, c, F)}
  <2>1. 0 \in S
    <3>1. Follows([k \in 0 .. 0 |-> c], 0, A, c, F)
      BY DEF Follows
    <3> QED BY <3>1
  <2>2. ASSUME NEW n \in Nat, n \in S PROVE n + 1 \in S
    <3>1. PICK g : Follows(g, n, A, c, F)
      BY <2>2
    <3> DEFINE h == [k \in 0 .. n + 1 |-> IF k <= n THEN g[k] ELSE F[n][g[n]]]
    <3>2. g[n] \in A /\ F[n][g[n]] \in A
      BY <3>1 DEF Follows
    <3>3. h \in [0 .. n + 1 -> A]
      BY <3>1, <3>2 DEF Follows
    <3>4. h[0] = c
      BY <3>1 DEF Follows
    <3>5. ASSUME NEW k \in 0 .. n PROVE h[k + 1] = F[k][h[k]]
      <4>1. CASE k = n
        BY <4>1
      <4>2. CASE k # n
        BY <3>1, <4>2 DEF Follows
      <4> QED BY <4>1, <4>2
    <3>6. Follows(h, n + 1, A, c, F)
      <4> HIDE DEF h
      <4> QED BY <3>3, <3>4, <3>5 DEF Follows
    <3> QED BY <3>6
  <2> HIDE DEF S
  <2>3. Nat \subseteq S
    BY <2>1, <2>2, NatSetInduction
  <2> QED BY <2>3 DEF S
<1>2. ASSUME NEW m \in Nat, NEW n \in Nat, NEW g, NEW h,
             Follows(g, m, A, c, F), Follows(h, n, A, c, F)
      PROVE  \A k \in Nat : k <= m /\ k <= n => g[k] = h[k]
  <2> DEFINE S == {k \in Nat : k <= m /\ k <= n => g[k] = h[k]}
  <2>1. 0 \in S
    BY <1>2 DEF Follows
  <2>2. ASSUME NEW k \in Nat, k \in S PROVE k + 1 \in S
    <3> SUFFICES ASSUME k + 1 <= m, k + 1 <= n PROVE g[k + 1] = h[k + 1]
      OBVIOUS
    <3>1. g[k] = h[k] /\ k \in 0 .. m - 1 /\ k \in 0 .. n - 1
      BY <2>2
    <3> QED BY <1>2, <3>1 DEF Follows
  <2> HIDE DEF S
  <2>3. Nat \subseteq S
    BY <2>1, <2>2, NatSetInduction
  <2> QED BY <2>3 DEF S
<1> DEFINE G(n) == CHOOSE g : Follows(g, n, A, c, F)
           g == [n \in Nat |-> G(n)[n]]
<1>3. \A n \in Nat : Follows(G(n), n, A, c, F)
  BY <1>1
<1> HIDE DEF G
<1>4. g \in [Nat -> A] /\ g[0] = c
  BY <1>3 DEF Follows
<1>5. ASSUME NEW n \in Nat PROVE g[n + 1] = F[n][g[n]]
  <2>1. G(n + 1)[n] = G(n)[n]
    BY <1>2, <1>3
  <2>2. G(n + 1)[n + 1] = F[n][G(n + 1)[n]]
    BY <1>3 DEF Follows
  <2> QED BY <2>1, <2>2
<1> HIDE DEF g
<1> QED BY <1>4, <1>5 DEF Solves

(* The powers of ten are what their recursion says.                         *)
LEMMA Pow10Def ==
  /\ Pow10 \in [Nat -> Nat \ {0}] /\ Pow10[0] = 1
  /\ \A k \in Nat : Pow10[k + 1] = 10 * Pow10[k]
<1> DEFINE A == Nat \ {0}
           c == 1
           F == [n \in Nat |-> [x \in A |-> 10 * x]]
<1>1. c \in A /\ F \in [Nat -> [A -> A]]
  OBVIOUS
<1>2. PICK g : Solves(g, A, c, F)
  <2> HIDE DEF A, c, F
  <2> QED BY <1>1, NatRecursion
<1>3. \A n \in Nat : g[n + 1] = 10 * g[n]
  BY <1>2 DEF Solves
<1>4. g = [k \in Nat |-> IF k = 0 THEN 1 ELSE 10 * g[k - 1]]
  <2>1. ASSUME NEW k \in Nat PROVE g[k] = IF k = 0 THEN 1 ELSE 10 * g[k - 1]
    <3>1. CASE k # 0
      <4>1. k - 1 \in Nat /\ (k - 1) + 1 = k
        BY <3>1
      <4> QED BY <1>3, <3>1, <4>1
    <3> QED BY <1>2, <3>1 DEF Solves
  <2> QED BY <1>2, <2>1 DEF Solves
<1>5. Pow10 = [k \in Nat |-> IF k = 0 THEN 1 ELSE 10 * Pow10[k - 1]]
  <2> HIDE DEF F, A, c
  <2> QED BY <1>4 DEF Pow10
<1>6. Pow10[0] = 1 /\ \A k \in Nat : Pow10[k + 1] = 10 * Pow10[k]
  BY <1>5
<1> DEFINE S == {k \in Nat : Pow10[k] \in Nat \ {0}}
<1>7. Nat \subseteq S
  <2>1. 0 \in S /\ \A n \in Nat : n \in S => n + 1 \in S
    BY <1>6
  <2> HIDE DEF S
  <2> QED BY <2>1, NatSetInduction
<1>8. Pow10 \in [Nat -> Nat \ {0}]
  BY <1>5, <1>7
<1> QED BY <1>6, <1>8

(* The power of a sum is the product of the powers.                         *)
LEMMA Pow10Sum ==
  ASSUME NEW a \in Nat, NEW b \in Nat PROVE Pow10[a + b] = Pow10[a] * Pow10[b]
<1> DEFINE S == {k \in Nat : Pow10[k + b] = Pow10[k] * Pow10[b]}
<1>1. 0 \in S
  BY Pow10Def
<1>2. ASSUME NEW k \in Nat, k \in S PROVE k + 1 \in S
  <2>1. Pow10[(k + b) + 1] = 10 * Pow10[k + b] /\ Pow10[k + 1] = 10 * Pow10[k]
    BY Pow10Def
  <2>2. Pow10[k] \in Nat /\ Pow10[b] \in Nat
    BY Pow10Def
  <2>3. \A x, y \in Nat : 10 * (x * y) = (10 * x) * y
    OBVIOUS
  <2>4. (k + 1) + b = (k + b) + 1
    OBVIOUS
  <2> QED BY <1>2, <2>1, <2>2, <2>3, <2>4
<1> HIDE DEF S
<1>3. Nat \subseteq S
  BY <1>1, <1>2, NatSetInduction
<1> QED BY <1>3 DEF S

(* The values of the prefixes are what their recursion says.                *)
LEMMA ValuesDef ==
  ASSUME NEW d \in Seq(Digits)
  PROVE  /\ Values(d) \in [0 .. Len(d) -> Nat] /\ Values(d)[0] = 0
         /\ \A k \in 0 .. Len(d) - 1 : Values(d)[k + 1] = 10 * Values(d)[k] + d[k + 1]
<1> DEFINE D == 0 .. Len(d)
           c == 0
           F == [n \in Nat |-> [x \in Nat |-> 10 * x + IF n < Len(d) THEN d[n + 1] ELSE 0]]
<1>1. \A n \in Nat : n < Len(d) => d[n + 1] \in Nat
  BY DEF Digits
<1>2. c \in Nat /\ F \in [Nat -> [Nat -> Nat]]
  BY <1>1
<1>3. PICK g : Solves(g, Nat, c, F)
  <2> HIDE DEF F, c
  <2> QED BY <1>2, NatRecursion
<1>4. /\ g \in [Nat -> Nat] /\ g[0] = 0
      /\ \A n \in Nat : n < Len(d) => g[n + 1] = 10 * g[n] + d[n + 1]
  BY <1>3 DEF Solves
<1> HIDE DEF F, c
<1> DEFINE h == [k \in D |-> g[k]]
<1>5. h = [k \in D |-> IF k = 0 THEN 0 ELSE 10 * h[k - 1] + d[k]]
  <2>1. ASSUME NEW k \in D PROVE h[k] = IF k = 0 THEN 0 ELSE 10 * h[k - 1] + d[k]
    <3>1. CASE k # 0
      <4>1. k - 1 \in Nat /\ (k - 1) + 1 = k /\ k - 1 < Len(d) /\ k - 1 \in D
        BY <3>1
      <4>2. g[k] = 10 * g[k - 1] + d[k]
        BY <1>4, <4>1
      <4> QED BY <3>1, <4>1, <4>2
    <3> QED BY <1>4, <3>1
  <2> QED BY <2>1
<1>6. Values(d) = [k \in D |-> IF k = 0 THEN 0 ELSE 10 * Values(d)[k - 1] + d[k]]
  <2> HIDE DEF h
  <2> QED BY <1>5 DEF Values
<1>7. /\ Values(d)[0] = 0
      /\ \A k \in 0 .. Len(d) - 1 : Values(d)[k + 1] = 10 * Values(d)[k] + d[k + 1]
  <2>1. Len(d) \in Nat
    OBVIOUS
  <2>2. ASSUME NEW k \in 0 .. Len(d) - 1
        PROVE  Values(d)[k + 1] = 10 * Values(d)[k] + d[k + 1]
    <3>1. k + 1 \in D /\ k + 1 # 0 /\ (k + 1) - 1 = k
      BY <2>1
    <3> HIDE DEF D
    <3> QED BY <1>6, <3>1
  <2>3. 0 \in D
    BY <2>1
  <2>4. Values(d)[0] = 0
    <3> HIDE DEF D
    <3> QED BY <1>6, <2>3
  <2> QED BY <2>2, <2>4
<1> DEFINE S == {k \in Nat : k <= Len(d) => Values(d)[k] \in Nat}
<1>8. Nat \subseteq S
  <2>1. 0 \in S
    BY <1>7
  <2>2. ASSUME NEW n \in Nat, n \in S PROVE n + 1 \in S
    <3> SUFFICES ASSUME n + 1 <= Len(d) PROVE Values(d)[n + 1] \in Nat
      OBVIOUS
    <3>1. n \in 0 .. Len(d) - 1 /\ Values(d)[n] \in Nat /\ d[n + 1] \in Nat
      BY <1>1, <2>2
    <3> QED BY <1>7, <3>1
  <2> HIDE DEF S
  <2> QED BY <2>1, <2>2, NatSetInduction
<1>9. Values(d) \in [D -> Nat]
  <2>1. \A k \in D : Values(d)[k] \in Nat
    BY <1>8
  <2> HIDE DEF D
  <2> QED BY <1>6, <2>1
<1> QED BY <1>7, <1>9

(* A product with a natural number is monotone, strictly if it is not 0.     *)
LEMMA Monotone ==
  /\ \A x, y, z \in Nat : x <= y => x * z <= y * z
  /\ \A x, y \in Nat, z \in Nat \ {0} : x < y => x * z < y * z
OBVIOUS

(* A quotient is the multiple of the divisor that the dividend lies above.  *)
LEMMA DivLemma ==
  ASSUME NEW a \in Nat, NEW b \in Nat \ {0}, NEW q \in Nat,
         b * q <= a, a < b * (q + 1)
  PROVE  a \div b = q
OBVIOUS

(* The digits after the first j add less than one unit of the j-th.          *)
LEMMA ValueBounds ==
  ASSUME NEW d \in Seq(Digits), NEW j \in 0 .. Len(d)
  PROVE  \A r \in Nat : j + r <= Len(d) =>
           /\ Values(d)[j] * Pow10[r] <= Values(d)[j + r]
           /\ Values(d)[j + r] < (Values(d)[j] + 1) * Pow10[r]
<1> DEFINE V == Values(d)
           m == V[j]
           S == {r \in Nat : j + r <= Len(d) => /\ m * Pow10[r] <= V[j + r]
                                                /\ V[j + r] < (m + 1) * Pow10[r]}
<1>1. /\ Len(d) \in Nat /\ j \in Nat /\ m \in Nat
      /\ \A k \in Nat : k <= Len(d) => V[k] \in Nat
      /\ \A k \in Nat : k < Len(d) => V[k + 1] = 10 * V[k] + d[k + 1] /\ d[k + 1] \in Digits
  <2>1. \A k \in Nat : k < Len(d) => k \in 0 .. Len(d) - 1 /\ d[k + 1] \in Digits
    OBVIOUS
  <2>2. V \in [0 .. Len(d) -> Nat]
    BY ValuesDef
  <2>3. \A k \in 0 .. Len(d) - 1 : V[k + 1] = 10 * V[k] + d[k + 1]
    BY ValuesDef
  <2> HIDE DEF V
  <2> QED BY <2>1, <2>2, <2>3
<1> HIDE DEF V
<1>3. 0 \in S
  <2>1. Pow10[0] = 1 /\ j + 0 = j
    BY Pow10Def
  <2>2. m * 1 = m /\ m < (m + 1) * 1 /\ m <= m
    BY <1>1
  <2> QED BY <2>1, <2>2
<1> HIDE DEF m
<1>4. ASSUME NEW r \in Nat, r \in S PROVE r + 1 \in S
  <2> SUFFICES ASSUME j + (r + 1) <= Len(d)
               PROVE  /\ m * Pow10[r + 1] <= V[j + (r + 1)]
                      /\ V[j + (r + 1)] < (m + 1) * Pow10[r + 1]
    OBVIOUS
  <2> DEFINE x == V[j + r]
             p == Pow10[r]
             lo == m * p
             hi == (m + 1) * p
  <2>1. lo <= x /\ x < hi
    BY <1>1, <1>4
  <2>2. /\ j + (r + 1) = (j + r) + 1 /\ j + r \in Nat /\ j + r < Len(d)
    BY <1>1
  <2>3. V[j + (r + 1)] = 10 * x + d[(j + r) + 1] /\ d[(j + r) + 1] \in 0 .. 9 /\ x \in Nat
    BY <1>1, <2>2 DEF Digits
  <2>4. Pow10[r + 1] = 10 * p /\ p \in Nat
    BY Pow10Def
  <2>5. \A a \in Nat : a * (10 * p) = 10 * (a * p) /\ a * p \in Nat
    <3> HIDE DEF p
    <3> QED BY <2>4
  <2>6. m \in Nat /\ m + 1 \in Nat
    BY <1>1
  <2>7. /\ m * Pow10[r + 1] = 10 * lo /\ (m + 1) * Pow10[r + 1] = 10 * hi
        /\ lo \in Nat /\ hi \in Nat
    <3> HIDE DEF p
    <3> QED BY <2>4, <2>5, <2>6, Zenon
  <2> HIDE DEF x, lo, hi
  <2> QED BY <2>1, <2>3, <2>7
<1> HIDE DEF S
<1>5. Nat \subseteq S
  BY <1>3, <1>4, NatSetInduction
<1> QED BY <1>5 DEF S, V, m

(* v is what w is without its last digits, q being the unit that is left.    *)
Truncates(v, q, w) == v * q <= w /\ w < (v + 1) * q

(* The nearest integer to w / (10 * q), both scaled by p.                    *)
Halved(w, p, q) == (2 * w * p + p * (10 * q)) \div (2 * (p * (10 * q)))

Up(s) == IF s >= 5 THEN 1 ELSE 0

(* The first surplus digit decides, whatever follows it.                    *)
LEMMA RoundLemma ==
  ASSUME NEW m \in Nat, NEW s \in Digits, NEW q \in Nat \ {0}, NEW p \in Nat \ {0},
         NEW w \in Nat, Truncates(10 * m + s, q, w)
  PROVE  Halved(w, p, q) = m + Up(s)
<1> DEFINE v == 10 * m + s
           x == m + IF s >= 5 THEN 1 ELSE 0
           a == 2 * w + 10 * q
           b == 20 * q
           mq == m * q
<1>1. mq \in Nat /\ s \in 0 .. 9 /\ x \in Nat
  BY DEF Digits
<1> v * q <= w /\ w < (v + 1) * q
  BY DEF Truncates
<1>2. /\ v * q = 10 * mq + s * q
      /\ (v + 1) * q = 10 * mq + (s + 1) * q
  BY <1>1
<1>3. b * x = 20 * mq + (IF s >= 5 THEN 20 * q ELSE 0) /\ b * (x + 1) = b * x + 20 * q
  BY <1>1
<1>4. b * x <= a /\ a < b * (x + 1)
  <2>1. CASE s >= 5
    <3>1. 5 * q <= s * q /\ (s + 1) * q <= 10 * q
      BY <1>1, <2>1, Monotone
    <3> HIDE DEF mq, x
    <3> QED BY <1>1, <1>2, <1>3, <2>1, <3>1
  <2>2. CASE s < 5
    <3>1. 0 <= s * q /\ (s + 1) * q <= 5 * q
      BY <1>1, <2>2, Monotone
    <3> HIDE DEF mq, x
    <3> QED BY <1>1, <1>2, <1>3, <2>2, <3>1
  <2> QED BY <1>1, <2>1, <2>2
<1> HIDE DEF x
<1>5. /\ a \in Nat /\ b \in Nat \ {0} /\ b * x \in Nat /\ b * (x + 1) \in Nat
      /\ p * a \in Nat /\ p * b \in Nat \ {0}
  BY <1>1
<1>6. 2 * w * p + p * (10 * q) = p * a /\ 2 * (p * (10 * q)) = p * b
  OBVIOUS
<1> HIDE DEF a, b
<1>7. (p * b) * x <= p * a /\ p * a < (p * b) * (x + 1)
  <2>1. (b * x) * p <= a * p /\ a * p < (b * (x + 1)) * p
    BY <1>4, <1>5, Monotone
  <2>2. \A i, j, k \in Nat : (i * j) * k = (k * i) * j /\ i * k = k * i
    OBVIOUS
  <2> QED BY <1>1, <1>5, <2>1, <2>2
<1>8. (p * a) \div (p * b) = x
  BY <1>1, <1>5, <1>7, DivLemma
<1> QED BY <1>6, <1>8 DEF x, Halved, Up
(* What is pushed is a digit.                                               *)
LEMMA DigitLemma ==
  ASSUME raw \in Literal, IsPlain(raw), NEW p \in Nat
  PROVE  Digit(p + 1) \in Digits
<1> DEFINE i == raw.int
           f == raw.frac
           k == p + 1
<1>1. i \in Seq(Bytes) /\ f \in Seq(Bytes)
  BY DEF Literal
<1>2. ASSUME NEW s \in Seq(Bytes), Junk \notin ToSet(s), NEW n \in 1 .. Len(s)
      PROVE  s[n] \in Digits
  <2>1. s[n] \in Bytes
    OBVIOUS
  <2>2. s[n] \in ToSet(s)
    BY DEF ToSet
  <2> QED BY <1>2, <2>1, <2>2 DEF Bytes
<1>3. Junk \notin ToSet(i) /\ Junk \notin ToSet(f)
  BY DEF IsPlain
<1>4. /\ \A n \in 1 .. Len(i) : i[n] \in Digits
      /\ \A n \in 1 .. Len(f) : f[n] \in Digits
      /\ Len(i) \in Nat /\ Len(f) \in Nat
  BY <1>1, <1>2, <1>3
<1>5. Digit(k) = IF k <= Len(i) THEN i[k]
                 ELSE IF k - Len(i) <= Len(f) THEN f[k - Len(i)] ELSE 0
  BY DEF Digit
<1>6. k \in Nat \ {0}
  OBVIOUS
<1> SUFFICES Digit(k) \in Digits
  OBVIOUS
<1> HIDE DEF i, f, k
<1>7. CASE k <= Len(i)
  <2>1. k \in 1 .. Len(i)
    BY <1>4, <1>6, <1>7
  <2> QED BY <1>4, <1>5, <1>7, <2>1
<1>8. CASE ~ (k <= Len(i)) /\ k - Len(i) <= Len(f)
  <2>1. k - Len(i) \in 1 .. Len(f)
    BY <1>4, <1>6, <1>8
  <2> QED BY <1>4, <1>5, <1>8, <2>1
<1>9. CASE ~ (k <= Len(i)) /\ ~ (k - Len(i) <= Len(f))
  BY <1>5, <1>9 DEF Digits
<1> QED BY <1>7, <1>8, <1>9

-----------------------------------------------------------------------------
(* All of the literal's digits, and the number that its first p are, with    *)
(* zeros for those it has not.                                              *)
Row == raw.int \o raw.frac

Shifted(p) ==
  IF p <= Len(Row) THEN Values(Row)[p]
  ELSE Values(Row)[Len(Row)] * Pow10[p - Len(Row)]

Plain == raw \in Literal /\ IsPlain(raw)

(* The row of all digits holds those before the point, then those after it. *)
LEMMA RowLemma ==
  ASSUME Plain
  PROVE  /\ Len(raw.int) \in Nat /\ Len(raw.frac) \in Nat
         /\ Row \in Seq(Digits) /\ Len(Row) = Len(raw.int) + Len(raw.frac)
         /\ \A p \in Nat : Digit(p + 1) = IF p < Len(Row) THEN Row[p + 1] ELSE 0
         /\ \A k \in 1 .. Len(raw.frac) : Row[Len(raw.int) + k] = raw.frac[k]
<1> DEFINE i == raw.int
           f == raw.frac
<1>1. i \in Seq(Bytes) /\ f \in Seq(Bytes)
  BY DEF Plain, Literal
<1>2. Row = i \o f
  BY DEF Row
<1>3. \A p \in Nat : Digit(p + 1) = IF p + 1 <= Len(i) THEN i[p + 1]
                                    ELSE IF p + 1 - Len(i) <= Len(f) THEN f[p + 1 - Len(i)] ELSE 0
  BY DEF Digit
<1>4. \A p \in Nat : Digit(p + 1) \in Digits
  BY DigitLemma DEF Plain
<1> HIDE DEF i, f
<1>5. /\ Len(i) \in Nat /\ Len(f) \in Nat
      /\ Row \in Seq(Bytes) /\ Len(Row) = Len(i) + Len(f)
      /\ \A k \in 1 .. Len(Row) : Row[k] = IF k <= Len(i) THEN i[k] ELSE f[k - Len(i)]
  BY <1>1, <1>2
<1>6. ASSUME NEW p \in Nat PROVE Digit(p + 1) = IF p < Len(Row) THEN Row[p + 1] ELSE 0
  <2>1. CASE p < Len(Row)
    <3>1. p + 1 \in 1 .. Len(Row)
      BY <1>5, <2>1
    <3> QED BY <1>3, <1>5, <2>1, <3>1
  <2>2. CASE ~ (p < Len(Row))
    <3>1. ~ (p + 1 <= Len(i)) /\ ~ (p + 1 - Len(i) <= Len(f))
      BY <1>5, <2>2
    <3> QED BY <1>3, <2>2, <3>1
  <2> QED BY <2>1, <2>2
<1>7. Row \in Seq(Digits)
  <2>1. ASSUME NEW k \in 1 .. Len(Row) PROVE Row[k] \in Digits
    <3>1. k - 1 \in Nat /\ (k - 1) + 1 = k /\ k - 1 < Len(Row)
      BY <1>5
    <3> QED BY <1>4, <1>6, <3>1
  <2> QED BY <1>5, <2>1
<1>8. ASSUME NEW k \in 1 .. Len(f) PROVE Row[Len(i) + k] = f[k]
  <2>1. /\ Len(i) + k \in 1 .. Len(Row) /\ ~ (Len(i) + k <= Len(i))
        /\ Len(i) + k - Len(i) = k
    BY <1>5
  <2> QED BY <1>5, <2>1
<1> QED BY <1>5, <1>6, <1>7, <1>8 DEF i, f

(* One digit more: what Push computes.                                      *)
LEMMA ShiftedStep ==
  ASSUME Plain
  PROVE  /\ Shifted(0) = 0
         /\ \A p \in Nat : Shifted(p) \in Nat /\ Shifted(p + 1) = 10 * Shifted(p) + Digit(p + 1)
<1> DEFINE t == Len(Row)
           V == Values(Row)
<1>1. Row \in Seq(Digits) /\ t \in Nat
  BY RowLemma
<1>2. /\ V \in [0 .. t -> Nat] /\ V[0] = 0
      /\ \A k \in 0 .. t - 1 : V[k + 1] = 10 * V[k] + Row[k + 1]
  BY <1>1, ValuesDef
<1>3. \A p \in Nat : Digit(p + 1) = IF p < t THEN Row[p + 1] ELSE 0
  BY RowLemma
<1>4. \A p : Shifted(p) = IF p <= t THEN V[p] ELSE V[t] * Pow10[p - t]
  BY DEF Shifted
<1> HIDE DEF t, V
<1>5. Shifted(0) = 0
  BY <1>1, <1>2, <1>4
<1>6. ASSUME NEW p \in Nat
      PROVE  Shifted(p) \in Nat /\ Shifted(p + 1) = 10 * Shifted(p) + Digit(p + 1)
  <2>1. CASE p < t
    <3>1. p \in 0 .. t - 1 /\ p \in 0 .. t /\ p + 1 <= t /\ p <= t
      BY <1>1, <2>1
    <3> QED BY <1>2, <1>3, <1>4, <2>1, <3>1
  <2>2. CASE p >= t
    <3> DEFINE r == p - t
               u == Pow10[r]
    <3>1. r \in Nat /\ (p + 1) - t = r + 1 /\ ~ (p + 1 <= t) /\ ~ (p < t)
      BY <1>1, <2>2
    <3>2. V[t] \in Nat
      BY <1>1, <1>2
    <3>3. Pow10[r + 1] = 10 * u /\ u \in Nat
      <4> HIDE DEF r
      <4> QED BY <3>1, Pow10Def
    <3>4. Shifted(p + 1) = V[t] * Pow10[r + 1]
      BY <1>4, <3>1
    <3>5. Shifted(p) = V[t] * u
      <4>1. CASE p = t
        <5>1. r = 0 /\ p <= t
          BY <1>1, <4>1
        <5>2. u = 1
          <6> HIDE DEF r
          <6> QED BY <5>1, Pow10Def
        <5> HIDE DEF u
        <5> QED BY <1>4, <3>2, <4>1, <5>1, <5>2
      <4>2. CASE p # t
        BY <1>1, <1>4, <2>2, <4>2
      <4> QED BY <4>1, <4>2
    <3>6. V[t] * (10 * u) = 10 * (V[t] * u) /\ V[t] * u \in Nat
      <4> HIDE DEF u
      <4> QED BY <3>2, <3>3
    <3>7. Digit(p + 1) = 0
      BY <1>3, <3>1
    <3> HIDE DEF u, r
    <3> QED BY <3>3, <3>4, <3>5, <3>6, <3>7
  <2> QED BY <1>1, <2>1, <2>2
<1> QED BY <1>5, <1>6

(* Digits that are still to be pushed never make the number smaller.        *)
LEMMA ShiftedMonotone ==
  ASSUME Plain, NEW p \in Nat, NEW q \in Nat, p <= q
  PROVE  Shifted(p) <= Shifted(q)
<1> DEFINE S == {r \in Nat : Shifted(p) <= Shifted(p + r)}
<1>1. Shifted(p) \in Nat /\ p + 0 = p
  BY ShiftedStep
<1>2. 0 \in S
  <2>1. Shifted(p) <= Shifted(p)
    BY <1>1
  <2> QED BY <1>1, <2>1
<1>3. ASSUME NEW r \in Nat, r \in S PROVE r + 1 \in S
  <2> DEFINE k == p + r
  <2>1. k \in Nat /\ p + (r + 1) = k + 1 /\ Shifted(p) <= Shifted(k)
    BY <1>3
  <2> HIDE DEF k
  <2>2. Shifted(k) \in Nat /\ Shifted(k + 1) = 10 * Shifted(k) + Digit(k + 1)
    BY <2>1, ShiftedStep
  <2>3. Digit(k + 1) \in Nat
    BY <2>1, DigitLemma DEF Plain, Digits
  <2>4. Shifted(p) <= Shifted(k + 1)
    BY <1>1, <2>1, <2>2, <2>3
  <2> QED BY <2>1, <2>4
<1> HIDE DEF S
<1>4. Nat \subseteq S
  BY <1>2, <1>3, NatSetInduction
<1>5. q - p \in Nat /\ p + (q - p) = q
  OBVIOUS
<1> QED BY <1>4, <1>5 DEF S

(* What is pushed, rounded, is the nearest integer.                         *)
LEMMA NearestPushed ==
  ASSUME Plain, exp \in Nat
  PROVE  LET m == Shifted(Len(raw.int) + exp) + RoundUp
         IN  /\ m \in Nat
             /\ Nearest(raw, exp) = IF m <= I64_MAX THEN Signed(raw, m) ELSE None
<1> DEFINE i == Len(raw.int)
           n == Len(raw.frac)
           V == Values(Row)
           w == V[Len(Row)]
           ulp == Pow10[n]
           quotient == (2 * w * Pow10[exp] + ulp) \div (2 * ulp)
           k == i + exp
           m == Shifted(k) + RoundUp
<1>1. /\ i \in Nat /\ n \in Nat /\ Row \in Seq(Digits) /\ Len(Row) = i + n /\ k \in Nat
  <2>1. /\ i \in Nat /\ n \in Nat /\ Row \in Seq(Digits) /\ Len(Row) = i + n
    BY RowLemma
  <2> HIDE DEF i, n
  <2> QED BY <2>1
<1>2. V \in [0 .. Len(Row) -> Nat]
  BY <1>1, ValuesDef
<1>3. Nearest(raw, exp) = IF quotient \in 0 .. I64_MAX THEN Signed(raw, quotient) ELSE None
  BY DEF Nearest, ValueOf, Row, Plain
<1>4. Shifted(k) = IF k <= Len(Row) THEN V[k] ELSE w * Pow10[k - Len(Row)]
  BY DEF Shifted
<1>5. w \in Nat /\ Shifted(k) \in Nat
  <2> HIDE DEF V, i, n, k
  <2>1. Shifted(k) \in Nat
    BY <1>1, ShiftedStep
  <2>2. w \in Nat
    BY <1>1, <1>2
  <2> QED BY <2>1, <2>2
<1>6. /\ ulp \in Nat \ {0} /\ Pow10[exp] \in Nat \ {0}
  BY <1>1, Pow10Def
<1> SUFFICES m \in Nat /\ quotient = m
  BY <1>3, LiteralsAssumption
<1>7. RoundUp = IF n > exp /\ raw.frac[exp + 1] >= 5 THEN 1 ELSE 0
  BY DEF RoundUp
<1> HIDE DEF V, i, n
<1>8. m \in Nat
  BY <1>5, <1>7
<1>9. CASE exp >= n
  <2> DEFINE z == Pow10[exp - n]
             x == w * z
  <2>1. exp - n \in Nat /\ (exp - n) + n = exp
    BY <1>1, <1>9
  <2>2. Pow10[exp] = z * ulp /\ z \in Nat
    BY <1>1, <2>1, Pow10Sum, Pow10Def
  <2>3. Shifted(k) = x
    <3>1. CASE exp = n
      <4>1. k <= Len(Row) /\ k = Len(Row) /\ exp - n = 0
        BY <1>1, <3>1
      <4>2. z = 1
        BY <4>1, Pow10Def
      <4> HIDE DEF z, k
      <4> QED BY <1>4, <1>5, <4>1, <4>2
    <3>2. CASE exp # n
      <4>1. ~ (k <= Len(Row)) /\ k - Len(Row) = exp - n
        BY <1>1, <1>9, <3>2
      <4> HIDE DEF k
      <4> QED BY <1>4, <4>1
    <3> QED BY <3>1, <3>2
  <2>4. RoundUp = 0
    BY <1>1, <1>7, <1>9
  <2> HIDE DEF z, ulp, k
  <2>5. x \in Nat /\ 2 * w * Pow10[exp] = (2 * ulp) * x
    BY <1>5, <1>6, <2>2
  <2> HIDE DEF x
  <2> DEFINE b == 2 * ulp
  <2>6. b \in Nat \ {0} /\ b * x + ulp \in Nat
    BY <1>6, <2>5
  <2>7. b * x <= b * x + ulp /\ b * x + ulp < b * (x + 1)
    BY <1>6, <2>5
  <2>8. (b * x + ulp) \div b = x
    <3> HIDE DEF b
    <3> QED BY <2>5, <2>6, <2>7, DivLemma
  <2> QED BY <1>5, <2>3, <2>4, <2>5, <2>8
<1>10. CASE exp < n
  <2> DEFINE r == n - exp - 1
             s == Row[k + 1]
             q == Pow10[r]
             p == Pow10[exp]
  <2>1. /\ r \in Nat /\ exp + (r + 1) = n /\ k \in 0 .. Len(Row) - 1
        /\ k + 1 \in 0 .. Len(Row) /\ (k + 1) + r = Len(Row) /\ k <= Len(Row)
        /\ k + 1 \in 1 .. Len(Row) /\ k + 1 > i /\ k + 1 - i = exp + 1
    BY <1>1, <1>10
  <2>2. V[k + 1] = 10 * V[k] + s /\ V[k] \in Nat
    <3>1. \A j \in 0 .. Len(Row) - 1 : V[j + 1] = 10 * V[j] + Row[j + 1]
      BY <1>1, ValuesDef DEF V
    <3> HIDE DEF k
    <3> QED BY <1>1, <1>2, <2>1, <3>1
  <2>3. s \in Digits
    BY <1>1, <2>1
  <2>4. s = raw.frac[exp + 1]
    <3>1. exp + 1 \in 1 .. n /\ k + 1 = i + (exp + 1)
      BY <1>1, <1>10
    <3>2. Row[i + (exp + 1)] = raw.frac[exp + 1]
      BY <3>1, RowLemma DEF i, n
    <3> QED BY <3>1, <3>2
  <2>5. V[k + 1] * q <= w /\ w < (V[k + 1] + 1) * q
    BY <1>1, <2>1, ValueBounds DEF V
  <2>6. /\ q \in Nat \ {0} /\ p \in Nat \ {0} /\ ulp = p * (10 * q)
    <3>1. Pow10[r + 1] = 10 * q /\ q \in Nat \ {0} /\ p \in Nat \ {0}
      <4> HIDE DEF r
      <4> QED BY <2>1, Pow10Def
    <3>2. r + 1 \in Nat
      BY <2>1
    <3>3. Pow10[exp + (r + 1)] = p * Pow10[r + 1]
      <4> HIDE DEF r
      <4> QED BY <3>2, Pow10Sum
    <3> QED BY <2>1, <3>1, <3>3
  <2>7. Shifted(k) = V[k]
    BY <1>4, <2>1
  <2>8. RoundUp = IF s >= 5 THEN 1 ELSE 0
    BY <1>7, <1>10, <2>4
  <2> DEFINE y == V[k]
  <2> HIDE DEF r, s, q, p, ulp, k, w, y
  <2>9. Halved(w, p, q) = y + Up(s)
    <3>1. y \in Nat /\ w \in Nat
      BY <1>5, <2>2 DEF y
    <3>2. Truncates(10 * y + s, q, w)
      BY <2>2, <2>5 DEF Truncates, y
    <3> QED BY <2>3, <2>6, <3>1, <3>2, RoundLemma
  <2>10. m = y + Up(s)
    BY <2>7, <2>8 DEF y, Up
  <2>11. quotient = Halved(w, p, q)
    BY <2>6 DEF p, Halved
  <2> HIDE DEF quotient, m
  <2> QED BY <1>8, <2>9, <2>10, <2>11
<1> QED BY <1>1, <1>8, <1>9, <1>10

-----------------------------------------------------------------------------
(* The theorems *)

(* The inductive invariant: the magnitude is what the pushed digits stand    *)
(* for.                                                                     *)
DecimalInv ==
  /\ TypeOK
  /\ pc = "check" => pos = 0 /\ magnitude = 0
  /\ pc # "done" => result = None
  /\ pc = "push" => IsPlain(raw) /\ magnitude = Shifted(pos)
  /\ Exact

(* A step that pushes a digit, or finds that it cannot.                      *)
LEMMA PushStep ==
  ASSUME DecimalInv, Pushing
  PROVE  /\ Plain /\ exp \in Nat /\ pos \in Nat /\ Digit(pos + 1) \in 0 .. 9
         /\ magnitude = Shifted(pos)
         /\ Shifted(pos + 1) = 10 * magnitude + Digit(pos + 1)
         /\ pos + 1 <= Len(raw.int) + exp /\ Len(raw.int) \in Nat
<1>1. Plain /\ exp \in Nat /\ magnitude = Shifted(pos)
  BY DecimalAssumption DEF DecimalInv, TypeOK, Pushing, Plain
<1>2. Len(raw.int) \in Nat
  BY <1>1, RowLemma
<1>3. pos \in Nat /\ pos + 1 <= Len(raw.int) + exp
  BY <1>1, <1>2 DEF DecimalInv, TypeOK, Pushing
<1>4. Digit(pos + 1) \in 0 .. 9
  BY <1>1, <1>3, DigitLemma DEF Plain, Digits
<1>5. Shifted(pos + 1) = 10 * Shifted(pos) + Digit(pos + 1)
  BY <1>1, <1>3, ShiftedStep
<1> QED BY <1>1, <1>2, <1>3, <1>4, <1>5

(* A pushed digit keeps magnitude the number of the pushed digits.          *)
LEMMA PushInv == DecimalInv /\ Push => DecimalInv'
<1> SUFFICES ASSUME DecimalInv, Push PROVE DecimalInv'
  OBVIOUS
<1>1. /\ Plain /\ pos \in Nat /\ Digit(pos + 1) \in 0 .. 9
      /\ Shifted(pos + 1) = 10 * magnitude + Digit(pos + 1)
      /\ pos + 1 <= Len(raw.int) + exp
  BY PushStep DEF Push
<1>2. /\ pc = "push" /\ UNCHANGED <<raw, exp, pc, result>> /\ pos' = pos + 1
      /\ magnitude' = Shifted(pos + 1) /\ magnitude' <= I64_MAX
  BY <1>1 DEF Push, Pushing
<1>3. Shifted(pos)' = Shifted(pos + 1) /\ IsPlain(raw)'
  <2>1. Shifted(pos)' = Shifted(pos + 1)
    BY <1>2 DEF Shifted, Row
  <2> QED BY <1>1, <1>2, <2>1 DEF Plain
<1>4. magnitude' \in Nat
  BY <1>1, <1>2, ShiftedStep
<1>5. TypeOK'
  BY <1>1, <1>2, <1>4, LiteralsAssumption DEF DecimalInv, TypeOK
<1> QED BY <1>2, <1>3, <1>5 DEF DecimalInv, Exact

(* The rest of the digits would only have made the number larger.            *)
LEMMA OverflowInv == DecimalInv /\ Overflow => DecimalInv'
<1> SUFFICES ASSUME DecimalInv, Overflow PROVE DecimalInv'
  OBVIOUS
<1> DEFINE k == Len(raw.int) + exp
           m == Shifted(k) + RoundUp
<1>1. /\ Plain /\ exp \in Nat /\ pos \in Nat /\ k \in Nat /\ pos + 1 <= k
      /\ Shifted(pos + 1) = 10 * magnitude + Digit(pos + 1)
  BY PushStep DEF Overflow
<1>2. /\ pc' = "done" /\ UNCHANGED <<raw, exp, pos, magnitude, result>>
      /\ result = None /\ Shifted(pos + 1) > I64_MAX
  BY <1>1 DEF Overflow, Pushing, DecimalInv
<1>3. Shifted(pos + 1) <= Shifted(k)
  <2> HIDE DEF k
  <2> QED BY <1>1, ShiftedMonotone
<1>4. Shifted(pos + 1) \in Nat /\ Shifted(k) \in Nat /\ RoundUp \in Nat
  <2> HIDE DEF k
  <2>1. Shifted(pos + 1) \in Nat /\ Shifted(k) \in Nat
    BY <1>1, ShiftedStep
  <2> QED BY <2>1 DEF RoundUp
<1>5. Nearest(raw, exp) = IF m <= I64_MAX THEN Signed(raw, m) ELSE None
  BY <1>1, NearestPushed
<1>6. m > I64_MAX
  <2> HIDE DEF k
  <2> QED BY <1>2, <1>3, <1>4, LiteralsAssumption
<1>7. Nearest(raw, exp) = None
  <2> HIDE DEF m
  <2> QED BY <1>1, <1>4, <1>5, <1>6, LiteralsAssumption, NearestPushed DEF m
<1>8. Exact'
  BY <1>2, <1>7 DEF Exact
<1> QED BY <1>2, <1>8 DEF DecimalInv, TypeOK

(* Rounding what was pushed gives the nearest integer.                      *)
LEMMA RoundInv == DecimalInv /\ Round => DecimalInv'
<1> SUFFICES ASSUME DecimalInv, Round PROVE DecimalInv'
  OBVIOUS
<1>1. /\ pc = "push" /\ ~ (pos < Len(raw.int) + exp)
      /\ pc' = "done" /\ UNCHANGED <<raw, exp, pos, magnitude>>
      /\ result' = IF magnitude + RoundUp <= I64_MAX
                   THEN Signed(raw, magnitude + RoundUp) ELSE None
  BY DEF Round, Pushing
<1>2. Plain /\ exp \in Nat /\ magnitude = Shifted(pos)
  BY <1>1, DecimalAssumption DEF DecimalInv, TypeOK, Plain
<1>3. Len(raw.int) \in Nat
  BY <1>2, RowLemma
<1>4. pos = Len(raw.int) + exp
  BY <1>1, <1>2, <1>3 DEF DecimalInv, TypeOK
<1>5. result' = Nearest(raw, exp)
  BY <1>1, <1>2, <1>4, NearestPushed
<1>6. Exact'
  BY <1>1, <1>5 DEF Exact
<1>7. RoundUp \in {0, 1} /\ magnitude \in Nat
  BY DEF RoundUp, DecimalInv, TypeOK
<1>8. result' \in (-I64_MAX .. I64_MAX) \cup {None}
  BY <1>1, <1>7, LiteralsAssumption DEF Signed
<1> QED BY <1>1, <1>6, <1>8 DEF DecimalInv, TypeOK

(* A literal that is no plain number is refused, as Nearest has it.         *)
LEMMA CheckInv == DecimalInv /\ (Reject \/ Accept \/ UNCHANGED vars) => DecimalInv'
<1> SUFFICES ASSUME DecimalInv, Reject \/ Accept \/ UNCHANGED vars PROVE DecimalInv'
  OBVIOUS
<1>1. CASE Reject
  <2>1. Nearest(raw, exp) = None
    BY <1>1 DEF Reject, Nearest
  <2> QED BY <1>1, <2>1 DEF Reject, DecimalInv, TypeOK, Exact
<1>2. CASE Accept
  <2>1. Plain
    BY <1>2, DecimalAssumption DEF Accept, DecimalInv, TypeOK, Plain
  <2>2. Shifted(0) = 0
    BY <2>1, ShiftedStep
  <2>3. Shifted(pos)' = 0
    BY <1>2, <2>2 DEF Accept, DecimalInv, Shifted, Row
  <2> QED BY <1>2, <2>3 DEF Accept, DecimalInv, TypeOK, Exact
<1>3. CASE UNCHANGED vars
  BY <1>3 DEF vars, DecimalInv, TypeOK, Exact, Shifted, Row
<1> QED BY <1>1, <1>2, <1>3

(* The invariant, of which the two theorems are parts.                       *)
LEMMA DecimalInvCorrect == Spec => []DecimalInv
<1>1. Init => DecimalInv
  <2> SUFFICES ASSUME Init PROVE DecimalInv
    OBVIOUS
  <2>1. raw.int \in Seq(Bytes) /\ exp \in Nat
    BY DecimalAssumption DEF Init, Literal
  <2>2. Len(raw.int) \in Nat
    BY <2>1
  <2> QED BY <2>1, <2>2, LiteralsAssumption DEF Init, DecimalInv, TypeOK, Exact
<1>2. DecimalInv /\ [Next]_vars => DecimalInv'
  BY CheckInv, PushInv, OverflowInv, RoundInv DEF Next
<1> QED BY <1>1, <1>2, PTL DEF Spec

(* i64 overflow is refused, not wrapped: neither an intermediate magnitude   *)
(* nor the result leaves the range, and no result is i64::MIN.              *)
THEOREM DecimalTypeCorrect == Spec => []TypeOK
<1>1. DecimalInv => TypeOK
  BY DEF DecimalInv
<1> QED BY <1>1, DecimalInvCorrect, PTL

(* scale_decimal's shift by string arithmetic returns the nearest integer,   *)
(* halves away from zero, for a literal of any length and any exponent, and  *)
(* None exactly when that integer does not fit.                             *)
THEOREM DecimalExact == Spec => []Exact
<1>1. DecimalInv => Exact
  BY DEF DecimalInv
<1> QED BY <1>1, DecimalInvCorrect, PTL
=============================================================================

------------------------------ MODULE EqualShares ------------------------------
(***************************************************************************)
(* Arithmetic the proofs share: a row of n * p elements cut into n shares  *)
(* of p elements, a share cut into chunks, and powers of two.              *)
(***************************************************************************)
EXTENDS Integers, FiniteSetTheorems, TLAPS

\* Quotient and remainder.
LEMMA DivMod ==
  ASSUME NEW n \in Nat \ {0}, NEW y \in Nat
  PROVE  /\ y \div n \in Int /\ y % n \in 0..(n - 1)
         /\ y = n * (y \div n) + (y % n)
OBVIOUS

\* Quotient and remainder of natural numbers.
LEMMA NatQuotients ==
  ASSUME NEW n \in Nat \ {0}, NEW x \in Nat
  PROVE  x \div n \in Nat /\ x % n \in 0..(n - 1) /\ x = n * (x \div n) + (x % n)
<1> DEFINE q == x \div n
           r == x % n
<1>1. q \in Int /\ r \in 0..(n - 1) /\ x = n * q + r
  BY DivMod
<1> HIDE DEF q, r
<1>2. q \in Nat
  <2>1. SUFFICES ASSUME q <= -1 PROVE FALSE
    BY <1>1
  <2>2. n * q <= -n
    BY <1>1, <2>1
  <2>3. QED BY <1>1, <2>2
<1>3. QED BY <1>1, <1>2 DEF q, r

\* A product divided by one of its factors is the other.
LEMMA ExactDiv ==
  ASSUME NEW n \in Nat \ {0}, NEW x \in Nat
  PROVE  (n * x) \div n = x
<1> DEFINE y == n * x
           q == y \div n
           r == y % n
<1>1. y \in Nat
  OBVIOUS
<1> HIDE DEF y
<1>2. q \in Int /\ r \in 0..(n - 1) /\ y = n * q + r
  BY <1>1, DivMod
<1> HIDE DEF q, r
<1>3. n * (x - q) = n * x - n * q
  BY <1>2
<1>4. n * (x - q) \in 0..(n - 1)
  BY <1>2, <1>3 DEF y
<1>5. CASE x - q >= 1
  <2>1. n * (x - q) >= n
    BY <1>2, <1>5
  <2>2. QED BY <2>1, <1>4
<1>6. CASE x - q <= -1
  <2>1. n * (x - q) <= -n
    BY <1>2, <1>6
  <2>2. QED BY <2>1, <1>4
<1>7. CASE x - q = 0
  <2>1. q = x
    BY <1>2, <1>7
  <2>2. QED BY <2>1 DEF q, y
<1>8. QED BY <1>2, <1>5, <1>6, <1>7

\* A multiple leaves no remainder.
LEMMA ExactMod ==
  ASSUME NEW n \in Nat \ {0}, NEW x \in Nat
  PROVE  (n * x) % n = 0
<1> DEFINE y == n * x
           r == y % n
<1>1. y \in Nat /\ y \div n = x
  BY ExactDiv
<1> HIDE DEF y
<1>2. y = n * x + r /\ r \in 0..(n - 1)
  BY <1>1, DivMod
<1> HIDE DEF r
<1>3. r = 0
  BY <1>2 DEF y
<1>4. QED BY <1>3 DEF r, y

\* What remains behind the multiples.
LEMMA BlockStart ==
  ASSUME NEW s \in Nat \ {0}, NEW m \in Nat, NEW r \in 0..(s - 1)
  PROVE  (m * s + r) % s = r
<1> DEFINE y == m * s + r
           q == y \div s
           u == y % s
<1>1. y \in Nat
  OBVIOUS
<1> HIDE DEF y
<1>2. q \in Int /\ u \in 0..(s - 1) /\ y = s * q + u
  BY <1>1, DivMod
<1> HIDE DEF q, u
<1>3. s * (q - m) = r - u
  <2>1. s * (q - m) = s * q - m * s
    BY <1>2
  <2>2. QED BY <1>2, <2>1 DEF y
<1>4. CASE q - m >= 1
  <2>1. s * (q - m) >= s
    BY <1>2, <1>4
  <2>2. QED BY <1>2, <1>3, <2>1
<1>5. CASE q - m <= -1
  <2>1. s * (q - m) <= -s
    BY <1>2, <1>5
  <2>2. QED BY <1>2, <1>3, <2>1
<1>6. CASE q - m = 0
  <2>1. s * (q - m) = 0
    BY <1>2, <1>6
  <2>2. u = r
    BY <1>2, <1>3, <2>1
  <2>3. QED BY <2>2 DEF u, y
<1>7. QED BY <1>2, <1>4, <1>5, <1>6

\* Equal shares of different tasklets follow each other.
LEMMA SharesApart ==
  ASSUME NEW t \in Nat, NEW u \in Nat, NEW p \in Nat, t < u
  PROVE  t * p + p <= u * p
<1>1. (u - t - 1) * p >= 0
  BY u - t - 1 \in Nat
<1>2. (u - t - 1) * p = u * p - (t * p + p)
  OBVIOUS
<1>3. QED BY <1>1, <1>2

\* Every element belongs to somebody's share.
LEMMA SharesCover ==
  ASSUME NEW n \in Nat, NEW p \in Nat \ {0}, NEW k \in Nat, k < n * p
  PROVE  \E t \in 0..(n - 1) : t * p <= k /\ k < t * p + p
<1> DEFINE t == k \div p
<1>1. t \in Nat /\ k = p * t + (k % p) /\ k % p \in 0..(p - 1)
  OBVIOUS
<1> HIDE DEF t
<1>2. t * p <= k /\ k < t * p + p
  BY <1>1
<1>3. t < n
  <2>1. SUFFICES ASSUME n <= t PROVE FALSE
    BY <1>1
  <2>2. (t - n) * p >= 0
    BY <1>1, <2>1, t - n \in Nat
  <2>3. t * p >= n * p
    BY <1>1, <2>2
  <2>4. QED BY <1>1, <1>2, <2>3
<1>4. t \in 0..(n - 1)
  BY <1>1, <1>3
<1>5. QED BY <1>2, <1>4

\* A chunk that begins inside a share of whole chunks ends inside it.
LEMMA ChunkFits ==
  ASSUME NEW a \in Nat, NEW b \in Nat, NEW c \in Nat, a * c < b * c
  PROVE  a * c + c <= b * c
<1>1. CASE a < b
  BY <1>1, SharesApart
<1>2. CASE b <= a
  <2>1. (a - b) * c >= 0
    BY <1>2, a - b \in Nat
  <2>2. QED BY <2>1
<1>3. QED BY <1>1, <1>2

\* Element j of share m is in share m and nowhere else.
LEMMA PlaceInShare ==
  ASSUME NEW n \in Nat \ {0}, NEW m \in Nat, NEW j \in 0..(n - 1)
  PROVE  (n * m + j) \div n = m /\ (n * m + j) % n = j
<1> DEFINE y == n * m + j
           q == y \div n
           r == y % n
<1>1. y \in Nat
  OBVIOUS
<1> HIDE DEF y
<1>2. q \in Int /\ r \in 0..(n - 1) /\ y = n * q + r
  BY <1>1, DivMod
<1> HIDE DEF q, r
<1>3. n * (q - m) = j - r
  <2>1. n * (q - m) = n * q - n * m
    BY <1>2
  <2>2. QED BY <1>2, <2>1 DEF y
<1>4. CASE q - m >= 1
  <2>1. n * (q - m) >= n
    BY <1>2, <1>4
  <2>2. QED BY <1>2, <1>3, <2>1
<1>5. CASE q - m <= -1
  <2>1. n * (q - m) <= -n
    BY <1>2, <1>5
  <2>2. QED BY <1>2, <1>3, <2>1
<1>6. CASE q - m = 0
  <2>1. n * (q - m) = 0 /\ q = m
    BY <1>2, <1>6
  <2>2. r = j
    BY <1>2, <1>3, <2>1
  <2>3. QED BY <2>1, <2>2 DEF q, r, y
<1>7. QED BY <1>2, <1>4, <1>5, <1>6

\* Every element of a row of n * m is in one of the m shares and at one place there.
LEMMA ShareOf ==
  ASSUME NEW n \in Nat \ {0}, NEW m \in Nat, NEW y \in 0..(n * m - 1)
  PROVE  /\ y \div n \in 0..(m - 1) /\ y % n \in 0..(n - 1)
         /\ y = n * (y \div n) + (y % n)
<1> DEFINE q == y \div n
           r == y % n
<1>1. q \in Int /\ r \in 0..(n - 1) /\ y = n * q + r /\ y \in Nat
  BY DivMod
<1> HIDE DEF q, r
<1>2. CASE q <= -1
  <2>1. n * (-1 - q) >= 0 /\ n * (-1 - q) = 0 - n - n * q
    BY <1>1, <1>2
  <2>2. QED BY <1>1, <2>1
<1>3. CASE q >= m
  <2>1. n * (q - m) >= 0 /\ n * (q - m) = n * q - n * m
    BY <1>1, <1>3
  <2>2. QED BY <1>1, <2>1
<1>4. q \in 0..(m - 1)
  BY <1>1, <1>2, <1>3
<1>5. QED BY <1>1, <1>4 DEF q, r

\* A set of numbers that is not empty has a least one.
LEMMA Least ==
  ASSUME NEW S \in SUBSET Nat, S # {}
  PROVE  \E x \in S : \A y \in S : x <= y
<1>1. PICK x \in S : \A y \in S : ~(<<y, x>> \in OpToRel(<, Nat))
  BY WFMin, NatLessThanWellFounded
<1>2. \A y \in S : ~(y < x)
  BY <1>1 DEF OpToRel
<1>3. QED BY <1>2

(***************************************************************************)
(* Powers of two, of which the provers know no more than that they count   *)
(* the subsets of a set.                                                   *)
(***************************************************************************)
LEMMA PowerPositive ==
  ASSUME NEW n \in Nat
  PROVE  2^n \in Nat \ {0}
<1>1. IsFiniteSet(1..n) /\ Cardinality(1..n) = n
  BY FS_Interval
<1>2. IsFiniteSet(SUBSET (1..n)) /\ Cardinality(SUBSET (1..n)) = 2^n
  BY <1>1, FS_SUBSET
<1>3. SUBSET (1..n) # {}
  OBVIOUS
<1>4. QED BY <1>2, <1>3, FS_CardinalityType, FS_EmptySet

\* The zeroth power of two.
LEMMA PowerZero ==
  ASSUME NEW n \in Nat, n = 0
  PROVE  2^n = 1
<1>1. 2^0 = 1
  OBVIOUS
<1>2. QED BY <1>1, Zenon

\* A subset of 1..(n + 1) is one of 1..n, with n + 1 or without it.
LEMMA PowerDoubles ==
  ASSUME NEW n \in Nat
  PROVE  2^(n + 1) = 2 * 2^n
<1> DEFINE S == SUBSET (1..n)
           T == SUBSET (1..(n + 1))
           f == [x \in S \X {0, 1} |-> IF x[2] = 0 THEN x[1] ELSE x[1] \cup {n + 1}]
<1>1. /\ IsFiniteSet(S) /\ Cardinality(S) = 2^n
      /\ IsFiniteSet(T) /\ Cardinality(T) = 2^(n + 1)
  <2>1. IsFiniteSet(1..n) /\ Cardinality(1..n) = n
    BY FS_Interval
  <2>2. IsFiniteSet(1..(n + 1)) /\ Cardinality(1..(n + 1)) = n + 1
    BY FS_Interval
  <2>3. QED BY <2>1, <2>2, FS_SUBSET
<1>2. IsFiniteSet({0, 1}) /\ Cardinality({0, 1}) = 2
  <2>1. IsFiniteSet({0}) /\ Cardinality({0}) = 1
    BY FS_Singleton
  <2>2. {0, 1} = {0} \cup {1} /\ 1 \notin {0}
    OBVIOUS
  <2>3. QED BY <2>1, <2>2, FS_AddElement
<1>3. IsFiniteSet(S \X {0, 1}) /\ Cardinality(S \X {0, 1}) = Cardinality(S) * 2
  BY <1>1, <1>2, FS_Product
<1>4. f \in Bijection(S \X {0, 1}, T)
  <2>1. f \in [S \X {0, 1} -> T]
    OBVIOUS
  <2>2. ASSUME NEW x \in S \X {0, 1}, NEW y \in S \X {0, 1}, f[x] = f[y]
        PROVE  x = y
    <3>1. n + 1 \notin x[1] /\ n + 1 \notin y[1]
      OBVIOUS
    <3>2. x[2] = y[2] /\ x[1] = y[1]
      BY <2>2, <3>1
    <3>3. QED BY <3>2
  <2>0. \A a \in S : f[<<a, 0>>] = a /\ f[<<a, 1>>] = a \cup {n + 1}
    <3> DEFINE add(a) == a \cup {n + 1}
    <3>1. f = [x \in S \X {0, 1} |-> IF x[2] = 0 THEN x[1] ELSE add(x[1])]
      OBVIOUS
    <3> HIDE DEF add, f, S
    <3>2. \A a \in S : f[<<a, 0>>] = a /\ f[<<a, 1>>] = add(a)
      BY <3>1
    <3>3. QED BY <3>2 DEF add
  <2>3. ASSUME NEW z \in T PROVE \E x \in S \X {0, 1} : f[x] = z
    <3>1. CASE n + 1 \in z
      <4> DEFINE w == z \ {n + 1}
      <4>1. w \in S /\ w \cup {n + 1} = z
        BY <3>1
      <4> HIDE DEF w
      <4>2. f[<<w, 1>>] = w \cup {n + 1}
        BY <2>0, <4>1
      <4>3. QED BY <4>1, <4>2
    <3>2. CASE n + 1 \notin z
      <4>1. z \in S
        BY <3>2
      <4>2. f[<<z, 0>>] = z
        BY <2>0, <4>1
      <4>3. QED BY <4>1, <4>2
    <3>3. QED BY <3>1, <3>2
  <2> HIDE DEF f, S, T
  <2>4. QED BY <2>1, <2>2, <2>3 DEF Bijection, Injection, IsInjective, Surjection
<1>5. ExistsBijection(S \X {0, 1}, T)
  BY <1>4 DEF ExistsBijection
<1>6. Cardinality(T) = Cardinality(S \X {0, 1})
  BY <1>3, <1>5, FS_Bijection
<1>7. QED BY <1>1, <1>3, <1>6, PowerPositive

\* What holds of 0 and goes from a number to the next one holds of all.
LEMMA StepByStep ==
  ASSUME NEW S \in SUBSET Nat, 0 \in S, \A n \in S : n + 1 \in S
  PROVE  S = Nat
<1>1. SUFFICES ASSUME Nat \ S # {} PROVE FALSE
  OBVIOUS
<1>2. PICK x \in Nat \ S : \A y \in Nat \ S : x <= y
  BY <1>1, Least
<1>3. x # 0 /\ x - 1 \in Nat /\ ~(x <= x - 1)
  BY <1>2
<1>4. x - 1 \in S
  BY <1>2, <1>3
<1>5. (x - 1) + 1 \in S /\ (x - 1) + 1 = x
  BY <1>2, <1>4
<1>6. QED BY <1>2, <1>5

\* A function on the numbers can be defined by its first value and the step to the next one.
LEMMA Iteration ==
  ASSUME NEW S, NEW base \in S, NEW step \in [Nat -> [S -> S]]
  PROVE  \E f \in [Nat -> S] : f[0] = base /\ \A d \in Nat : f[d + 1] = step[d][f[d]]
<1> DEFINE Begins(n, g) ==
             /\ g \in [0..n -> S] /\ g[0] = base
             /\ \A d \in 1..n : g[d] = step[d - 1][g[d - 1]]
           Done == {n \in Nat : \E g : Begins(n, g)}
<1>1. 0 \in Done
  <2>1. Begins(0, [d \in 0..0 |-> base])
    OBVIOUS
  <2>2. QED BY <2>1
<1>2. ASSUME NEW n \in Done PROVE n + 1 \in Done
  <2>1. PICK g : Begins(n, g)
    BY <1>2
  <2> DEFINE h == [d \in 0..(n + 1) |-> IF d = n + 1 THEN step[n][g[n]] ELSE g[d]]
  <2>2. n \in Nat /\ g[n] \in S /\ step[n][g[n]] \in S
    BY <2>1
  <2>3. h \in [0..(n + 1) -> S] /\ h[0] = base
    BY <2>1, <2>2
  <2>4. ASSUME NEW d \in 1..(n + 1) PROVE h[d] = step[d - 1][h[d - 1]]
    <3>1. CASE d = n + 1
      <4>1. d - 1 = n /\ n \in 0..(n + 1) /\ n # n + 1
        BY <2>2, <3>1
      <4>2. h[d - 1] = g[n] /\ h[d] = step[n][g[n]]
        BY <3>1, <4>1
      <4>3. QED BY <4>1, <4>2
    <3>2. CASE d # n + 1
      <4>1. d \in 1..n /\ d - 1 \in 0..n /\ d - 1 # n + 1
        BY <2>2, <3>2
      <4>2. QED BY <2>1, <2>2, <4>1
    <3>3. QED BY <3>1, <3>2
  <2>5. Begins(n + 1, h)
    BY <2>3, <2>4
  <2> HIDE DEF Begins, h
  <2>6. n + 1 \in Nat /\ \E x : Begins(n + 1, x)
    BY <2>2, <2>5
  <2>7. QED BY <2>6
<1>3. Done = Nat
  BY <1>1, <1>2, StepByStep
<1> DEFINE G(n) == CHOOSE g : Begins(n, g)
<1>4. \A n \in Nat : Begins(n, G(n))
  BY <1>3
<1>5. ASSUME NEW n \in Nat PROVE \A d \in 0..n : G(n + 1)[d] = G(n)[d]
  <2> DEFINE Same == {d \in Nat : d <= n => G(n + 1)[d] = G(n)[d]}
  <2> HIDE DEF G
  <2>1. Begins(n, G(n)) /\ Begins(n + 1, G(n + 1))
    <3> HIDE DEF Begins
    <3>1. n \in Nat /\ n + 1 \in Nat
      OBVIOUS
    <3>2. QED BY <1>4, <3>1
  <2>2. 0 \in Same
    BY <2>1
  <2>3. ASSUME NEW d \in Same PROVE d + 1 \in Same
    <3>1. CASE d + 1 <= n
      <4>1. d + 1 \in 1..n /\ d + 1 \in 1..(n + 1) /\ (d + 1) - 1 = d /\ d <= n
        BY <3>1
      <4>2. G(n + 1)[d] = G(n)[d]
        BY <2>3, <4>1
      <4>3. G(n)[d + 1] = step[d][G(n)[d]] /\ G(n + 1)[d + 1] = step[d][G(n + 1)[d]]
        BY <2>1, <4>1
      <4>4. QED BY <4>2, <4>3
    <3>2. CASE ~(d + 1 <= n)
      BY <3>2
    <3>3. QED BY <3>1, <3>2
  <2>4. Same = Nat
    <3> HIDE DEF Same
    <3>1. Same \in SUBSET Nat
      BY DEF Same
    <3>2. QED BY <2>2, <2>3, <3>1, StepByStep
  <2>5. QED BY <2>4
<1> DEFINE f == [n \in Nat |-> G(n)[n]]
<1>6. f \in [Nat -> S] /\ f[0] = base
  <2> HIDE DEF G
  <2>1. QED BY <1>4
<1>7. ASSUME NEW n \in Nat PROVE f[n + 1] = step[n][f[n]]
  <2>1. n + 1 \in Nat /\ n + 1 \in 1..(n + 1) /\ (n + 1) - 1 = n /\ n \in 0..n
    OBVIOUS
  <2> HIDE DEF G
  <2>2. G(n + 1)[n] = G(n)[n]
    BY <1>5, <2>1
  <2>3. G(n + 1)[n + 1] = step[n][G(n + 1)[n]]
    BY <1>4, <2>1
  <2>4. QED BY <2>1, <2>2, <2>3
<1> HIDE DEF f
<1>8. QED BY <1>6, <1>7

\* The powers of two multiply by the sum of their exponents.
LEMMA PowerSum ==
  ASSUME NEW a \in Nat, NEW b \in Nat
  PROVE  2^(a + b) = 2^a * 2^b
<1> DEFINE S == {x \in Nat : 2^(a + x) = 2^a * 2^x}
<1>1. 0 \in S
  <2>1. 2^0 = 1 /\ a + 0 = a /\ 2^a \in Nat
    BY PowerZero, PowerPositive
  <2>2. QED BY <2>1
<1>2. ASSUME NEW x \in S PROVE x + 1 \in S
  <2>1. 2^(x + 1) = 2 * 2^x /\ 2^((a + x) + 1) = 2 * 2^(a + x)
    BY PowerDoubles
  <2>2. 2^(a + x) = 2^a * 2^x /\ 2^a \in Nat /\ 2^x \in Nat /\ (a + x) + 1 = a + (x + 1)
    BY PowerPositive
  <2> DEFINE u == 2^a
             v == 2^x
  <2>3. 2 * (u * v) = u * (2 * v)
    <3>1. u \in Nat /\ v \in Nat
      BY <2>2
    <3> HIDE DEF u, v
    <3>2. QED BY <3>1
  <2>4. 2^(a + (x + 1)) = 2^a * 2^(x + 1)
    BY <2>1, <2>2, <2>3
  <2>5. QED BY <2>4
<1>3. S = Nat
  <2> HIDE DEF S
  <2>1. S \in SUBSET Nat
    BY DEF S
  <2>2. QED BY <1>1, <1>2, <2>1, StepByStep
<1>4. QED BY <1>3

Powers == {2^e : e \in Nat}

\* One and two are powers of two, and so is the double of one.
LEMMA PowersAre ==
  /\ 1 \in Powers /\ 2 \in Powers
  /\ \A x \in Powers : x \in Nat \ {0} /\ 2 * x \in Powers
<1>1. 1 \in Powers
  BY PowerZero DEF Powers
<1>2. ASSUME NEW x \in Powers PROVE x \in Nat \ {0} /\ 2 * x \in Powers
  <2>1. PICK e \in Nat : x = 2^e
    BY DEF Powers
  <2>2. 2^(e + 1) = 2 * 2^e /\ e + 1 \in Nat /\ 2^e \in Nat \ {0}
    BY PowerDoubles, PowerPositive
  <2>3. QED BY <2>1, <2>2 DEF Powers
<1>3. 2 * 1 \in Powers /\ 2 * 1 = 2
  BY <1>1, <1>2
<1>4. QED BY <1>1, <1>2, <1>3

\* The smaller of two powers of two divides the other.
LEMMA PowersDivide ==
  ASSUME NEW x \in Powers, NEW y \in Powers, y <= x
  PROVE  x \div y \in Powers /\ x = y * (x \div y)
<1>1. PICK a \in Nat : x = 2^a
  BY DEF Powers
<1>2. PICK b \in Nat : y = 2^b
  BY DEF Powers
<1>3. CASE b <= a
  <2>1. a - b \in Nat /\ b + (a - b) = a
    BY <1>3
  <2>2. 2^a = 2^b * 2^(a - b)
    BY <2>1, PowerSum
  <2>3. 2^(a - b) \in Powers
    BY <2>1 DEF Powers
  <2> DEFINE z == 2^(a - b)
  <2> HIDE DEF z
  <2>4. x = y * z /\ z \in Powers /\ z \in Nat /\ y \in Nat \ {0}
    BY <1>1, <1>2, <2>2, <2>3, PowersAre DEF z
  <2>5. (y * z) \div y = z
    BY <2>4, ExactDiv
  <2>6. QED BY <2>4, <2>5
<1>4. CASE a < b
  <2>1. a + 1 \in Nat /\ b - (a + 1) \in Nat /\ (a + 1) + (b - (a + 1)) = b
    BY <1>4
  <2>2. 2^b = 2^(a + 1) * 2^(b - (a + 1)) /\ 2^(a + 1) = 2 * 2^a
    BY <2>1, PowerSum, PowerDoubles
  <2>3. 2^(b - (a + 1)) \in Nat \ {0}
    BY <2>1, PowerPositive
  <2> DEFINE z == 2^(b - (a + 1))
  <2> HIDE DEF z
  <2>4. y = (2 * x) * z /\ z \in Nat \ {0} /\ x \in Nat \ {0}
    BY <1>1, <1>2, <2>2, <2>3, PowersAre DEF z
  <2>5. (2 * x) * z = 2 * x + (2 * x) * (z - 1) /\ (2 * x) * (z - 1) >= 0
    BY <2>4
  <2>6. QED BY <2>4, <2>5
<1>5. QED BY <1>3, <1>4

\* Below a power of two above 1 there is its half.
LEMMA PowersHalve ==
  ASSUME NEW x \in Powers, x # 1
  PROVE  x \div 2 \in Powers /\ x = 2 * (x \div 2)
<1>1. x \in Nat \ {0} /\ 2 <= x /\ 2 \in Powers
  BY PowersAre
<1>2. QED BY <1>1, PowersDivide

\* The product of two powers of two is one.
LEMMA PowersTimes ==
  ASSUME NEW x \in Powers, NEW y \in Powers
  PROVE  x * y \in Powers
<1>1. PICK a \in Nat : x = 2^a
  BY DEF Powers
<1>2. PICK b \in Nat : y = 2^b
  BY DEF Powers
<1>3. 2^(a + b) = x * y /\ a + b \in Nat
  BY <1>1, <1>2, PowerSum
<1>4. QED BY <1>3 DEF Powers

\* Dividing by a common factor keeps an order.
LEMMA CommonFactor ==
  ASSUME NEW n \in Nat \ {0}, NEW x \in Nat, NEW y \in Nat, n * x <= n * y
  PROVE  x <= y
<1>1. SUFFICES ASSUME y + 1 <= x PROVE FALSE
  OBVIOUS
<1>2. n * (x - (y + 1)) >= 0 /\ n * (x - (y + 1)) = n * x - n * y - n
  BY <1>1
<1> DEFINE u == n * x
           v == n * y
<1>3. u <= v /\ u - v - n >= 0 /\ u \in Int /\ v \in Int
  BY <1>2
<1> HIDE DEF u, v
<1>4. QED BY <1>3

(***************************************************************************)
(* n workers for b blocks of s elements, of which each can have c: either  *)
(* a block has several workers, or a worker has several blocks, and        *)
(* nothing is left over.                                                   *)
(***************************************************************************)
LEMMA PowerShares ==
  ASSUME NEW n \in Powers, NEW b \in Powers, NEW s \in Powers, NEW c \in Powers, n * c <= b * s
  PROVE  /\ n \div b \in Nat
         /\ n \div b > 0 =>
              /\ n = b * (n \div b)
              /\ s = (n \div b) * (s \div (n \div b))
              /\ s \div (n \div b) \in Powers /\ s \div (n \div b) >= c
         /\ ~(n \div b > 0) =>
              /\ b \div n \in Powers /\ b \div n >= 2 /\ b = n * (b \div n)
<1>1. n \in Nat \ {0} /\ b \in Nat \ {0} /\ s \in Nat \ {0} /\ c \in Nat \ {0}
  BY PowersAre
<1>2. CASE b <= n
  <2> DEFINE p == n \div b
  <2>1. p \in Powers /\ n = b * p
    BY <1>2, PowersDivide
  <2> HIDE DEF p
  <2>2. p \in Nat \ {0}
    BY <2>1, PowersAre
  <2>3. n * c = b * (p * c) /\ p * c \in Nat
    BY <1>1, <2>1, <2>2
  <2>4. p * c <= s
    BY <1>1, <2>3, CommonFactor
  <2>5. p <= s
    <3>1. p * c = p + p * (c - 1) /\ p * (c - 1) >= 0
      BY <1>1, <2>2
    <3> DEFINE x == p * (c - 1)
    <3>2. p + x <= s /\ x >= 0 /\ x \in Int
      BY <1>1, <2>2, <2>4, <3>1
    <3> HIDE DEF x
    <3>3. QED BY <1>1, <2>2, <3>2
  <2> DEFINE q == s \div p
  <2>6. q \in Powers /\ s = p * q
    BY <2>1, <2>5, PowersDivide
  <2> HIDE DEF q
  <2>7. q \in Nat
    BY <2>6, PowersAre
  <2>8. c <= q
    BY <1>1, <2>2, <2>4, <2>6, <2>7, CommonFactor
  <2>9. QED BY <1>1, <2>1, <2>2, <2>6, <2>7, <2>8 DEF p, q
<1>3. CASE n < b
  <2>1. n \div b = 0
    <3>1. b \in Nat \ {0} /\ n \in 0..(b - 1) /\ 0 \in Nat
      BY <1>1, <1>3
    <3>2. (b * 0 + n) \div b = 0
      BY <3>1, PlaceInShare
    <3>3. QED BY <3>1, <3>2
  <2> DEFINE p == b \div n
  <2>2. p \in Powers /\ b = n * p
    BY <1>1, <1>3, PowersDivide
  <2> HIDE DEF p
  <2>3. p \in Nat \ {0} /\ (p = 1 => b = n)
    BY <1>1, <2>2, PowersAre
  <2>4. QED BY <1>1, <1>3, <2>1, <2>2, <2>3 DEF p
<1>4. QED BY <1>1, <1>2, <1>3
================================================================================

--------------------------- MODULE CobraOffloadProofs ---------------------------
(***************************************************************************)
(* The offloaded bit-reverse copy, for any numbers of threads and DPUs and *)
(* any lengths of the arrays.                                              *)
(*                                                                         *)
(* The plan: the blocks are a power of two, the loop over nr_dpus halves a *)
(* divisor of them and the loop over nr_iterations doubles one: what is    *)
(* left of the blocks when each is done is again a power of two, and 1 in  *)
(* the end.                                                                *)
(*                                                                         *)
(* The data: RevInc counts in reversed numbers, because a number's lowest  *)
(* bit is the highest of its reversal, where RevInc begins to carry.  The  *)
(* reversal of an index of three parts is the three reversals in reverse   *)
(* order, of which COBRA leaves one to the DPUs and two to the host, and   *)
(* the iterations bring the blocks one group after the other.              *)
(***************************************************************************)
EXTENDS CobraOffload, EqualShares

--------------------------------------------------------------------------------
\* A bit is 0 or 1.
LEMMA Bits ==
  ASSUME NEW a \in Nat, NEW b \in Nat
  PROVE  Bit(a, b) \in {0, 1}
<1>1. a \div 2^b \in Int
  BY PowerPositive, DivMod
<1>2. QED BY <1>1 DEF Bit

\* The number whose upper bits are those of u and whose m lower bits are those of v.
Joined(u, m, v) == u * 2^m + v
LEMMA BitsOfBoth ==
  ASSUME NEW m \in Nat, NEW u \in Nat, NEW v \in 0..(2^m - 1)
  PROVE  /\ Joined(u, m, v) \in Nat
         /\ \A b \in Nat : Bit(Joined(u, m, v), m + b) = Bit(u, b)
         /\ \A b \in Nat : b < m => Bit(Joined(u, m, v), b) = Bit(v, b)
<1>1. 2^m \in Nat \ {0} /\ v \in Nat
  BY PowerPositive
<1>2. u * 2^m + v \in Nat
  <2> DEFINE p == 2^m
  <2>1. p \in Nat
    BY <1>1
  <2> HIDE DEF p
  <2>2. u * p + v \in Nat
    BY <1>1, <2>1
  <2>3. QED BY <2>2 DEF p
<1>3. ASSUME NEW b \in Nat PROVE Bit(u * 2^m + v, m + b) = Bit(u, b)
  <2> DEFINE p == 2^m
             n == 2^b
             q == u \div n
             r == u % n
  <2>1. p \in Nat \ {0} /\ n \in Nat \ {0} /\ 2^(m + b) = n * p
    <3>1. 2^(m + b) = p * n
      BY PowerSum
    <3>2. p \in Nat /\ n \in Nat
      BY PowerPositive
    <3> HIDE DEF p, n
    <3>3. p * n = n * p
      BY <3>2
    <3>4. QED BY <3>1, <3>3, PowerPositive DEF p, n
  <2> HIDE DEF p, n
  <2>2. q \in Nat /\ r \in 0..(n - 1) /\ u = n * q + r
    BY <2>1, NatQuotients
  <2> HIDE DEF q, r
  <2>3. v \in 0..(p - 1)
    BY DEF p
  <2>4. r * p + v \in 0..(n * p - 1)
    <3>1. r * p + p <= n * p
      BY <2>1, <2>2, SharesApart
    <3> DEFINE x == r * p
               y == n * p
    <3>2. x \in Nat /\ y \in Nat /\ x + p <= y
      BY <2>1, <2>2, <3>1
    <3> HIDE DEF x, y
    <3>3. x + v \in 0..(y - 1)
      BY <2>1, <2>3, <3>2
    <3>4. QED BY <3>3 DEF x, y
  <2>5. u * p + v = (n * p) * q + (r * p + v)
    BY <2>1, <2>2, <2>3
  <2>6. n * p \in Nat \ {0}
    BY <2>1
  <2>7. (u * p + v) \div (n * p) = q
    BY <2>2, <2>4, <2>5, <2>6, PlaceInShare, SMTT(20)
  <2>8. QED BY <2>1, <2>7 DEF Bit, p, n, q
<1>4. ASSUME NEW b \in Nat, b < m PROVE Bit(u * 2^m + v, b) = Bit(v, b)
  <2> DEFINE p == 2^m
             n == 2^b
             h == 2^((m - b) - 1)
             q == v \div n
             r == v % n
  <2>1. p \in Nat \ {0} /\ n \in Nat \ {0} /\ h \in Nat /\ p = n * (2 * h)
    <3>1. (m - b) - 1 \in Nat /\ ((m - b) - 1) + 1 = m - b /\ m - b \in Nat /\ b + (m - b) = m
      BY <1>4
    <3>2. 2^(m - b) = 2 * h
      BY <3>1, PowerDoubles
    <3>3. p = n * 2^(m - b)
      BY <3>1, PowerSum
    <3>4. QED BY <3>1, <3>2, <3>3, PowerPositive
  <2> HIDE DEF p, n, h
  <2>2. q \in Nat /\ r \in 0..(n - 1) /\ v = n * q + r
    BY <1>1, <2>1, NatQuotients
  <2> HIDE DEF q, r
  <2>3. u * p + v = n * (2 * (u * h) + q) + r
    BY <2>1, <2>2
  <2>4. u * h \in Nat
    BY <2>1
  <2>5. 2 * (u * h) + q \in Nat
    BY <2>2, <2>4
  <2>6. (u * p + v) \div n = 2 * (u * h) + q
    BY <2>1, <2>2, <2>3, <2>5, PlaceInShare
  <2>7. (2 * (u * h) + q) % 2 = q % 2
    BY <2>2, <2>4
  <2>8. QED BY <2>6, <2>7 DEF Bit, p, n, q
<1>5. QED BY <1>2, <1>3, <1>4 DEF Joined

\* The recursive function of Reversed exists and satisfies its equations.
LEMMA Reversals ==
  ASSUME NEW a \in Nat, NEW w \in Nat
  PROVE  /\ Reversed(a, 0) = 0
         /\ Reversed(a, w) \in 0..(2^w - 1)
         /\ Reversed(a, w + 1) = 2 * Reversed(a, w) + Bit(a, w)
<1> DEFINE step == [d \in Nat |-> [s \in Nat |-> 2 * s + Bit(a, d)]]
           Is(f) == f = [j \in Nat |-> IF j = 0 THEN 0 ELSE 2 * f[j - 1] + Bit(a, j - 1)]
           g == CHOOSE f : Is(f)
<1>1. \A d \in Nat : Bit(a, d) \in {0, 1}
  BY Bits
<1>2. step \in [Nat -> [Nat -> Nat]] /\ \A d, s \in Nat : step[d][s] = 2 * s + Bit(a, d)
  BY <1>1
<1>3. PICK f \in [Nat -> Nat] : f[0] = 0 /\ \A d \in Nat : f[d + 1] = step[d][f[d]]
  <2> DEFINE N == Nat
  <2>1. 0 \in N /\ step \in [Nat -> [N -> N]]
    BY <1>2
  <2> HIDE DEF step, N, Is, g
  <2>2. \A b \in N : \A s \in [Nat -> [N -> N]] :
          \E h \in [Nat -> N] : h[0] = b /\ \A d \in Nat : h[d + 1] = s[d][h[d]]
    BY Iteration
  <2>3. \E h \in [Nat -> N] : h[0] = 0 /\ \A d \in Nat : h[d + 1] = step[d][h[d]]
    BY <2>1, <2>2
  <2>4. QED BY <2>3 DEF N
<1>4. Is(f)
  <2> DEFINE r == [j \in Nat |-> IF j = 0 THEN 0 ELSE 2 * f[j - 1] + Bit(a, j - 1)]
  <2> HIDE DEF step
  <2>1. ASSUME NEW j \in Nat PROVE f[j] = r[j]
    <3>1. CASE j = 0
      BY <1>3, <3>1
    <3>2. CASE j # 0
      <4>1. j - 1 \in Nat /\ (j - 1) + 1 = j /\ f[j - 1] \in Nat
        BY <3>2
      <4>2. f[(j - 1) + 1] = step[j - 1][f[j - 1]]
        BY <1>3, <4>1
      <4>3. f[j] = 2 * f[j - 1] + Bit(a, j - 1)
        BY <1>2, <4>1, <4>2
      <4>4. QED BY <3>2, <4>3
    <3>3. QED BY <3>1, <3>2
  <2>2. f = [j \in Nat |-> f[j]] /\ r = [j \in Nat |-> r[j]]
    OBVIOUS
  <2> HIDE DEF r
  <2>3. f = r
    BY <2>1, <2>2
  <2>4. QED BY <2>3 DEF r
<1>5. Is(g)
  <2> HIDE DEF Is
  <2>1. QED BY <1>4
<1>6. \A j \in Nat : Reversed(a, j) = g[j]
  BY DEF Reversed
<1> HIDE DEF g
<1>7. g[0] = 0
  BY <1>5
<1>8. \A d \in Nat : g[d + 1] = 2 * g[d] + Bit(a, d)
  <2>1. SUFFICES ASSUME NEW d \in Nat PROVE g[d + 1] = 2 * g[d] + Bit(a, d)
    OBVIOUS
  <2>2. d + 1 \in Nat /\ d + 1 # 0 /\ (d + 1) - 1 = d
    OBVIOUS
  <2>3. QED BY <1>5, <2>2
<1>9. {d \in Nat : g[d] \in 0..(2^d - 1)} = Nat
  <2> DEFINE T == {d \in Nat : g[d] \in 0..(2^d - 1)}
  <2>1. 0 \in T
    BY <1>7, PowerZero
  <2>2. ASSUME NEW d \in T PROVE d + 1 \in T
    <3> DEFINE p == 2^d
    <3>1. p \in Nat \ {0} /\ 2^(d + 1) = 2 * p
      BY PowerPositive, PowerDoubles
    <3>2. g[d] \in 0..(p - 1) /\ g[d + 1] = 2 * g[d] + Bit(a, d) /\ Bit(a, d) \in {0, 1}
      BY <1>1, <1>8
    <3> HIDE DEF p
    <3>3. g[d + 1] \in 0..(2 * p - 1)
      BY <3>1, <3>2
    <3>4. QED BY <3>1, <3>3
  <2> HIDE DEF T
  <2>3. T \in SUBSET Nat
    BY DEF T
  <2>4. T = Nat
    BY <2>1, <2>2, <2>3, StepByStep
  <2>5. QED BY <2>4 DEF T
<1>10. w + 1 \in Nat
  OBVIOUS
<1>11. QED BY <1>6, <1>7, <1>8, <1>9, <1>10

\* Numbers with the same w lower bits have the same reversal.
LEMMA SameBits ==
  ASSUME NEW a \in Nat, NEW b \in Nat, NEW w \in Nat,
         \A j \in Nat : j < w => Bit(a, j) = Bit(b, j)
  PROVE  Reversed(a, w) = Reversed(b, w)
<1> DEFINE S == {j \in Nat : j <= w => Reversed(a, j) = Reversed(b, j)}
<1>1. 0 \in S
  BY Reversals
<1>2. ASSUME NEW j \in S PROVE j + 1 \in S
  <2>1. SUFFICES ASSUME j + 1 <= w PROVE Reversed(a, j + 1) = Reversed(b, j + 1)
    OBVIOUS
  <2>2. j \in Nat /\ j < w /\ j <= w
    BY <2>1
  <2>3. Bit(a, j) = Bit(b, j) /\ Reversed(a, j) = Reversed(b, j)
    BY <1>2, <2>2
  <2>4. /\ Reversed(a, j + 1) = 2 * Reversed(a, j) + Bit(a, j)
        /\ Reversed(b, j + 1) = 2 * Reversed(b, j) + Bit(b, j)
    BY <2>2, Reversals
  <2>5. QED BY <2>3, <2>4
<1> HIDE DEF S
<1>3. S = Nat
  <2>1. S \in SUBSET Nat
    BY DEF S
  <2>2. QED BY <1>1, <1>2, <2>1, StepByStep
<1>4. QED BY <1>3 DEF S

\* Two pieces of a number change places when it is reversed.
LEMMA Concatenated ==
  ASSUME NEW m \in Nat, NEW n \in Nat, NEW u \in Nat, NEW v \in 0..(2^m - 1)
  PROVE  /\ u * 2^m + v \in Nat
         /\ Reversed(u * 2^m + v, m + n) = Reversed(v, m) * 2^n + Reversed(u, n)
<1> DEFINE w == u * 2^m + v
           S == {x \in Nat : Reversed(w, m + x) = Reversed(v, m) * 2^x + Reversed(u, x)}
<1>1. /\ w \in Nat /\ v \in Nat
      /\ \A b \in Nat : Bit(w, m + b) = Bit(u, b)
      /\ \A b \in Nat : b < m => Bit(w, b) = Bit(v, b)
  <2>1. v \in Nat
    BY PowerPositive
  <2>2. /\ Joined(u, m, v) \in Nat
        /\ \A b \in Nat : Bit(Joined(u, m, v), m + b) = Bit(u, b)
        /\ \A b \in Nat : b < m => Bit(Joined(u, m, v), b) = Bit(v, b)
    BY BitsOfBoth
  <2>3. QED BY <2>1, <2>2 DEF w, Joined
<1> HIDE DEF w
<1>2. 0 \in S
  <2>1. Reversed(w, m) = Reversed(v, m)
    BY <1>1, SameBits
  <2>2. Reversed(v, m) \in Nat
    <3>1. Reversed(v, m) \in 0..(2^m - 1) /\ 2^m \in Nat
      BY <1>1, Reversals, PowerPositive
    <3>2. QED BY <3>1
  <2>3. 2^0 = 1 /\ Reversed(u, 0) = 0
    BY PowerZero, Reversals
  <2>4. m + 0 = m
    OBVIOUS
  <2> DEFINE r == Reversed(v, m)
  <2> HIDE DEF r
  <2>5. r * 1 + 0 = r
    BY <2>2 DEF r
  <2>6. QED BY <2>1, <2>3, <2>4, <2>5 DEF r
<1>3. ASSUME NEW x \in S PROVE x + 1 \in S
  <2> DEFINE r == Reversed(v, m)
             p == 2^x
             s == Reversed(u, x)
             b == Bit(u, x)
  <2>1. x \in Nat /\ m + x \in Nat /\ (m + x) + 1 = m + (x + 1)
    OBVIOUS
  <2>2. Reversed(w, m + (x + 1)) = 2 * Reversed(w, m + x) + Bit(w, m + x)
    BY <1>1, <2>1, Reversals
  <2>3. Reversed(w, m + x) = r * p + s /\ Bit(w, m + x) = b
    BY <1>1, <1>3, <2>1
  <2>4. Reversed(u, x + 1) = 2 * s + b /\ 2^(x + 1) = 2 * p
    BY <2>1, Reversals, PowerDoubles
  <2>5. r \in Int /\ p \in Int /\ s \in Int /\ b \in Int
    <3>1. r \in 0..(2^m - 1) /\ s \in 0..(p - 1)
      BY <1>1, Reversals
    <3>2. QED BY <3>1, PowerPositive, Bits
  <2> HIDE DEF r, p, s, b
  <2>6. 2 * (r * p + s) + b = r * (2 * p) + (2 * s + b)
    BY <2>5
  <2>7. Reversed(w, m + (x + 1)) = r * 2^(x + 1) + Reversed(u, x + 1)
    BY <2>2, <2>3, <2>4, <2>6
  <2>8. QED BY <2>1, <2>7 DEF r
<1>4. S = Nat
  <2> HIDE DEF S
  <2>1. S \in SUBSET Nat
    BY DEF S
  <2>2. QED BY <1>2, <1>3, <2>1, StepByStep
<1>5. QED BY <1>1, <1>4 DEF w

\* The case of one lower bit.
LEMMA FirstBit ==
  ASSUME NEW u \in Nat, NEW v \in {0, 1}, NEW n \in Nat
  PROVE  Reversed(2 * u + v, n + 1) = v * 2^n + Reversed(u, n)
<1>1. 2^1 = 2
  <2>1. 2^(0 + 1) = 2 * 2^0 /\ 2^0 = 1 /\ 0 + 1 = 1
    BY PowerZero, PowerDoubles
  <2>2. QED BY <2>1
<1>2. v \in 0..(2^1 - 1)
  BY <1>1
<1>3. Reversed(v, 1) = v
  <2>1. Reversed(v, 0 + 1) = 2 * Reversed(v, 0) + Bit(v, 0) /\ Reversed(v, 0) = 0
    BY Reversals
  <2>2. Bit(v, 0) = v
    BY PowerZero DEF Bit
  <2>3. QED BY <2>1, <2>2
<1>4. Reversed(u * 2^1 + v, 1 + n) = Reversed(v, 1) * 2^n + Reversed(u, n)
  BY <1>2, Concatenated
<1>5. u * 2^1 + v = 2 * u + v /\ 1 + n = n + 1
  BY <1>1
<1>6. QED BY <1>3, <1>4, <1>5

\* A number is twice its half and its lowest bit.
LEMMA HalfAndBit ==
  ASSUME NEW x \in Nat
  PROVE  \E u \in Nat, v \in {0, 1} : x = 2 * u + v
<1>1. x \div 2 \in Nat /\ x % 2 \in 0..1 /\ x = 2 * (x \div 2) + (x % 2)
  OBVIOUS
<1>2. QED BY <1>1

\* Reversing the w bits of a number twice gives it back.
LEMMA ReversedTwice ==
  ASSUME NEW w \in Nat, NEW x \in 0..(2^w - 1)
  PROVE  Reversed(x, w) \in 0..(2^w - 1) /\ Reversed(Reversed(x, w), w) = x
<1> DEFINE S == {n \in Nat : \A a \in 0..(2^n - 1) : Reversed(Reversed(a, n), n) = a}
<1>1. 0 \in S
  <2>1. SUFFICES ASSUME NEW a \in 0..(2^0 - 1) PROVE Reversed(Reversed(a, 0), 0) = a
    OBVIOUS
  <2>2. a = 0
    BY PowerZero
  <2>3. Reversed(0, 0) = 0
    BY Reversals
  <2>4. QED BY <2>2, <2>3
<1>2. ASSUME NEW n \in S PROVE n + 1 \in S
  <2>1. SUFFICES ASSUME NEW a \in 0..(2^(n + 1) - 1)
                 PROVE  Reversed(Reversed(a, n + 1), n + 1) = a
    OBVIOUS
  <2>2. 2^n \in Nat \ {0} /\ 2^(n + 1) = 2 * 2^n /\ a \in Nat
    BY PowerPositive, PowerDoubles
  <2>3. PICK u \in Nat, v \in {0, 1} : a = 2 * u + v
    BY <2>2, HalfAndBit
  <2>4. u \in 0..(2^n - 1)
    <3> DEFINE p == 2^n
    <3>1. a \in 0..(2 * p - 1) /\ p \in Nat
      BY <2>2
    <3> HIDE DEF p
    <3>2. u \in 0..(p - 1)
      BY <2>3, <3>1
    <3>3. QED BY <3>2 DEF p
  <2>5. Reversed(a, n + 1) = v * 2^n + Reversed(u, n)
    BY <2>3, FirstBit
  <2>6. Reversed(u, n) \in 0..(2^n - 1) /\ Reversed(Reversed(u, n), n) = u
    BY <1>2, <2>4, Reversals
  <2>7. v \in Nat /\ n \in Nat /\ 1 \in Nat
    BY <2>3
  <2>8. Reversed(v * 2^n + Reversed(u, n), n + 1)
          = Reversed(Reversed(u, n), n) * 2^1 + Reversed(v, 1)
    <3> DEFINE r == Reversed(u, n)
    <3>1. r \in 0..(2^n - 1)
      BY <2>6
    <3> HIDE DEF r, S
    <3>2. \A i \in Nat : Reversed(v * 2^n + r, n + i) = Reversed(r, n) * 2^i + Reversed(v, i)
      BY <2>7, <3>1, Concatenated
    <3>3. QED BY <2>7, <3>2 DEF r
  <2>9. Reversed(v, 1) = v /\ 2^1 = 2
    <3>0. \A i, j \in Nat : Reversed(2 * i + v, j + 1) = v * 2^j + Reversed(i, j)
      BY FirstBit
    <3>1. Reversed(2 * 0 + v, 0 + 1) = v * 2^0 + Reversed(0, 0)
      BY <3>0
    <3>2. 2^0 = 1 /\ Reversed(0, 0) = 0 /\ 2^(0 + 1) = 2 * 2^0
      BY PowerZero, Reversals, PowerDoubles
    <3>3. 2 * 0 + v = v /\ 0 + 1 = 1
      OBVIOUS
    <3>4. v * 1 + 0 = v
      OBVIOUS
    <3>5. QED BY <3>1, <3>2, <3>3, <3>4
  <2>10. u * 2 + v = 2 * u + v
    OBVIOUS
  <2>11. QED BY <2>3, <2>5, <2>6, <2>8, <2>9, <2>10
<1>3. S = Nat
  <2> HIDE DEF S
  <2>1. S \in SUBSET Nat
    BY DEF S
  <2>2. QED BY <1>1, <1>2, <2>1, StepByStep
<1>4. x \in Nat
  BY PowerPositive
<1>5. QED BY <1>3, <1>4, Reversals

\* A number that has bit m on top of m lower bits.
LEMMA TopBit ==
  ASSUME NEW m \in Nat, NEW v \in 0..(2^m - 1)
  PROVE  /\ Bit(2^m + v, m) = 1
         /\ \A b \in Nat : b < m => Bit(2^m + v, b) = Bit(v, b)
<1> DEFINE g(u) == u * 2^m + v
<1>1. \A u \in Nat : /\ \A b \in Nat : Bit(g(u), m + b) = Bit(u, b)
                     /\ \A b \in Nat : b < m => Bit(g(u), b) = Bit(v, b)
  <2>1. \A u \in Nat : /\ \A b \in Nat : Bit(Joined(u, m, v), m + b) = Bit(u, b)
                       /\ \A b \in Nat : b < m => Bit(Joined(u, m, v), b) = Bit(v, b)
    BY BitsOfBoth
  <2>2. QED BY <2>1 DEF Joined
<1>2. g(1) = 2^m + v
  <2> DEFINE p == 2^m
  <2>1. p \in Nat /\ v \in Nat
    BY PowerPositive
  <2> HIDE DEF p
  <2>2. 1 * p + v = p + v
    BY <2>1
  <2>3. QED BY <2>2 DEF p
<1> HIDE DEF g
<1>3. Bit(1, 0) = 1
  BY PowerZero DEF Bit
<1>4. m + 0 = m /\ 1 \in Nat /\ 0 \in Nat
  OBVIOUS
<1>5. Bit(g(1), m + 0) = Bit(1, 0) /\ \A b \in Nat : b < m => Bit(g(1), b) = Bit(v, b)
  BY <1>1, <1>4
<1>6. QED BY <1>2, <1>3, <1>4, <1>5

\* A set of numbers with a bound has a greatest one.
LEMMA Greatest ==
  ASSUME NEW S \in SUBSET Nat, S # {}, NEW n \in Nat, \A x \in S : x <= n
  PROVE  Max(S) \in S /\ \A y \in S : y <= Max(S)
<1> DEFINE T == {n - x : x \in S}
<1>1. T \in SUBSET Nat /\ T # {}
  <2>1. \A x \in S : n - x \in Nat
    OBVIOUS
  <2>2. QED BY <2>1
<1>2. PICK z \in T : \A y \in T : z <= y
  BY <1>1, Least
<1>3. PICK m \in S : z = n - m
  OBVIOUS
<1>4. \A y \in S : m >= y
  BY <1>2, <1>3
<1>5. QED BY <1>3, <1>4 DEF Max

\* A w-bit number of ones only is 2^w - 1.
LEMMA AllOnes ==
  ASSUME NEW w \in Nat, NEW c \in 0..(2^w - 1), \A b \in Nat : b < w => Bit(c, b) = 1
  PROVE  c = 2^w - 1
<1> DEFINE Ones(x, n) == \A b \in Nat : b < n => Bit(x, b) = 1
           S == {n \in Nat : \A x \in 0..(2^n - 1) : Ones(x, n) => x = 2^n - 1}
<1>1. 0 \in S
  <2>1. 2^0 = 1
    BY PowerZero
  <2>2. QED BY <2>1
<1>2. ASSUME NEW n \in S PROVE n + 1 \in S
  <2> DEFINE p == 2^n
  <2>1. SUFFICES ASSUME NEW x \in 0..(2^(n + 1) - 1), Ones(x, n + 1)
                 PROVE  x = 2^(n + 1) - 1
    OBVIOUS
  <2>2. p \in Nat \ {0} /\ 2^(n + 1) = 2 * p /\ n \in Nat /\ x \in Nat
    BY PowerPositive, PowerDoubles
  <2>3. Bit(x, n) = 1
    BY <2>1, <2>2
  <2>4. x \div p \in Nat /\ x % p \in 0..(p - 1) /\ x = p * (x \div p) + (x % p)
    <3> HIDE DEF p
    <3>1. QED BY <2>2, NatQuotients
  <2>5. x \div p = 1
    <3>1. x \in 0..(p * 2 - 1)
      BY <2>2
    <3>2. x \div p \in 0..1
      BY <2>2, <3>1, ShareOf
    <3>3. (x \div p) % 2 = 1
      BY <2>3 DEF Bit
    <3> DEFINE q == x \div p
    <3>4. q \in 0..1 /\ q % 2 = 1
      BY <3>2, <3>3
    <3> HIDE DEF q
    <3>5. q = 1
      BY <3>4
    <3>6. QED BY <3>5 DEF q
  <2> DEFINE r == x % p
  <2>6. r \in 0..(p - 1) /\ x = p + r
    BY <2>2, <2>4, <2>5
  <2> HIDE DEF r
  <2>7. Ones(r, n)
    <3>1. SUFFICES ASSUME NEW b \in Nat, b < n PROVE Bit(r, b) = 1
      OBVIOUS
    <3>2. \A i \in Nat : i < n => Bit(2^n + r, i) = Bit(r, i)
      BY <2>2, <2>6, TopBit
    <3>3. 2^n + r = x
      BY <2>2, <2>6
    <3>4. Bit(x, b) = 1
      BY <2>1, <2>2, <3>1
    <3>5. QED BY <3>1, <3>2, <3>3, <3>4
  <2>8. r = p - 1
    BY <1>2, <2>6, <2>7
  <2> HIDE DEF p
  <2>9. QED BY <2>2, <2>6, <2>8
<1>3. S = Nat
  <2> HIDE DEF S
  <2>1. S \in SUBSET Nat
    BY DEF S
  <2>2. QED BY <1>1, <1>2, <2>1, StepByStep
<1>4. w \in S /\ Ones(c, w)
  BY <1>3
<1>5. QED BY <1>4

\* RevInc of a number whose top bit is 0 sets that bit.
LEMMA RevIncSets ==
  ASSUME NEW w \in Nat, NEW a \in 0..(2^w - 1)
  PROVE  RevInc(a, w + 1) = a + 2^w
<1> DEFINE p == 2^w
           Z == {b \in 0..((w + 1) - 1) : Bit(a, b) = 0}
<1>1. p \in Nat \ {0} /\ 2^(w + 1) = 2 * p
  BY PowerPositive, PowerDoubles
<1>2. Bit(a, w) = 0
  <2>1. a \in 0..(p - 1) /\ p * 0 + a = a
    OBVIOUS
  <2>2. a \div p = 0
    <3> HIDE DEF p
    <3>1. \A m \in Nat : (p * m + a) \div p = m
      BY <1>1, <2>1, PlaceInShare
    <3>2. QED BY <2>1, <3>1
  <2>3. QED BY <2>2 DEF Bit
<1>3. Max(Z) = w
  <2>1. Z \in SUBSET Nat /\ w \in Z /\ \A x \in Z : x <= w
    BY <1>2
  <2> DEFINE z == Max(Z)
  <2> HIDE DEF Z
  <2>2. z \in Z /\ w <= z
    BY <2>1, Greatest
  <2> HIDE DEF z
  <2>3. z \in Nat /\ z <= w
    BY <2>1, <2>2
  <2>4. z = w
    BY <2>2, <2>3
  <2>5. QED BY <2>4 DEF z
<1>4. a # 2^(w + 1) - 1
  <2> HIDE DEF p
  <2>1. a \in 0..(p - 1)
    BY DEF p
  <2>2. QED BY <1>1, <2>1
<1>5. RevInc(a, w + 1) = (a - (2^(w + 1) - 2^(Max(Z) + 1))) + 2^Max(Z)
  BY <1>4 DEF RevInc
<1>6. RevInc(a, w + 1) = (a - (2 * p - 2 * p)) + p
  BY <1>1, <1>3, <1>5
<1>7. a \in Int
  OBVIOUS
<1> HIDE DEF p
<1>8. (a - (2 * p - 2 * p)) + p = a + p
  BY <1>1, <1>7
<1>9. QED BY <1>6, <1>8 DEF p

\* RevInc of a number whose top bit is 1 clears it and goes on with the bits below.
LEMMA RevIncCarries ==
  ASSUME NEW w \in Nat, NEW c \in 0..(2^w - 1)
  PROVE  RevInc(2^w + c, w + 1) = RevInc(c, w)
<1> DEFINE p == 2^w
           a == 2^w + c
           Z == {b \in 0..((w + 1) - 1) : Bit(a, b) = 0}
           Y == {b \in 0..(w - 1) : Bit(c, b) = 0}
<1>1. p \in Nat \ {0} /\ 2^(w + 1) = 2 * p /\ c \in Nat /\ c \in 0..(p - 1) /\ a = p + c
  BY PowerPositive, PowerDoubles
<1>2. Bit(a, w) = 1 /\ \A b \in Nat : b < w => Bit(a, b) = Bit(c, b)
  BY TopBit
<1>3. Z = Y
  BY <1>2
<1> HIDE DEF p, a
<1>4. CASE c = 2^w - 1
  <2>1. a = 2^(w + 1) - 1
    BY <1>1, <1>4 DEF p
  <2>2. QED BY <1>4, <2>1 DEF RevInc, a
<1>5. CASE c # 2^w - 1
  <2>1. a # 2^(w + 1) - 1
    BY <1>1, <1>5 DEF p
  <2>2. Y # {}
    <3>1. SUFFICES ASSUME Y = {} PROVE FALSE
      OBVIOUS
    <3>2. ASSUME NEW b \in Nat, b < w PROVE Bit(c, b) = 1
      <4>1. b \in 0..(w - 1)
        BY <3>2
      <4>2. Bit(c, b) # 0
        BY <3>1, <4>1
      <4>3. Bit(c, b) \in {0, 1}
        BY <1>1, Bits
      <4>4. QED BY <4>2, <4>3
    <3>3. c = 2^w - 1
      BY <3>2, AllOnes
    <3>4. QED BY <1>5, <3>3
  <2>3. Y \in SUBSET Nat /\ \A x \in Y : x <= w
    OBVIOUS
  <2> DEFINE z == Max(Y)
  <2>4. z \in Nat
    <3> HIDE DEF Y
    <3>1. QED BY <2>2, <2>3, Greatest
  <2>5. 2^z \in Nat /\ 2^(z + 1) = 2 * 2^z
    BY <2>4, PowerPositive, PowerDoubles
  <2>6. RevInc(a, w + 1) = (a - (2^(w + 1) - 2^(Max(Z) + 1))) + 2^Max(Z)
    BY <2>1 DEF RevInc
  <2>7. RevInc(c, w) = (c - (2^w - 2^(z + 1))) + 2^z
    BY <1>5 DEF RevInc
  <2> DEFINE x == 2^z
  <2>8. RevInc(a, w + 1) = (a - (2 * p - 2 * x)) + x
    BY <1>1, <1>3, <2>5, <2>6
  <2>9. RevInc(c, w) = (c - (p - 2 * x)) + x
    BY <2>5, <2>7 DEF p
  <2> HIDE DEF x
  <2>10. (a - (2 * p - 2 * x)) + x = (c - (p - 2 * x)) + x
    <3>1. x \in Nat
      BY <2>5 DEF x
    <3>2. QED BY <1>1, <3>1
  <2>11. QED BY <2>8, <2>9, <2>10 DEF a
<1>6. QED BY <1>4, <1>5

\* RevInc counts in reversed numbers.
LEMMA RevIncCounts ==
  ASSUME NEW w \in Nat, NEW i \in Nat
  PROVE  RevInc(Reversed(i, w), w) = Reversed(i + 1, w)
<1> DEFINE S == {n \in Nat : \A x \in Nat : RevInc(Reversed(x, n), n) = Reversed(x + 1, n)}
<1>1. 0 \in S
  <2>1. SUFFICES ASSUME NEW x \in Nat PROVE RevInc(Reversed(x, 0), 0) = Reversed(x + 1, 0)
    OBVIOUS
  <2>2. Reversed(x, 0) = 0 /\ Reversed(x + 1, 0) = 0
    BY Reversals
  <2>3. 0 = 2^0 - 1
    BY PowerZero
  <2>4. QED BY <2>2, <2>3 DEF RevInc
<1>2. ASSUME NEW n \in S PROVE n + 1 \in S
  <2>1. SUFFICES ASSUME NEW x \in Nat
                 PROVE  RevInc(Reversed(x, n + 1), n + 1) = Reversed(x + 1, n + 1)
    OBVIOUS
  <2>2. PICK u \in Nat, v \in {0, 1} : x = 2 * u + v
    BY HalfAndBit
  <2>3. n \in Nat /\ 2^n \in Nat /\ Reversed(u, n) \in 0..(2^n - 1) /\ u + 1 \in Nat
    BY PowerPositive, Reversals
  <2>4. Reversed(x, n + 1) = v * 2^n + Reversed(u, n)
    BY <2>2, <2>3, FirstBit
  <2> DEFINE r == Reversed(u, n)
             p == 2^n
  <2>5. r \in Nat /\ p \in Nat
    BY <2>3
  <2>6. CASE v = 0
    <3>1. x + 1 = 2 * u + 1
      BY <2>2, <2>6
    <3>2. Reversed(x + 1, n + 1) = 1 * p + r
      BY <2>3, <3>1, FirstBit, SMTT(20)
    <3>3. RevInc(r, n + 1) = r + p
      BY <2>3, RevIncSets
    <3>4. Reversed(x, n + 1) = 0 * p + r
      BY <2>4, <2>6
    <3> HIDE DEF r, p
    <3>5. 0 * p + r = r /\ 1 * p + r = r + p
      BY <2>5
    <3>6. QED BY <3>2, <3>3, <3>4, <3>5
  <2>7. CASE v = 1
    <3>1. x + 1 = 2 * (u + 1) + 0
      BY <2>2, <2>7
    <3>2. Reversed(x + 1, n + 1) = 0 * p + Reversed(u + 1, n)
      <4>1. \A y \in Nat : Reversed(2 * y + 0, n + 1) = 0 * 2^n + Reversed(y, n)
        BY <2>3, FirstBit
      <4>2. QED BY <2>3, <3>1, <4>1
    <3>3. RevInc(p + r, n + 1) = RevInc(r, n)
      BY <2>3, RevIncCarries
    <3>4. Reversed(x, n + 1) = 1 * p + r
      BY <2>4, <2>7
    <3>5. RevInc(r, n) = Reversed(u + 1, n)
      BY <1>2
    <3> DEFINE s == Reversed(u + 1, n)
    <3>6. s \in Int
      BY <2>3, Reversals
    <3> HIDE DEF r, p, s
    <3>7. 1 * p + r = p + r /\ 0 * p + s = s
      BY <2>5, <3>6
    <3>8. QED BY <3>2, <3>3, <3>4, <3>5, <3>7 DEF s
  <2>8. QED BY <2>6, <2>7
<1>3. S = Nat
  <2> HIDE DEF S
  <2>1. S \in SUBSET Nat
    BY DEF S
  <2>2. QED BY <1>1, <1>2, <2>1, StepByStep
<1>4. QED BY <1>3

\* The reversal of 0 is 0.
LEMMA ReversedZero == ASSUME NEW w \in Nat PROVE Reversed(0, w) = 0
<1> DEFINE S == {n \in Nat : Reversed(0, n) = 0}
<1>1. 0 \in S
  BY Reversals
<1>2. ASSUME NEW n \in S PROVE n + 1 \in S
  <2>1. n \in Nat /\ Reversed(0, n) = 0
    OBVIOUS
  <2>2. Bit(0, n) = 0
    <3> DEFINE p == 2^n
    <3>1. p \in Nat \ {0} /\ 0 \in 0..(p - 1) /\ p * 0 + 0 = 0
      BY PowerPositive
    <3> HIDE DEF p
    <3>2. \A m \in Nat : (p * m + 0) \div p = m
      BY <3>1, PlaceInShare
    <3>3. 0 \div p = 0
      BY <3>1, <3>2
    <3> DEFINE q == 0 \div p
    <3> HIDE DEF q
    <3>4. q % 2 = 0
      BY <3>3 DEF q
    <3>5. QED BY <3>4 DEF Bit, p, q
  <2>3. Reversed(0, n + 1) = 2 * Reversed(0, n) + Bit(0, n)
    BY <2>1, Reversals
  <2>4. QED BY <2>1, <2>2, <2>3
<1>3. S = Nat
  <2> HIDE DEF S
  <2>1. S \in SUBSET Nat
    BY DEF S
  <2>2. QED BY <1>1, <1>2, <2>1, StepByStep
<1>4. QED BY <1>3

(***************************************************************************)
(* The tables that BRC_init fills by counting with RevInc hold, for every  *)
(* number of bits, the index with its bits in reverse order                *)
(* (CModulus.cpp:280-290).                                                 *)
(***************************************************************************)
THEOREM TablesReverse ==
  \A n \in Nat : BRC_table(n) = [i \in 0..(2^n - 1) |-> Reversed(i, n)]
<1> SUFFICES ASSUME NEW n \in Nat
             PROVE  BRC_table(n) = [i \in 0..(2^n - 1) |-> Reversed(i, n)]
  OBVIOUS
<1> DEFINE D == 0..(2^n - 1)
           Is(f) == f = [i \in D |-> IF i = 0 THEN 0 ELSE RevInc(f[i - 1], n)]
           r == [i \in D |-> Reversed(i, n)]
           g == CHOOSE f : Is(f)
<1>1. 2^n \in Nat \ {0} /\ 0 \in D /\ \A i \in D : i \in Nat /\ (i # 0 => i - 1 \in D)
  BY PowerPositive
<1>2. Is(r)
  <2> DEFINE s == [i \in D |-> IF i = 0 THEN 0 ELSE RevInc(r[i - 1], n)]
  <2> HIDE DEF D
  <2>1. ASSUME NEW i \in D PROVE r[i] = s[i]
    <3>1. CASE i = 0
      BY <3>1, ReversedZero
    <3>2. CASE i # 0
      <4>1. i - 1 \in D /\ i - 1 \in Nat /\ (i - 1) + 1 = i
        BY <1>1, <3>2
      <4>2. r[i - 1] = Reversed(i - 1, n)
        BY <4>1
      <4>3. RevInc(Reversed(i - 1, n), n) = Reversed((i - 1) + 1, n)
        BY <4>1, RevIncCounts
      <4>4. QED BY <3>2, <4>1, <4>2, <4>3
    <3>3. QED BY <3>1, <3>2
  <2>2. r = [i \in D |-> r[i]] /\ s = [i \in D |-> s[i]]
    OBVIOUS
  <2> HIDE DEF r, s
  <2>3. r = s
    BY <2>1, <2>2
  <2>4. QED BY <2>3 DEF s
<1>3. Is(g)
  <2> HIDE DEF Is, r
  <2>1. QED BY <1>2
<1>4. BRC_table(n) = g
  BY DEF BRC_table
<1> HIDE DEF g, D
<1>5. g[0] = 0 /\ \A i \in D : i # 0 => g[i] = RevInc(g[i - 1], n)
  BY <1>1, <1>3
<1> DEFINE S == {i \in Nat : i \in D => g[i] = Reversed(i, n)}
<1>6. 0 \in S
  BY <1>5, ReversedZero
<1>7. ASSUME NEW i \in S PROVE i + 1 \in S
  <2>1. SUFFICES ASSUME i + 1 \in D PROVE g[i + 1] = Reversed(i + 1, n)
    OBVIOUS
  <2>2. i \in Nat /\ i + 1 # 0 /\ (i + 1) - 1 = i
    OBVIOUS
  <2>3. i \in D
    BY <1>1, <2>1, <2>2
  <2>4. g[i + 1] = RevInc(g[i], n) /\ g[i] = Reversed(i, n)
    BY <1>5, <1>7, <2>1, <2>2, <2>3
  <2>5. QED BY <2>2, <2>4, RevIncCounts
<1>8. S = Nat
  <2> HIDE DEF S
  <2>1. S \in SUBSET Nat
    BY DEF S
  <2>2. QED BY <1>6, <1>7, <2>1, StepByStep
<1>9. \A i \in D : g[i] = r[i]
  BY <1>1, <1>8
<1>10. g = [i \in D |-> g[i]] /\ r = [i \in D |-> r[i]]
  BY <1>3
<1> HIDE DEF r, S
<1>11. g = r
  BY <1>9, <1>10
<1>12. QED BY <1>4, <1>11 DEF r, D

\* The place a table gives a number is its reversal, and no other number has it.
LEMMA PlaceInTable ==
  ASSUME NEW n \in Nat, NEW y \in 0..(2^n - 1)
  PROVE  /\ Reversed(y, n) \in 0..(2^n - 1)
         /\ \A x \in 0..(2^n - 1) : BRC_table(n)[x] = y <=> x = Reversed(y, n)
<1>1. \A z \in 0..(2^n - 1) :
        Reversed(z, n) \in 0..(2^n - 1) /\ Reversed(Reversed(z, n), n) = z
  BY ReversedTwice
<1>2. \A x \in 0..(2^n - 1) : BRC_table(n)[x] = Reversed(x, n)
  BY TablesReverse
<1>3. QED BY <1>1, <1>2

\* Scattering with a table is the bit-reverse copy, whatever was there before.
LEMMA ScatterReverses ==
  ASSUME NEW n \in Nat, NEW a, NEW b,
         DOMAIN a = 0..(2^n - 1), DOMAIN b = 0..(2^n - 1)
  PROVE  Scatter(BRC_table(n), a, b) = [y \in 0..(2^n - 1) |-> a[Reversed(y, n)]]
<1> DEFINE D == 0..(2^n - 1)
           rev == BRC_table(n)
<1>1. \A y \in D : Reversed(y, n) \in D /\ \A x \in D : rev[x] = y <=> x = Reversed(y, n)
  BY PlaceInTable
<1> HIDE DEF D, rev
<1>2. ASSUME NEW y \in D
      PROVE  /\ \E x \in D : rev[x] = y
             /\ (CHOOSE x \in D : rev[x] = y) = Reversed(y, n)
  BY <1>1
<1>3. DOMAIN a = D /\ DOMAIN b = D
  BY DEF D
<1>4. Scatter(rev, a, b) = [y \in D |-> a[Reversed(y, n)]]
  BY <1>2, <1>3 DEF Scatter
<1>5. QED BY <1>4 DEF D, rev

(***************************************************************************)
(* COBRA's view of an index of m + 2 * q bits: its lower and its upper q   *)
(* bits change places and all three parts are reversed.                    *)
(***************************************************************************)
LEMMA ThreeParts ==
  ASSUME NEW q \in Nat, NEW m \in Nat, NEW y \in 0..(2^(m + 2 * q) - 1)
  PROVE  LET c == y \div 2^(m + q)
             b == (y \div 2^q) % 2^m
             e == y % 2^q
         IN /\ c \in 0..(2^q - 1) /\ b \in 0..(2^m - 1) /\ e \in 0..(2^q - 1)
            /\ Reversed(y, m + 2 * q)
                 = (Reversed(e, q) * 2^(m + q) + Reversed(b, m) * 2^q) + Reversed(c, q)
<1> DEFINE Q2 == 2^q
           M2 == 2^m
           z == y \div Q2
           e == y % Q2
           c == z \div M2
           b == z % M2
<1>1. /\ Q2 \in Nat \ {0} /\ M2 \in Nat \ {0}
      /\ 2^(m + q) = Q2 * M2 /\ 2^(m + 2 * q) = Q2 * (M2 * Q2)
  <2>1. 2^(m + q) = M2 * Q2
    BY PowerSum
  <2>2. m + q \in Nat /\ q + (m + q) = m + 2 * q
    OBVIOUS
  <2>3. 2^(q + (m + q)) = Q2 * 2^(m + q)
    BY <2>2, PowerSum
  <2>4. Q2 \in Nat \ {0} /\ M2 \in Nat \ {0}
    BY PowerPositive
  <2> HIDE DEF Q2, M2
  <2>5. M2 * Q2 = Q2 * M2
    BY <2>4
  <2>6. QED BY <2>1, <2>2, <2>3, <2>4, <2>5
<1>2. y \in 0..(Q2 * (M2 * Q2) - 1) /\ y \in Nat
  BY <1>1
<1> HIDE DEF Q2, M2
<1>3. z \in 0..(M2 * Q2 - 1) /\ e \in 0..(Q2 - 1) /\ y = Q2 * z + e
  <2>1. M2 * Q2 \in Nat
    BY <1>1
  <2>2. QED BY <1>1, <1>2, <2>1, ShareOf
<1> HIDE DEF z, e
<1>4. c \in 0..(Q2 - 1) /\ b \in 0..(M2 - 1) /\ z = M2 * c + b
  <2>1. Q2 \in Nat
    BY <1>1
  <2>2. QED BY <1>1, <1>3, <2>1, ShareOf
<1> HIDE DEF c, b
<1>5. y \div (Q2 * M2) = c
  <2> DEFINE n == Q2 * M2
             j == Q2 * b + e
  <2>1. y = n * c + j
    <3>1. Q2 * (M2 * c + b) + e = (Q2 * M2) * c + (Q2 * b + e)
      BY <1>1, <1>3, <1>4
    <3>2. QED BY <1>3, <1>4, <3>1
  <2>2. n \in Nat \ {0} /\ c \in Nat
    BY <1>1, <1>4
  <2>3. j \in 0..(n - 1)
    <3>1. b * Q2 + Q2 <= M2 * Q2
      BY <1>1, <1>4, SharesApart
    <3> DEFINE u == Q2 * b
    <3>2. u + Q2 <= n /\ u \in Nat
      <4>1. b * Q2 = Q2 * b /\ M2 * Q2 = Q2 * M2 /\ Q2 * b \in Nat
        BY <1>1, <1>4
      <4>2. QED BY <3>1, <4>1
    <3> HIDE DEF u, n
    <3>3. u + e \in 0..(n - 1)
      BY <1>1, <1>3, <2>2, <3>2
    <3>4. QED BY <3>3 DEF u
  <2> HIDE DEF n, j
  <2>4. (n * c + j) \div n = c
    BY <2>2, <2>3, PlaceInShare
  <2>5. QED BY <2>1, <2>4 DEF n
<1>6. c \in Nat /\ b \in Nat /\ e \in Nat /\ z \in Nat
  BY <1>1, <1>3, <1>4
<1>7. Reversed(y, q + (m + q)) = Reversed(e, q) * 2^(m + q) + Reversed(z, m + q)
  <2>1. e \in 0..(2^q - 1) /\ m + q \in Nat
    BY <1>3 DEF Q2
  <2>2. Reversed(z * 2^q + e, q + (m + q)) = Reversed(e, q) * 2^(m + q) + Reversed(z, m + q)
    BY <1>6, <2>1, Concatenated
  <2>3. z * Q2 + e = y
    BY <1>1, <1>3, <1>6
  <2>4. QED BY <2>2, <2>3 DEF Q2
<1>8. Reversed(z, m + q) = Reversed(b, m) * Q2 + Reversed(c, q)
  <2>1. b \in 0..(2^m - 1)
    BY <1>4 DEF M2
  <2>2. Reversed(c * 2^m + b, m + q) = Reversed(b, m) * 2^q + Reversed(c, q)
    BY <1>6, <2>1, Concatenated
  <2>3. c * M2 + b = z
    BY <1>1, <1>4, <1>6
  <2>4. QED BY <2>2, <2>3 DEF M2, Q2
<1>9. q + (m + q) = m + 2 * q
  OBVIOUS
<1>10. /\ Reversed(e, q) \in Nat /\ Reversed(b, m) \in Nat /\ Reversed(c, q) \in Nat
       /\ 2^(m + q) \in Nat
  <2>1. ASSUME NEW i \in Nat, NEW l \in Nat PROVE Reversed(i, l) \in Nat
    BY Reversals, PowerPositive
  <2>2. m + q \in Nat /\ 2^(m + q) \in Nat
    BY PowerPositive
  <2> HIDE DEF c, b, e
  <2>3. QED BY <1>6, <2>1, <2>2
<1>11. Reversed(y, m + 2 * q)
         = (Reversed(e, q) * 2^(m + q) + Reversed(b, m) * Q2) + Reversed(c, q)
  <2> DEFINE u == Reversed(e, q) * 2^(m + q)
             v == Reversed(b, m) * Q2
             w == Reversed(c, q)
  <2>1. u \in Nat /\ v \in Nat /\ w \in Nat
    BY <1>1, <1>10
  <2>2. Reversed(y, m + 2 * q) = u + (v + w)
    BY <1>7, <1>8, <1>9
  <2> HIDE DEF u, v, w
  <2>3. u + (v + w) = (u + v) + w
    BY <2>1
  <2>4. QED BY <2>2, <2>3 DEF u, v, w
<1>12. /\ y \div 2^(m + q) = c /\ (y \div 2^q) % 2^m = b /\ y % 2^q = e
  BY <1>1, <1>5 DEF Q2, M2, z, b, e
<1>13. QED BY <1>3, <1>4, <1>11, <1>12 DEF Q2, M2

\* Row i and column j of a square of n * n elements.
LEMMA RowAndColumn ==
  ASSUME NEW n \in Nat \ {0}, NEW i \in 0..(n - 1), NEW j \in 0..(n - 1)
  PROVE  /\ i * n + j \in 0..(n * n - 1)
         /\ (i * n + j) \div n = i /\ (i * n + j) % n = j
<1>1. i * n + n <= n * n
  BY SharesApart
<1> DEFINE u == i * n
           w == n * n
<1>2. u \in Nat /\ w \in Nat /\ u + n <= w /\ i \in Nat /\ u = n * i
  BY <1>1
<1>3. (n * i + j) \div n = i /\ (n * i + j) % n = j
  BY <1>2, PlaceInShare
<1> HIDE DEF u, w
<1>4. u + j \in 0..(w - 1)
  BY <1>2
<1>5. QED BY <1>2, <1>3, <1>4 DEF u, w

(***************************************************************************)
(* Element (c, e) of what cobra() makes of a block is element (rev(e), c). *)
(***************************************************************************)
LEMMA CobraElement ==
  ASSUME NEW a, DOMAIN a = 0..(2^(2 * Q) - 1), NEW c \in 0..(2^Q - 1), NEW e \in 0..(2^Q - 1)
  PROVE  /\ c * 2^Q + e \in DOMAIN a
         /\ Cobra([a |-> a, rev |-> BRC_table(Q)])[c * 2^Q + e] = a[Reversed(e, Q) * 2^Q + c]
<1> DEFINE n == 2^Q
           rev == BRC_table(Q)
           D == 0..(n * n - 1)
           Row(x) == CHOOSE i \in 0..(n - 1) : rev[i] = x
           T == [x \in D |-> a[Row(x \div n) * n + (x % n)]]
<1>1. Q \in Nat /\ n \in Nat \ {0} /\ 2^(2 * Q) = n * n
  <2>1. Q \in Nat /\ Q + Q = 2 * Q
    BY CobraAssumption
  <2>2. 2^(Q + Q) = 2^Q * 2^Q
    BY <2>1, PowerSum
  <2>3. QED BY <2>1, <2>2, PowerPositive
<1>2. DOMAIN a = D
  BY <1>1
<1>3. ASSUME NEW x \in 0..(n - 1) PROVE Row(x) = Reversed(x, Q) /\ Reversed(x, Q) \in 0..(n - 1)
  <2>1. Reversed(x, Q) \in 0..(n - 1) /\ \A i \in 0..(n - 1) : rev[i] = x <=> i = Reversed(x, Q)
    BY <1>1, PlaceInTable
  <2> HIDE DEF rev, n
  <2>2. QED BY <2>1
<1>4. Cobra([a |-> a, rev |-> rev]) = [x \in D |-> T[(x % n) * n + (x \div n)]]
  <2> DEFINE m == [a |-> a, rev |-> rev]
  <2>1. m.a = a /\ m.rev = rev
    OBVIOUS
  <2> HIDE DEF m, rev
  <2>2. Cobra(m) = [x \in DOMAIN m.a |->
                      [z \in DOMAIN m.a |->
                         m.a[(CHOOSE i \in 0..(n - 1) : m.rev[i] = z \div n) * n + (z % n)]]
                        [(x % n) * n + (x \div n)]]
    BY DEF Cobra
  <2> HIDE DEF n, D
  <2>3. Cobra(m) = [x \in D |-> T[(x % n) * n + (x \div n)]]
    BY <1>2, <2>1, <2>2
  <2>4. QED BY <2>3 DEF m
<1> HIDE DEF Row, rev
<1>5. ASSUME NEW i \in 0..(n - 1), NEW j \in 0..(n - 1)
      PROVE  /\ i * n + j \in D
             /\ (i * n + j) \div n = i /\ (i * n + j) % n = j
  <2> HIDE DEF n
  <2>1. QED BY <1>1, RowAndColumn
<1> HIDE DEF D, n
<1>6. c \in 0..(n - 1) /\ e \in 0..(n - 1)
  BY DEF n
<1>7. c * n + e \in D /\ (c * n + e) \div n = c /\ (c * n + e) % n = e
  BY <1>5, <1>6
<1>8. e * n + c \in D /\ (e * n + c) \div n = e /\ (e * n + c) % n = c
  BY <1>5, <1>6
<1>9. T[e * n + c] = a[Row(e) * n + c]
  BY <1>8
<1>10. Cobra([a |-> a, rev |-> rev])[c * n + e] = T[e * n + c]
  <2> HIDE DEF T
  <2>1. QED BY <1>4, <1>7
<1>11. Row(e) = Reversed(e, Q)
  BY <1>3, <1>6
<1>12. QED BY <1>2, <1>7, <1>9, <1>10, <1>11 DEF n, rev

--------------------------------------------------------------------------------
Planned(t) == pc[t] \in {"alloc", "send", "wait", "free"}

Labels ==
  {"call", "copy", "check", "plan_dpus", "plan_iterations", "alloc", "send", "wait", "free",
   "done", "thrown", "abort"}

TypeOK ==
  /\ pc \in [Threads -> Labels]
  /\ method \in [Threads -> Methods] /\ k \in [Threads -> Ks]
  /\ nr_dpus \in [Threads -> Nat] /\ nr_iterations \in [Threads -> Nat \ {0}]
  /\ iteration \in [Threads -> Nat]
  /\ DOMAIN mram = Threads /\ DOMAIN running = Threads
  /\ free \in Int

(***************************************************************************)
(* What a thread's plan is at each of its labels.                          *)
(***************************************************************************)
PlanOf(t) ==
  /\ pc[t] = "call" => nr_iterations[t] = 1
  /\ pc[t] \in {"plan_dpus", "plan_iterations"} => IsCobra(t)
  /\ pc[t] = "plan_dpus" =>
       /\ nr_iterations[t] = 1
       /\ \E i, j \in Nat : nr_dpus[t] = 2^i /\ loops(t) = nr_dpus[t] * 2^j
  /\ pc[t] = "plan_iterations" =>
       /\ nr_dpus[t] \in 1..NR_DPUS
       /\ \E j \in Nat : loops(t) = nr_dpus[t] * nr_iterations[t] * 2^j
  /\ pc[t] \in {"copy", "check"} => ~IsCobra(t) /\ nr_dpus[t] = 1
  /\ Planned(t) =>
       /\ nr_dpus[t] \in 1..NR_DPUS
       /\ IsCobra(t) => loops(t) = nr_dpus[t] * nr_iterations[t]

\* An iteration is begun only as long as some are left.
IterationOf(t) ==
  /\ pc[t] \in {"call", "check", "plan_dpus", "plan_iterations", "alloc"} => iteration[t] = 0
  /\ pc[t] \in {"send", "wait"} => iteration[t] < nr_iterations[t]

\* A thread has its DPUs from dpu_alloc to dpu_free, and no others.
HoldsOf(t) == DOMAIN mram[t] = IF Holding(t) THEN Dpus(t) ELSE {}

Inv ==
  /\ TypeOK
  /\ \A t \in Threads : PlanOf(t) /\ IterationOf(t)
  /\ \A t \in Threads : HoldsOf(t)
  /\ free + Cardinality(Allocated) = AVAILABLE_DPUS

(***************************************************************************)
(* A thread's tables are built or not, and from its first step on those    *)
(* its call looks up are.                                                  *)
(***************************************************************************)
TablesHeld(t) ==
  /\ DOMAIN brc_mem[t] = 0..Max(Ks)
  /\ \A j \in 0..Max(Ks) : brc_mem[t][j] \in {<<>>, BRC_table(j)}
  /\ pc[t] # "call" => \A j \in TablesOf(t) : brc_mem[t][j] = BRC_table(j)

(***************************************************************************)
(* The block of A that position y of B gets its element from, and whether  *)
(* it has: the iterations before this one brought the first blocks.        *)
(***************************************************************************)
BlockAt(t, y) == Reversed((y \div 2^Q) % 2^k1(t), k1(t))
Brought(t, y) ==
  \/ pc[t] \in {"free", "done"}
  \/ pc[t] \in {"send", "wait"} /\ IsCobra(t) /\ BlockAt(t, y) < iteration[t] * nr_dpus[t]

Positions(t) == 0..(2^k[t] - 1)
ResultOf(t) ==
  B[t] = [y \in Positions(t) |->
            IF Brought(t, y) THEN A(t)[Reversed(y, k[t])] ELSE <<"B", t, y>>]

(***************************************************************************)
(* What a thread has sent to its DPU d, and what the DPU makes of it.      *)
(***************************************************************************)
SentTo(t, d) ==
  IF IsCobra(t) THEN [a |-> BlockOfA(t, Block(t, d)), rev |-> BRC_table(Q)]
  ELSE [a |-> A(t), rev |-> BRC_table(k[t])]
MadeBy(t, d) ==
  [b |-> IF IsCobra(t) THEN Cobra(SentTo(t, d))
         ELSE Scatter(SentTo(t, d).rev, SentTo(t, d).a, SentTo(t, d).a)]
MemoryOf(t) ==
  pc[t] = "wait" =>
    \A d \in Dpus(t) : mram[t][d] = IF d \in running[t] THEN SentTo(t, d) ELSE MadeBy(t, d)

DataInv ==
  /\ DOMAIN brc_mem = Threads /\ DOMAIN B = Threads
  /\ \A t \in Threads : TablesHeld(t) /\ ResultOf(t) /\ MemoryOf(t)

CopyInv == Inv /\ DataInv

--------------------------------------------------------------------------------
\* A thread's k1 is positive where COBRA is used, and its blocks a power of two.
LEMMA CobraBlocks ==
  ASSUME TypeOK, NEW t \in Threads, IsCobra(t)
  PROVE  k1(t) \in Nat \ {0} /\ ~IsBasic(t)
<1>1. k[t] \in Nat /\ THRESH \in Nat /\ Q \in Nat /\ THRESH >= 2 * Q
  BY CobraAssumption DEF TypeOK
<1>2. k[t] > THRESH
  BY DEF IsCobra
<1>3. QED BY <1>1, <1>2 DEF k1, IsBasic

\* The plan of a thread that does not move in a step stays as it is.
LEMMA PlanKept ==
  ASSUME NEW t \in Threads, PlanOf(t),
         pc'[t] = pc[t], nr_dpus'[t] = nr_dpus[t], nr_iterations'[t] = nr_iterations[t],
         UNCHANGED call
  PROVE  PlanOf(t)'
<1>1. (IsCobra(t)' <=> IsCobra(t)) /\ loops(t)' = loops(t)
  BY DEF call, IsCobra, loops, k1
<1>2. QED BY <1>1 DEF PlanOf, Planned

\* The plan starts with a DPU for every block, or with one DPU for the whole array.
LEMMA TablesPlan ==
  ASSUME TypeOK, NEW t \in Threads, PlanOf(t), Tables(t)
  PROVE  PlanOf(t)'
<1>1. nr_dpus'[t] = (IF IsCobra(t) THEN 2^k1(t) ELSE 1) /\ nr_iterations'[t] = 1
  BY DEF Tables, TypeOK, PlanOf, At
<1>2. pc'[t] = (IF IsBasic(t) THEN "copy" ELSE IF IsCobra(t) THEN "plan_dpus" ELSE "check")
  BY DEF Tables, TypeOK, Goto
<1>3. (IsCobra(t)' <=> IsCobra(t)) /\ loops(t)' = loops(t)
  BY DEF Tables, call, IsCobra, loops, k1
<1>4. CASE IsCobra(t)
  <2>1. k1(t) \in Nat /\ 2^k1(t) \in Nat
    BY <1>4, CobraBlocks, PowerPositive
  <2>2. loops(t) = 2^k1(t) * 2^0
    BY <2>1 DEF loops
  <2>3. pc'[t] = "plan_dpus"
    BY <1>2, <1>4, CobraBlocks
  <2>4. QED BY <1>1, <1>3, <1>4, <2>1, <2>2, <2>3 DEF PlanOf, Planned
<1>5. CASE ~IsCobra(t)
  <2>1. nr_dpus'[t] = 1 /\ pc'[t] \in {"copy", "check"}
    BY <1>1, <1>2, <1>5
  <2>2. QED BY <1>3, <1>5, <2>1 DEF PlanOf, Planned
<1>6. QED BY <1>4, <1>5

\* The DPUs stay a divisor of the blocks while they are halved.
LEMMA PlanDpusPlan ==
  ASSUME TypeOK, NEW t \in Threads, PlanOf(t), PlanDpus(t)
  PROVE  PlanOf(t)'
<1>1. PICK i \in Nat, j \in Nat : nr_dpus[t] = 2^i /\ loops(t) = nr_dpus[t] * 2^j
  BY DEF PlanDpus, At, PlanOf
<1>2. /\ (IsCobra(t)' <=> IsCobra(t)) /\ loops(t)' = loops(t) /\ IsCobra(t)
      /\ nr_iterations'[t] = 1 /\ nr_iterations[t] = 1
  BY DEF PlanDpus, At, PlanOf, call, IsCobra, loops, k1
<1>3. 2^i \in Nat \ {0} /\ 2^j \in Nat \ {0}
  BY PowerPositive
<1>4. CASE nr_dpus[t] > NR_DPUS
  <2>1. i # 0
    <3>1. SUFFICES ASSUME i = 0 PROVE FALSE
      OBVIOUS
    <3>2. QED BY <1>1, <1>4, <3>1, PowerZero, CobraAssumption
  <2>2. 2^i = 2 * 2^(i - 1) /\ 2^(i - 1) \in Nat \ {0} /\ 2^(j + 1) = 2 * 2^j
    <3>1. i - 1 \in Nat /\ (i - 1) + 1 = i
      BY <2>1
    <3>2. QED BY <3>1, PowerDoubles, PowerPositive
  <2>3. nr_dpus'[t] = 2^(i - 1) /\ pc'[t] = "plan_dpus"
    BY <1>1, <1>4, <2>2 DEF PlanDpus, At, TypeOK
  <2>4. loops(t) = 2^(i - 1) * 2^(j + 1)
    BY <1>1, <1>3, <2>2
  <2>5. i - 1 \in Nat /\ j + 1 \in Nat
    BY <2>1
  <2>6. QED BY <1>2, <2>3, <2>4, <2>5 DEF PlanOf, Planned
<1>5. CASE ~(nr_dpus[t] > NR_DPUS)
  <2>1. nr_dpus'[t] = nr_dpus[t] /\ pc'[t] = "plan_iterations"
    BY <1>5 DEF PlanDpus, At, TypeOK, Goto
  <2>2. nr_dpus[t] \in 1..NR_DPUS
    BY <1>1, <1>3, <1>5, CobraAssumption
  <2>3. loops(t) = nr_dpus[t] * 1 * 2^j
    BY <1>1, <1>3
  <2>4. QED BY <1>2, <2>1, <2>2, <2>3 DEF PlanOf, Planned
<1>6. QED BY <1>4, <1>5

\* The iterations are doubled until nothing of the blocks is left over.
LEMMA PlanIterationsPlan ==
  ASSUME TypeOK, NEW t \in Threads, PlanOf(t), PlanIterations(t)
  PROVE  PlanOf(t)'
<1> DEFINE n == nr_dpus[t]
           m == nr_iterations[t]
<1>1. PICK j \in Nat : loops(t) = n * m * 2^j
  BY DEF PlanIterations, At, PlanOf
<1>2. /\ (IsCobra(t)' <=> IsCobra(t)) /\ loops(t)' = loops(t) /\ IsCobra(t)
      /\ nr_dpus'[t] = n /\ n \in 1..NR_DPUS /\ m \in Nat \ {0}
  BY DEF PlanIterations, At, PlanOf, call, IsCobra, loops, k1, TypeOK
<1>3. n \in Nat \ {0} /\ 2^j \in Nat \ {0}
  BY <1>2, PowerPositive, CobraAssumption
<1>4. loops(t) \div m = n * 2^j
  <2>1. n * 2^j \in Nat /\ n * m * 2^j = m * (n * 2^j)
    BY <1>2, <1>3
  <2>2. QED BY <1>1, <1>2, <2>1, ExactDiv
<1>5. CASE loops(t) \div m > n
  <2>1. j # 0
    <3>1. SUFFICES ASSUME j = 0 PROVE FALSE
      OBVIOUS
    <3>2. QED BY <1>3, <1>4, <1>5, <3>1, PowerZero
  <2>2. 2^j = 2 * 2^(j - 1) /\ 2^(j - 1) \in Nat /\ j - 1 \in Nat
    <3>1. j - 1 \in Nat /\ (j - 1) + 1 = j
      BY <2>1
    <3>2. QED BY <3>1, PowerDoubles, PowerPositive
  <2>3. nr_iterations'[t] = 2 * m /\ pc'[t] = "plan_iterations"
    BY <1>5 DEF PlanIterations, At, TypeOK
  <2>4. loops(t) = n * (2 * m) * 2^(j - 1)
    BY <1>1, <1>2, <1>3, <2>2
  <2>5. QED BY <1>2, <2>2, <2>3, <2>4 DEF PlanOf, Planned
<1>6. CASE ~(loops(t) \div m > n)
  <2>1. nr_iterations'[t] = m /\ pc'[t] = "alloc"
    BY <1>6 DEF PlanIterations, At, TypeOK, Goto
  <2>2. j = 0
    <3>1. SUFFICES ASSUME j # 0 PROVE FALSE
      OBVIOUS
    <3>2. 2^j = 2 * 2^(j - 1) /\ 2^(j - 1) \in Nat \ {0}
      <4>1. j - 1 \in Nat /\ (j - 1) + 1 = j
        BY <3>1
      <4>2. QED BY <4>1, PowerDoubles, PowerPositive
    <3>3. 2^j >= 2
      BY <3>2
    <3>4. n * (2^j - 2) >= 0
      BY <1>3, <3>3
    <3>5. n * 2^j >= 2 * n
      BY <1>3, <3>4
    <3>6. QED BY <1>3, <1>4, <1>6, <3>5
  <2>3. loops(t) = n * m
    BY <1>1, <1>2, <2>2
  <2>4. QED BY <1>2, <2>1, <2>3 DEF PlanOf, Planned
<1>7. QED BY <1>5, <1>6

(***************************************************************************)
(* What a step of one thread leaves to the others.                         *)
(***************************************************************************)
Step(u) == Host(u) \/ \E d \in running[u] : RunDpu(u, d)

\* The plan, the memory and the label of the other threads.
LEMMA OthersKept ==
  ASSUME TypeOK, NEW t \in Threads, NEW u \in Threads, t # u, Step(u)
  PROVE  /\ pc'[t] = pc[t] /\ nr_dpus'[t] = nr_dpus[t]
         /\ nr_iterations'[t] = nr_iterations[t] /\ mram'[t] = mram[t]
         /\ iteration'[t] = iteration[t]
         /\ UNCHANGED call
<1>1. CASE Tables(u)
  BY <1>1 DEF Tables, Goto, TypeOK
<1>2. CASE Copy(u)
  BY <1>2 DEF Copy, Goto, TypeOK, plan
<1>3. CASE Check(u)
  BY <1>3 DEF Check, Goto, TypeOK, plan
<1>4. CASE PlanDpus(u)
  BY <1>4 DEF PlanDpus, Goto, TypeOK
<1>5. CASE PlanIterations(u)
  BY <1>5 DEF PlanIterations, Goto, TypeOK
<1>6. CASE Alloc(u)
  BY <1>6 DEF Alloc, Goto, TypeOK, plan
<1>7. CASE Send(u)
  BY <1>7 DEF Send, Goto, TypeOK, plan
<1>8. CASE Receive(u)
  BY <1>8 DEF Receive, Goto, TypeOK, plan
<1>9. CASE Free(u)
  BY <1>9 DEF Free, Goto, TypeOK, plan
<1>10. ASSUME NEW d \in running[u], RunDpu(u, d)
       PROVE  /\ pc'[t] = pc[t] /\ nr_dpus'[t] = nr_dpus[t]
              /\ nr_iterations'[t] = nr_iterations[t] /\ mram'[t] = mram[t]
              /\ iteration'[t] = iteration[t]
              /\ UNCHANGED call
  BY <1>10 DEF RunDpu, TypeOK, plan
<1>11. QED
  BY <1>1, <1>2, <1>3, <1>4, <1>5, <1>6, <1>7, <1>8, <1>9, <1>10 DEF Step, Host

\* Every step keeps the types.
LEMMA TypeStep == ASSUME TypeOK, NEW u \in Threads, Step(u) PROVE TypeOK'
<1>1. CASE Tables(u)
  <2>1. CASE IsCobra(u)
    <3>1. 2^k1(u) \in Nat
      BY <2>1, CobraBlocks, PowerPositive
    <3>2. QED BY <1>1, <2>1, <3>1 DEF Tables, Goto, TypeOK, Labels, call
  <2>2. CASE ~IsCobra(u)
    BY <1>1, <2>2 DEF Tables, Goto, TypeOK, Labels, call
  <2>3. QED BY <2>1, <2>2
<1>2. CASE Copy(u)
  BY <1>2 DEF Copy, Goto, TypeOK, Labels, plan, call
<1>3. CASE Check(u)
  BY <1>3 DEF Check, Goto, TypeOK, Labels, plan, call
<1>4. CASE PlanDpus(u)
  BY <1>4 DEF PlanDpus, Goto, TypeOK, Labels, call
<1>5. CASE PlanIterations(u)
  BY <1>5 DEF PlanIterations, Goto, TypeOK, Labels, call
<1>6. CASE Alloc(u)
  <2>1. UNCHANGED <<method, k, nr_dpus, nr_iterations, iteration, running>>
    BY <1>6 DEF Alloc, call, plan
  <2>2. pc' \in [Threads -> Labels]
    BY <1>6 DEF Alloc, Goto, TypeOK, Labels
  <2>3. DOMAIN mram' = Threads /\ free' \in Int
    BY <1>6 DEF Alloc, TypeOK
  <2>4. QED BY <2>1, <2>2, <2>3 DEF TypeOK
<1>7. CASE Send(u)
  BY <1>7 DEF Send, Goto, TypeOK, Labels, plan, call
<1>8. CASE Receive(u)
  BY <1>8 DEF Receive, Goto, TypeOK, Labels, plan, call
<1>9. CASE Free(u)
  BY <1>9 DEF Free, Goto, TypeOK, Labels, plan, call
<1>10. ASSUME NEW d \in running[u], RunDpu(u, d) PROVE TypeOK'
  BY <1>10 DEF RunDpu, TypeOK, plan, call
<1>11. QED
  BY <1>1, <1>2, <1>3, <1>4, <1>5, <1>6, <1>7, <1>8, <1>9, <1>10 DEF Step, Host

\* Every step of a thread keeps what is said of its plan.
LEMMA PlanStep ==
  ASSUME TypeOK, NEW u \in Threads, PlanOf(u), Step(u) PROVE PlanOf(u)'
<1>1. CASE Tables(u) \/ PlanDpus(u) \/ PlanIterations(u)
  BY <1>1, TablesPlan, PlanDpusPlan, PlanIterationsPlan
<1>2. ASSUME UNCHANGED <<call, plan>>,
             pc'[u] \in {"done", "thrown", "abort"}
               \/ (pc[u] = "check" /\ pc'[u] = "alloc")
               \/ (Planned(u) /\ Planned(u)')
      PROVE  PlanOf(u)'
  <2>1. (IsCobra(u)' <=> IsCobra(u)) /\ loops(u)' = loops(u)
    BY <1>2 DEF call, IsCobra, loops, k1
  <2>2. CASE pc'[u] \in {"done", "thrown", "abort"}
    BY <2>2 DEF PlanOf, Planned
  <2>3. CASE pc[u] = "check" /\ pc'[u] = "alloc"
    BY <1>2, <2>1, <2>3, CobraAssumption DEF PlanOf, Planned, plan
  <2>4. CASE Planned(u) /\ Planned(u)'
    BY <1>2, <2>1, <2>4 DEF PlanOf, Planned, plan
  <2>5. QED BY <1>2, <2>2, <2>3, <2>4
<1>3. CASE Copy(u)
  BY <1>2, <1>3 DEF Copy, Goto, TypeOK
<1>4. CASE Check(u)
  BY <1>2, <1>4 DEF Check, At, Goto, TypeOK
<1>5. CASE Alloc(u)
  BY <1>2, <1>5 DEF Alloc, At, Goto, TypeOK, Planned
<1>6. CASE Send(u)
  BY <1>2, <1>6 DEF Send, At, Goto, TypeOK, Planned
<1>7. CASE Receive(u)
  BY <1>2, <1>7 DEF Receive, At, Goto, TypeOK, Planned
<1>8. CASE Free(u)
  BY <1>2, <1>8 DEF Free, Goto, TypeOK
<1>9. ASSUME NEW d \in running[u], RunDpu(u, d) PROVE PlanOf(u)'
  BY <1>2, <1>9 DEF RunDpu, At, TypeOK, Planned
<1>10. QED
  BY <1>1, <1>3, <1>4, <1>5, <1>6, <1>7, <1>8, <1>9 DEF Step, Host

\* A thread gets its DPUs with dpu_alloc and gives them back with dpu_free.
LEMMA HoldsStep ==
  ASSUME TypeOK, NEW u \in Threads, HoldsOf(u), Step(u) PROVE HoldsOf(u)'
<1>1. CASE Tables(u)
  BY <1>1 DEF Tables, At, Goto, TypeOK, HoldsOf, Holding
<1>2. CASE Copy(u)
  BY <1>2 DEF Copy, At, Goto, TypeOK, HoldsOf, Holding
<1>3. CASE Check(u)
  BY <1>3 DEF Check, At, Goto, TypeOK, HoldsOf, Holding
<1>4. CASE PlanDpus(u)
  BY <1>4 DEF PlanDpus, At, Goto, TypeOK, HoldsOf, Holding
<1>5. CASE PlanIterations(u)
  BY <1>5 DEF PlanIterations, At, Goto, TypeOK, HoldsOf, Holding
<1>6. CASE Alloc(u)
  BY <1>6 DEF Alloc, At, Goto, TypeOK, HoldsOf, Holding, Dpus, plan
<1>7. CASE Send(u)
  BY <1>7 DEF Send, At, Goto, TypeOK, HoldsOf, Holding, Dpus, plan
<1>8. CASE Receive(u)
  BY <1>8 DEF Receive, At, Goto, TypeOK, HoldsOf, Holding, Dpus, plan
<1>9. CASE Free(u)
  BY <1>9 DEF Free, At, Goto, TypeOK, HoldsOf, Holding
<1>10. ASSUME NEW d \in running[u], RunDpu(u, d) PROVE HoldsOf(u)'
  BY <1>10 DEF RunDpu, At, TypeOK, HoldsOf, Holding, Dpus, plan
<1>11. QED
  BY <1>1, <1>2, <1>3, <1>4, <1>5, <1>6, <1>7, <1>8, <1>9, <1>10 DEF Step, Host

\* Another iteration is begun only if one is left.
LEMMA IterationStep ==
  ASSUME TypeOK, NEW u \in Threads, PlanOf(u), IterationOf(u), Step(u)
  PROVE  IterationOf(u)'
<1>1. CASE Tables(u)
  BY <1>1 DEF Tables, At, Goto, TypeOK, IterationOf
<1>2. CASE Copy(u)
  BY <1>2 DEF Copy, At, Goto, TypeOK, IterationOf
<1>3. CASE Check(u)
  BY <1>3 DEF Check, At, Goto, TypeOK, IterationOf
<1>4. CASE PlanDpus(u)
  BY <1>4 DEF PlanDpus, At, Goto, TypeOK, IterationOf
<1>5. CASE PlanIterations(u)
  BY <1>5 DEF PlanIterations, At, Goto, TypeOK, IterationOf
<1>6. CASE Alloc(u)
  BY <1>6 DEF Alloc, At, Goto, TypeOK, IterationOf, plan
<1>7. CASE Send(u)
  BY <1>7 DEF Send, At, Goto, TypeOK, IterationOf, plan
<1>8. CASE Receive(u)
  BY <1>8 DEF Receive, At, Goto, TypeOK, IterationOf, plan
<1>9. CASE Free(u)
  BY <1>9 DEF Free, At, Goto, TypeOK, IterationOf, plan
<1>10. ASSUME NEW d \in running[u], RunDpu(u, d) PROVE IterationOf(u)'
  BY <1>10 DEF RunDpu, At, TypeOK, IterationOf, plan
<1>11. QED
  BY <1>1, <1>2, <1>3, <1>4, <1>5, <1>6, <1>7, <1>8, <1>9, <1>10 DEF Step, Host

(***************************************************************************)
(* The DPUs the threads hold.                                              *)
(***************************************************************************)
LEMMA AllocatedFinite ==
  ASSUME TypeOK, \A t \in Threads : PlanOf(t) /\ HoldsOf(t)
  PROVE  /\ Allocated \subseteq Threads \X (0..(NR_DPUS - 1))
         /\ IsFiniteSet(Allocated) /\ Cardinality(Allocated) \in Nat
<1>1. ASSUME NEW t \in Threads PROVE DOMAIN mram[t] \subseteq 0..(NR_DPUS - 1)
  BY CobraAssumption DEF PlanOf, HoldsOf, Planned, Holding, Dpus
<1>2. Allocated \subseteq Threads \X (0..(NR_DPUS - 1))
  BY <1>1 DEF Allocated
<1>3. IsFiniteSet(Threads \X (0..(NR_DPUS - 1)))
  <2>1. IsFiniteSet(0..(NR_DPUS - 1))
    BY CobraAssumption, FS_Interval
  <2>2. QED BY <2>1, CobraAssumption, FS_Product
<1>4. QED BY <1>2, <1>3, FS_Subset, FS_CardinalityType

\* One thread's DPUs, n of them.
LEMMA DpusOfOne ==
  ASSUME NEW t, NEW n \in Nat
  PROVE  /\ IsFiniteSet({t} \X (0..(n - 1)))
         /\ Cardinality({t} \X (0..(n - 1))) = n
<1>1. IsFiniteSet({t}) /\ Cardinality({t}) = 1
  BY FS_Singleton
<1>2. IsFiniteSet(0..(n - 1)) /\ Cardinality(0..(n - 1)) = n
  BY FS_Interval
<1>3. QED BY <1>1, <1>2, FS_Product

\* dpu_alloc adds nr_dpus DPUs to those held before.
LEMMA AllocPool ==
  ASSUME Inv, NEW u \in Threads, Alloc(u), nr_dpus[u] <= free
  PROVE  (free + Cardinality(Allocated) = AVAILABLE_DPUS)'
<1> DEFINE n == nr_dpus[u]
           new == {u} \X (0..(n - 1))
<1>1. n \in Nat /\ free' = free - n /\ mram' = [mram EXCEPT ![u] = [d \in 0..(n - 1) |-> <<>>]]
  BY DEF Inv, TypeOK, Alloc, Dpus
<1>2. DOMAIN mram[u] = {}
  BY DEF Inv, HoldsOf, Holding, Alloc, At
<1>3. Allocated' = Allocated \cup new
  <2>1. \A t \in Threads : DOMAIN mram'[t] = IF t = u THEN 0..(n - 1) ELSE DOMAIN mram[t]
    BY <1>1 DEF Inv, TypeOK
  <2>2. QED BY <1>2, <2>1 DEF Allocated
<1>4. Allocated \cap new = {}
  BY <1>2 DEF Allocated
<1>5. IsFiniteSet(Allocated) /\ Cardinality(Allocated) \in Nat
  BY AllocatedFinite DEF Inv
<1>6. IsFiniteSet(new) /\ Cardinality(new) = n
  BY <1>1, DpusOfOne
<1> HIDE DEF n, new
<1>7. Cardinality(Allocated') = Cardinality(Allocated) + n
  <2>1. Cardinality(Allocated \cup new) = Cardinality(Allocated) + n - Cardinality({})
    BY <1>4, <1>5, <1>6, FS_Union
  <2>2. QED BY <1>1, <1>3, <1>5, <2>1, FS_EmptySet
<1>8. QED BY <1>1, <1>5, <1>7, CobraAssumption DEF Inv, TypeOK

\* dpu_free takes them away again.
LEMMA FreePool ==
  ASSUME Inv, NEW u \in Threads, Free(u)
  PROVE  (free + Cardinality(Allocated) = AVAILABLE_DPUS)'
<1> DEFINE n == nr_dpus[u]
           old == {u} \X (0..(n - 1))
<1>1. n \in Nat /\ free' = free + n /\ mram' = [mram EXCEPT ![u] = <<>>]
  BY DEF Inv, TypeOK, Free
<1>2. DOMAIN mram[u] = 0..(n - 1)
  BY DEF Inv, HoldsOf, Holding, Free, At, Dpus
<1>3. Allocated' = Allocated \ old /\ Allocated \cap old = old
  <2>1. \A t \in Threads : DOMAIN mram'[t] = IF t = u THEN {} ELSE DOMAIN mram[t]
    BY <1>1 DEF Inv, TypeOK
  <2>2. \A e : e \in Allocated' <=> \E t \in Threads \ {u} : \E d \in DOMAIN mram[t] : e = <<t, d>>
    BY <2>1 DEF Allocated
  <2>3. \A e : e \in Allocated' <=> e \in Allocated /\ e \notin old
    <3>1. \A e : e \in Allocated <=> \E t \in Threads : \E d \in DOMAIN mram[t] : e = <<t, d>>
      BY DEF Allocated
    <3>2. \A e : e \in old <=> \E d \in DOMAIN mram[u] : e = <<u, d>>
      BY <1>2
    <3> HIDE DEF old
    <3>3. QED BY <2>2, <3>1, <3>2
  <2>4. \A e : e \in old => e \in Allocated
    BY <1>2 DEF Allocated
  <2> HIDE DEF old
  <2>5. QED BY <2>3, <2>4
<1>4. IsFiniteSet(Allocated) /\ Cardinality(Allocated) \in Nat
  BY AllocatedFinite DEF Inv
<1>5. Cardinality(old) = n
  BY <1>1, DpusOfOne
<1>6. Cardinality(Allocated') = Cardinality(Allocated) - n
  <2> HIDE DEF n, old
  <2>1. Cardinality(Allocated \ old) = Cardinality(Allocated) - Cardinality(Allocated \cap old)
    BY <1>4, FS_Difference
  <2>2. QED BY <1>3, <1>5, <2>1
<1>7. QED BY <1>1, <1>4, <1>6, CobraAssumption DEF Inv, TypeOK

\* Every step keeps the number of the DPUs that are free or held.
LEMMA PoolStep ==
  ASSUME Inv, NEW u \in Threads, Step(u)
  PROVE  (free + Cardinality(Allocated) = AVAILABLE_DPUS)'
<1>1. ASSUME free' = free, \A t \in Threads : DOMAIN mram'[t] = DOMAIN mram[t]
      PROVE  (free + Cardinality(Allocated) = AVAILABLE_DPUS)'
  <2>1. Allocated' = Allocated
    BY <1>1 DEF Allocated
  <2>2. QED BY <1>1, <2>1 DEF Inv
<1>2. CASE Tables(u)
  BY <1>1, <1>2 DEF Tables
<1>3. CASE Copy(u)
  BY <1>1, <1>3 DEF Copy
<1>4. CASE Check(u)
  BY <1>1, <1>4 DEF Check
<1>5. CASE PlanDpus(u)
  BY <1>1, <1>5 DEF PlanDpus
<1>6. CASE PlanIterations(u)
  BY <1>1, <1>6 DEF PlanIterations
<1>7. CASE Alloc(u)
  <2>1. CASE nr_dpus[u] <= free
    BY <1>7, <2>1, AllocPool
  <2>2. CASE ~(nr_dpus[u] <= free)
    BY <1>1, <1>7, <2>2 DEF Alloc
  <2>3. QED BY <2>1, <2>2
<1>8. CASE Send(u)
  BY <1>1, <1>8 DEF Send, At, Inv, TypeOK, HoldsOf, Holding, Dpus
<1>9. CASE Receive(u)
  BY <1>1, <1>9 DEF Receive
<1>10. CASE Free(u)
  BY <1>10, FreePool
<1>11. ASSUME NEW d \in running[u], RunDpu(u, d)
       PROVE  (free + Cardinality(Allocated) = AVAILABLE_DPUS)'
  BY <1>1, <1>11 DEF RunDpu, Inv, TypeOK
<1>12. QED
  BY <1>2, <1>3, <1>4, <1>5, <1>6, <1>7, <1>8, <1>9, <1>10, <1>11 DEF Step, Host

\* At first no plan is made and no DPU held.
LEMMA InvInit == Init => Inv
<1>1. SUFFICES ASSUME Init PROVE Inv
  OBVIOUS
<1>2. TypeOK
  BY <1>1, CobraAssumption DEF Init, TypeOK, Labels
<1>3. ASSUME NEW t \in Threads PROVE PlanOf(t) /\ IterationOf(t) /\ HoldsOf(t)
  BY <1>1, <1>3 DEF Init, PlanOf, IterationOf, HoldsOf, Planned, Holding
<1>4. Allocated = {}
  BY <1>1 DEF Init, Allocated
<1>5. QED BY <1>1, <1>2, <1>3, <1>4, FS_EmptySet, CobraAssumption DEF Init, Inv

\* The invariant of the plan and the DPUs is inductive.
LEMMA InvStep == Inv /\ [Next]_vars => Inv'
<1>1. ASSUME Inv, NEW u \in Threads, Step(u) PROVE Inv'
  <2>1. TypeOK'
    BY <1>1, TypeStep DEF Inv
  <2>2. ASSUME NEW t \in Threads PROVE PlanOf(t)' /\ IterationOf(t)' /\ HoldsOf(t)'
    <3>1. CASE t = u
      BY <1>1, <3>1, PlanStep, IterationStep, HoldsStep DEF Inv
    <3>2. CASE t # u
      <4>1. /\ pc'[t] = pc[t] /\ nr_dpus'[t] = nr_dpus[t]
            /\ nr_iterations'[t] = nr_iterations[t] /\ mram'[t] = mram[t]
            /\ iteration'[t] = iteration[t]
            /\ UNCHANGED call
        BY <1>1, <3>2, OthersKept DEF Inv
      <4>2. PlanOf(t)'
        BY <1>1, <4>1, PlanKept DEF Inv
      <4>3. QED BY <1>1, <4>1, <4>2 DEF Inv, IterationOf, HoldsOf, Holding, Dpus
    <3>3. QED BY <3>1, <3>2
  <2>3. QED BY <1>1, <2>1, <2>2, PoolStep DEF Inv
<1>2. ASSUME Inv, UNCHANGED vars PROVE Inv'
  <2>1. UNCHANGED <<pc, method, k, nr_dpus, nr_iterations, iteration, mram, running, free>>
    BY <1>2 DEF vars, call, plan
  <2>2. TypeOK' /\ Allocated' = Allocated
    BY <1>2, <2>1 DEF Inv, TypeOK, Allocated
  <2>3. ASSUME NEW t \in Threads PROVE PlanOf(t)' /\ IterationOf(t)' /\ HoldsOf(t)'
    BY <1>2, <2>1, PlanKept DEF Inv, IterationOf, HoldsOf, Holding, Dpus, call
  <2>4. QED BY <1>2, <2>1, <2>2, <2>3 DEF Inv
<1>3. QED BY <1>1, <1>2 DEF Next, Stopped, Step

\* Plans and DPUs, from any call to the return of all of them (helib_c_modulus_dpu.cpp:84-213).
THEOREM Invariance == Spec => []Inv
<1>1. QED BY InvInit, InvStep, PTL DEF Spec

(***************************************************************************)
(* COBRA's plan has no block left over and none twice, on at most NR_DPUS  *)
(* DPUs: for every length of the array and every NR_DPUS, which need not   *)
(* be a power of two (helib_c_modulus_dpu.cpp:152-162).                    *)
(***************************************************************************)
THEOREM PlansEven == Spec => []EvenPlan
<1>1. Inv => EvenPlan
  <2>1. SUFFICES ASSUME Inv, NEW t \in Threads, Holding(t), IsCobra(t)
                 PROVE  /\ nr_dpus[t] \in 1..NR_DPUS
                        /\ nr_dpus[t] * nr_iterations[t] = loops(t)
                        /\ pc[t] # "free" => \A d \in Dpus(t) : Block(t, d) \in 0..(loops(t) - 1)
    BY DEF EvenPlan
  <2> DEFINE n == nr_dpus[t]
             m == nr_iterations[t]
             i == iteration[t]
  <2>2. /\ n \in 1..NR_DPUS /\ n * m = loops(t) /\ n \in Nat /\ m \in Nat /\ i \in Nat
        /\ pc[t] # "free" => i < m
    BY <2>1 DEF Inv, TypeOK, PlanOf, IterationOf, Planned, Holding
  <2>3. ASSUME i < m, NEW d \in 0..(n - 1) PROVE d + i * n \in 0..(n * m - 1)
    <3>1. i * n + n <= m * n
      BY <2>2, <2>3, SharesApart
    <3> HIDE DEF n, m, i
    <3>2. i * n \in Nat /\ m * n = n * m /\ n * m \in Nat
      BY <2>2
    <3>3. QED BY <2>2, <3>1, <3>2
  <2>4. QED BY <2>2, <2>3 DEF Dpus, Block
<1>2. QED BY <1>1, Invariance, PTL

(***************************************************************************)
(* Every DPU is free or held by a thread that is between its dpu_alloc and *)
(* its dpu_free, whatever the threads do meanwhile.                        *)
(***************************************************************************)
THEOREM PoolAlwaysConserved == Spec => []PoolConserved
<1>1. Inv => PoolConserved
  BY DEF Inv, PoolConserved, HoldsOf, Holding, Returned
<1>2. QED BY <1>1, Invariance, PTL

(***************************************************************************)
(* A machine with NR_DPUS DPUs for every thread never lets dpu_alloc fail: *)
(* the other threads hold at most NR_DPUS each, and the caller none.       *)
(***************************************************************************)
LEMMA EnoughFree ==
  ASSUME Inv, Cardinality(Threads) * NR_DPUS <= AVAILABLE_DPUS,
         NEW u \in Threads, pc[u] = "alloc"
  PROVE  nr_dpus[u] <= free
<1> DEFINE others == (Threads \ {u}) \X (0..(NR_DPUS - 1))
           rest == Threads \ {u}
           n == Cardinality(Threads)
           c == Cardinality(Allocated)
<1>1. /\ Allocated \subseteq Threads \X (0..(NR_DPUS - 1))
      /\ c \in Nat
  BY AllocatedFinite DEF Inv
<1>2. DOMAIN mram[u] = {}
  BY DEF Inv, HoldsOf, Holding
<1>3. Allocated \subseteq others
  BY <1>1, <1>2 DEF Allocated
<1>4. n \in Nat /\ IsFiniteSet(Threads \ {u}) /\ Cardinality(Threads \ {u}) = n - 1
  BY CobraAssumption, FS_RemoveElement, FS_CardinalityType
<1>5. IsFiniteSet(0..(NR_DPUS - 1)) /\ Cardinality(0..(NR_DPUS - 1)) = NR_DPUS
  BY CobraAssumption, FS_Interval
<1>6. IsFiniteSet(others) /\ Cardinality(others) = (n - 1) * NR_DPUS
  <2>1. IsFiniteSet(rest) /\ Cardinality(rest) = n - 1
    BY <1>4
  <2> DEFINE dpus == 0..(NR_DPUS - 1)
  <2>2. IsFiniteSet(dpus) /\ Cardinality(dpus) = NR_DPUS
    BY <1>5
  <2> HIDE DEF rest, n, dpus
  <2>3. IsFiniteSet(rest \X dpus) /\ Cardinality(rest \X dpus) = Cardinality(rest) * Cardinality(dpus)
    BY <2>1, <2>2, FS_Product
  <2>4. QED BY <2>1, <2>2, <2>3 DEF rest, dpus
<1>7. c <= (n - 1) * NR_DPUS
  BY <1>3, <1>6, FS_Subset
<1>8. (n - 1) * NR_DPUS = n * NR_DPUS - NR_DPUS
  BY <1>4, CobraAssumption
<1>9. nr_dpus[u] \in Nat /\ nr_dpus[u] <= NR_DPUS /\ free \in Int
  BY CobraAssumption DEF Inv, PlanOf, Planned, TypeOK
<1>10. free + c = AVAILABLE_DPUS /\ AVAILABLE_DPUS \in Nat /\ NR_DPUS \in Nat
  BY CobraAssumption DEF Inv
<1> HIDE DEF n, c
<1>11. n * NR_DPUS \in Nat
  BY <1>4, <1>10
<1>12. QED BY <1>1, <1>7, <1>8, <1>9, <1>10, <1>11 DEF n

\* Hence no dpu_alloc ends the program on such a machine (DPU_ASSERT, helib_c_modulus_dpu.cpp:105,
\* 166).
THEOREM NeverAborts == Spec => []NoAbort
<1>1. Init => NoAbort
  BY DEF Init, NoAbort, Aborted
<1>2. Inv /\ NoAbort /\ [Next]_vars => NoAbort'
  <2>1. SUFFICES ASSUME Inv, NoAbort, [Next]_vars,
                        Cardinality(Threads) * NR_DPUS <= AVAILABLE_DPUS,
                        NEW t \in Threads, pc'[t] = "abort"
                 PROVE  FALSE
    BY DEF NoAbort, Aborted
  <2>2. pc[t] # "abort"
    BY <2>1 DEF NoAbort, Aborted
  <2>3. PICK u \in Threads : Step(u)
    BY <2>1, <2>2 DEF Next, Stopped, Step, vars
  <2>4. u = t
    BY <2>1, <2>2, <2>3, OthersKept DEF Inv
  <2>5. Alloc(t) /\ ~(nr_dpus[t] <= free)
    <3>1. t \in DOMAIN pc /\ TypeOK
      BY <2>1 DEF Inv, TypeOK
    <3>2. QED
      BY <2>1, <2>2, <2>3, <2>4, <3>1
         DEF Step, Host, Tables, Copy, Check, PlanDpus, PlanIterations, Alloc, Send,
             Receive, Free, RunDpu, Goto
  <2>6. QED BY <2>1, <2>5, EnoughFree DEF Alloc, At
<1>3. QED BY <1>1, <1>2, Invariance, PTL DEF Spec

--------------------------------------------------------------------------------
\* A finite set of numbers has a bound.
LEMMA FiniteBounded ==
  ASSUME NEW S \in SUBSET Nat, IsFiniteSet(S)
  PROVE  \E b \in Nat : \A x \in S : x <= b
<1> DEFINE Bounded(T) == \E b \in Nat : \A x \in T : x <= b
           N == {n \in Nat : \A T \in SUBSET Nat :
                               IsFiniteSet(T) /\ Cardinality(T) = n => Bounded(T)}
<1>1. 0 \in N
  <2>1. ASSUME NEW T \in SUBSET Nat, IsFiniteSet(T), Cardinality(T) = 0 PROVE Bounded(T)
    <3>1. T = {}
      BY <2>1, FS_EmptySet
    <3>2. QED BY <3>1
  <2>2. QED BY <2>1
<1>2. ASSUME NEW n \in N PROVE n + 1 \in N
  <2>1. SUFFICES ASSUME NEW T \in SUBSET Nat, IsFiniteSet(T), Cardinality(T) = n + 1
                 PROVE  Bounded(T)
    OBVIOUS
  <2>2. PICK y \in T : TRUE
    <3>1. n + 1 # 0
      OBVIOUS
    <3>2. T # {}
      BY <2>1, <3>1, FS_EmptySet
    <3>3. QED BY <3>2
  <2>3. IsFiniteSet(T \ {y}) /\ Cardinality(T \ {y}) = n
    <3>1. IsFiniteSet(T \ {y}) /\ Cardinality(T \ {y}) = Cardinality(T) - 1
      BY <2>1, <2>2, FS_RemoveElement
    <3>2. n \in Nat /\ (n + 1) - 1 = n
      OBVIOUS
    <3>3. QED BY <2>1, <3>1, <3>2
  <2>4. T \ {y} \in SUBSET Nat
    OBVIOUS
  <2>5. PICK b \in Nat : \A x \in T \ {y} : x <= b
    BY <1>2, <2>3, <2>4
  <2>6. \A x \in T : x <= b + y
    BY <2>5
  <2>7. b + y \in Nat
    OBVIOUS
  <2>8. QED BY <2>6, <2>7
<1>3. N = Nat
  <2> HIDE DEF N
  <2>1. N \in SUBSET Nat
    BY DEF N
  <2>2. QED BY <1>1, <1>2, <2>1, StepByStep
<1>4. Cardinality(S) \in Nat
  BY FS_CardinalityType
<1>5. QED BY <1>3, <1>4

\* The tables of reversed indices have a place for every table a call looks up.
LEMMA TablesHavePlaces ==
  ASSUME TypeOK, NEW t \in Threads
  PROVE  /\ Max(Ks) \in Nat /\ k[t] \in Nat /\ Q \in Nat
         /\ TablesOf(t) \subseteq 0..Max(Ks)
         /\ IsCobra(t) => k1(t) \in Nat /\ k[t] = k1(t) + 2 * Q
<1>1. k[t] \in Ks /\ Ks \subseteq Nat /\ IsFiniteSet(Ks) /\ Q \in Nat
  BY CobraAssumption DEF TypeOK
<1>2. PICK b \in Nat : \A x \in Ks : x <= b
  BY <1>1, FiniteBounded
<1> DEFINE m == Max(Ks)
<1>3. m \in Ks /\ \A y \in Ks : y <= m
  BY <1>1, <1>2, Greatest
<1> HIDE DEF m
<1>4. m \in Nat /\ k[t] \in 0..m
  <2> DEFINE l == k[t]
  <2>1. l \in Ks /\ l \in Nat /\ m \in Nat
    BY <1>1, <1>3
  <2>2. l <= m
    BY <1>3, <2>1
  <2> HIDE DEF l
  <2>3. l \in 0..m
    BY <2>1, <2>2
  <2>4. QED BY <2>1, <2>3 DEF l
<1>5. ASSUME IsCobra(t) PROVE k1(t) \in 0..m /\ Q \in 0..m /\ k[t] = k1(t) + 2 * Q
  <2>1. k[t] > THRESH /\ THRESH \in Nat /\ THRESH >= 2 * Q
    BY <1>5, CobraAssumption DEF IsCobra
  <2>2. QED BY <1>1, <1>4, <2>1 DEF k1
<1>6. QED BY <1>1, <1>4, <1>5 DEF TablesOf, m

(***************************************************************************)
(* What is said of a thread's data says the same after a step that changes *)
(* none of what it is about.                                               *)
(***************************************************************************)
LEMMA SameCall ==
  ASSUME UNCHANGED call
  PROVE  \A t : /\ A(t)' = A(t) /\ k1(t)' = k1(t) /\ Positions(t)' = Positions(t)
                /\ (IsCobra(t)' <=> IsCobra(t)) /\ (IsBasic(t)' <=> IsBasic(t))
                /\ TablesOf(t)' = TablesOf(t) /\ loops(t)' = loops(t)
                /\ \A y : BlockAt(t, y)' = BlockAt(t, y)
BY DEF call, A, k1, Positions, IsCobra, IsBasic, TablesOf, loops, BlockAt

\* Nor does a DPU's part change while the plan and the iteration stay.
LEMMA SamePlan ==
  ASSUME UNCHANGED call, NEW t \in Threads,
         nr_dpus'[t] = nr_dpus[t], iteration'[t] = iteration[t]
  PROVE  /\ Dpus(t)' = Dpus(t)
         /\ \A d : SentTo(t, d)' = SentTo(t, d) /\ MadeBy(t, d)' = MadeBy(t, d)
<1>1. /\ A(t)' = A(t) /\ k1(t)' = k1(t) /\ (IsCobra(t)' <=> IsCobra(t)) /\ k'[t] = k[t]
  BY SameCall DEF call
<1>2. Dpus(t)' = Dpus(t) /\ \A d : Block(t, d)' = Block(t, d)
  BY DEF Dpus, Block
<1>3. \A b : BlockOfA(t, b)' = BlockOfA(t, b)
  BY <1>1 DEF BlockOfA
<1>4. \A d : SentTo(t, d)' = SentTo(t, d)
  BY <1>1, <1>2, <1>3 DEF SentTo
<1>5. QED BY <1>1, <1>2, <1>4 DEF MadeBy

\* Together, for a thread that does not move.
LEMMA DataKept ==
  ASSUME NEW t \in Threads, UNCHANGED call,
         pc'[t] = pc[t], nr_dpus'[t] = nr_dpus[t], iteration'[t] = iteration[t],
         B'[t] = B[t], brc_mem'[t] = brc_mem[t], mram'[t] = mram[t], running'[t] = running[t],
         TablesHeld(t), ResultOf(t), MemoryOf(t)
  PROVE  TablesHeld(t)' /\ ResultOf(t)' /\ MemoryOf(t)'
<1>1. TablesHeld(t)'
  BY SameCall DEF TablesHeld
<1>2. ResultOf(t)'
  BY SameCall DEF ResultOf, Brought, call
<1>3. MemoryOf(t)'
  BY SamePlan DEF MemoryOf
<1>4. QED BY <1>1, <1>2, <1>3

\* A step of one thread leaves the arrays, tables and DPUs of the others alone.
LEMMA OthersData ==
  ASSUME Inv, DataInv, NEW t \in Threads, NEW u \in Threads, t # u, Step(u)
  PROVE  B'[t] = B[t] /\ brc_mem'[t] = brc_mem[t] /\ running'[t] = running[t]
<1>1. TypeOK /\ DOMAIN brc_mem = Threads /\ DOMAIN B = Threads
  BY DEF Inv, DataInv
<1>2. CASE Tables(u)
  BY <1>1, <1>2 DEF Tables
<1>3. CASE Copy(u)
  BY <1>1, <1>3 DEF Copy
<1>4. CASE Check(u) \/ PlanDpus(u) \/ PlanIterations(u) \/ Alloc(u) \/ Free(u)
  BY <1>4 DEF Check, PlanDpus, PlanIterations, Alloc, Free
<1>5. CASE Send(u)
  BY <1>1, <1>5 DEF Send, TypeOK
<1>6. CASE Receive(u)
  BY <1>1, <1>6 DEF Receive
<1>7. ASSUME NEW d \in running[u], RunDpu(u, d)
      PROVE  B'[t] = B[t] /\ brc_mem'[t] = brc_mem[t] /\ running'[t] = running[t]
  BY <1>1, <1>7 DEF RunDpu, TypeOK
<1>8. QED BY <1>2, <1>3, <1>4, <1>5, <1>6, <1>7 DEF Step, Host

\* Every thread keeps an array and its tables.
LEMMA DomainsStep ==
  ASSUME Inv, DataInv, NEW u \in Threads, Step(u)
  PROVE  DOMAIN brc_mem' = Threads /\ DOMAIN B' = Threads
<1>1. DOMAIN brc_mem = Threads /\ DOMAIN B = Threads
  BY DEF DataInv
<1>2. CASE Host(u)
  BY <1>1, <1>2
     DEF Host, Tables, Copy, Check, PlanDpus, PlanIterations, Alloc, Send, Receive, Free
<1>3. ASSUME NEW d \in running[u], RunDpu(u, d)
      PROVE  DOMAIN brc_mem' = Threads /\ DOMAIN B' = Threads
  BY <1>1, <1>3 DEF RunDpu
<1>4. QED BY <1>2, <1>3 DEF Step

\* The call looks up tables that are there, and keeps them.
LEMMA TablesStep ==
  ASSUME Inv, DataInv, NEW u \in Threads, Step(u)
  PROVE  TablesHeld(u)'
<1>1. TypeOK /\ DOMAIN brc_mem = Threads /\ TablesHeld(u) /\ DOMAIN pc = Threads
  BY DEF Inv, DataInv, TypeOK
<1>2. CASE Tables(u)
  <2>1. UNCHANGED call /\ TablesOf(u)' = TablesOf(u)
    BY <1>2, SameCall DEF Tables
  <2>2. brc_mem'[u] = [j \in 0..Max(Ks) |->
                         IF j \in TablesOf(u) /\ brc_mem[u][j] = <<>> THEN BRC_table(j)
                         ELSE brc_mem[u][j]]
    BY <1>1, <1>2 DEF Tables, TablesHeld
  <2>3. TablesOf(u) \subseteq 0..Max(Ks)
    BY <1>1, TablesHavePlaces
  <2>4. \A j \in 0..Max(Ks) : brc_mem'[u][j] \in {<<>>, BRC_table(j)}
    BY <1>1, <2>2 DEF TablesHeld
  <2>5. \A j \in TablesOf(u) : brc_mem'[u][j] = BRC_table(j)
    BY <1>1, <2>2, <2>3 DEF TablesHeld
  <2>6. DOMAIN brc_mem'[u] = 0..Max(Ks)
    BY <2>2
  <2>7. QED BY <2>1, <2>4, <2>5, <2>6 DEF TablesHeld
<1>3. ASSUME UNCHANGED <<call, brc_mem>>, pc[u] # "call" PROVE TablesHeld(u)'
  BY <1>1, <1>3, SameCall DEF TablesHeld
<1>4. CASE Copy(u) \/ Check(u) \/ PlanDpus(u) \/ PlanIterations(u)
  BY <1>3, <1>4 DEF Copy, Check, PlanDpus, PlanIterations, At
<1>5. CASE Alloc(u) \/ Send(u) \/ Receive(u) \/ Free(u)
  BY <1>3, <1>5 DEF Alloc, Send, Receive, Free, At
<1>6. ASSUME NEW d \in running[u], RunDpu(u, d) PROVE TablesHeld(u)'
  BY <1>3, <1>6 DEF RunDpu, At
<1>7. QED BY <1>2, <1>4, <1>5, <1>6 DEF Step, Host

\* What is sent to the DPUs is there until they run, and what they make of it after.
LEMMA MemoryStep ==
  ASSUME Inv, DataInv, NEW u \in Threads, Step(u)
  PROVE  MemoryOf(u)'
<1>1. /\ TypeOK /\ TablesHeld(u) /\ MemoryOf(u) /\ HoldsOf(u)
      /\ DOMAIN pc = Threads /\ DOMAIN mram = Threads /\ DOMAIN running = Threads
  BY DEF Inv, DataInv, TypeOK
<1>2. CASE pc'[u] # "wait"
  BY <1>2 DEF MemoryOf
<1>3. CASE Send(u)
  <2>1. /\ UNCHANGED <<call, nr_dpus, iteration>> /\ pc[u] = "send"
        /\ running'[u] = Dpus(u) /\ TablesOf(u) = IF IsCobra(u) THEN {k1(u), Q} ELSE {k[u]}
    BY <1>1, <1>3 DEF Send, At, plan, TablesOf
  <2>2. mram'[u] = IF IsCobra(u)
                   THEN [d \in Dpus(u) |-> [a |-> BlockOfA(u, Block(u, d)), rev |-> brc_mem[u][Q]]]
                   ELSE [d \in Dpus(u) |-> [a |-> A(u), rev |-> brc_mem[u][k[u]]]]
    BY <1>1, <1>3 DEF Send
  <2>3. \A j \in TablesOf(u) : brc_mem[u][j] = BRC_table(j)
    BY <1>1, <2>1 DEF TablesHeld
  <2>4. \A d \in Dpus(u) : mram'[u][d] = SentTo(u, d)
    BY <2>1, <2>2, <2>3 DEF SentTo
  <2>5. Dpus(u)' = Dpus(u) /\ \A d : SentTo(u, d)' = SentTo(u, d)
    BY <2>1, SamePlan
  <2>6. QED BY <2>1, <2>4, <2>5 DEF MemoryOf
<1>4. ASSUME NEW d \in running[u], RunDpu(u, d) PROVE MemoryOf(u)'
  <2>1. /\ UNCHANGED <<call, nr_dpus, iteration>> /\ pc[u] = "wait" /\ pc'[u] = "wait"
        /\ running'[u] = running[u] \ {d}
    BY <1>1, <1>4 DEF RunDpu, At, plan
  <2>2. mram'[u] = [mram[u] EXCEPT ![d] =
                      [b |-> IF IsCobra(u) THEN Cobra(@) ELSE Scatter(@.rev, @.a, @.a)]]
    BY <1>1, <1>4 DEF RunDpu
  <2>3. DOMAIN mram[u] = Dpus(u)
    BY <1>1, <2>1 DEF HoldsOf, Holding
  <2>4. \A e \in Dpus(u) : mram[u][e] = IF e \in running[u] THEN SentTo(u, e) ELSE MadeBy(u, e)
    BY <1>1, <2>1 DEF MemoryOf
  <2>5. ASSUME NEW e \in Dpus(u)
        PROVE  mram'[u][e] = IF e \in running'[u] THEN SentTo(u, e) ELSE MadeBy(u, e)
    <3>1. CASE e = d
      <4>1. mram[u][d] = SentTo(u, d)
        BY <1>4, <2>4, <3>1
      <4>2. mram'[u][d] = [b |-> IF IsCobra(u) THEN Cobra(mram[u][d])
                                 ELSE Scatter(mram[u][d].rev, mram[u][d].a, mram[u][d].a)]
        BY <2>2, <2>3, <3>1
      <4>3. mram'[u][d] = MadeBy(u, d)
        BY <4>1, <4>2 DEF MadeBy
      <4>4. QED BY <2>1, <3>1, <4>3
    <3>2. CASE e # d
      BY <2>1, <2>2, <2>3, <2>4, <3>2
    <3>3. QED BY <3>1, <3>2
  <2>6. /\ Dpus(u)' = Dpus(u)
        /\ \A e : SentTo(u, e)' = SentTo(u, e) /\ MadeBy(u, e)' = MadeBy(u, e)
    BY <2>1, SamePlan
  <2>7. QED BY <2>5, <2>6 DEF MemoryOf
<1>5. CASE Tables(u) \/ Copy(u) \/ Check(u) \/ PlanDpus(u) \/ PlanIterations(u)
  <2>1. pc'[u] # "wait"
    BY <1>1, <1>5 DEF Tables, Copy, Check, PlanDpus, PlanIterations, At, Goto
  <2>2. QED BY <1>2, <2>1
<1>6. CASE Alloc(u) \/ Receive(u) \/ Free(u)
  <2>1. pc'[u] # "wait"
    BY <1>1, <1>6 DEF Alloc, Receive, Free, At, Goto
  <2>2. QED BY <1>2, <2>1
<1>7. QED BY <1>3, <1>4, <1>5, <1>6 DEF Step, Host

\* Element c of piece r of a block, in the array the block is cut from.
LEMMA BlockElement ==
  ASSUME NEW t \in Threads, NEW b, NEW r \in 0..(2^Q - 1), NEW c \in 0..(2^Q - 1)
  PROVE  /\ DOMAIN BlockOfA(t, b) = 0..(2^(2 * Q) - 1)
         /\ BlockOfA(t, b)[r * 2^Q + c] = A(t)[(r * 2^(k1(t) + Q) + b * 2^Q) + c]
<1> DEFINE n == 2^Q
           x == r * n + c
<1>1. n \in Nat \ {0} /\ 2^(2 * Q) = n * n
  <2>1. Q \in Nat /\ Q + Q = 2 * Q
    BY CobraAssumption
  <2>2. 2^(Q + Q) = 2^Q * 2^Q
    BY <2>1, PowerSum
  <2>3. QED BY <2>1, <2>2, PowerPositive
<1>2. x \in 0..(n * n - 1) /\ x \div n = r /\ x % n = c
  <2> HIDE DEF n
  <2>1. r \in 0..(n - 1) /\ c \in 0..(n - 1)
    BY DEF n
  <2>2. QED BY <1>1, <2>1, RowAndColumn
<1> HIDE DEF x
<1>3. x \in 0..(2^(2 * Q) - 1)
  BY <1>1, <1>2
<1>4. BlockOfA(t, b)[x] = A(t)[((x \div 2^Q) * 2^(k1(t) + Q) + b * 2^Q) + (x % 2^Q)]
  BY <1>3 DEF BlockOfA
<1>5. QED BY <1>2, <1>4 DEF BlockOfA, x

(***************************************************************************)
(* What the DPU that has block b of A gives for the position of B whose    *)
(* middle bits are those of b in reverse order.                            *)
(***************************************************************************)
LEMMA BlockReversed ==
  ASSUME TypeOK, NEW t \in Threads, IsCobra(t), NEW y \in Positions(t)
  PROVE  /\ BlockAt(t, y) \in 0..(loops(t) - 1)
         /\ (y \div 2^Q) % 2^k1(t) \in 0..(2^k1(t) - 1)
         /\ y \div 2^(k1(t) + Q) \in 0..(2^Q - 1)
         /\ Cobra([a |-> BlockOfA(t, BlockAt(t, y)), rev |-> BRC_table(Q)])
              [Reversed(y \div 2^(k1(t) + Q), Q) * 2^Q + (y % 2^Q)]
              = A(t)[Reversed(y, k[t])]
<1> DEFINE m == k1(t)
           c == y \div 2^(m + Q)
           b == (y \div 2^Q) % 2^m
           e == y % 2^Q
           r == Reversed(e, Q)
           s == Reversed(c, Q)
           a == BlockOfA(t, BlockAt(t, y))
<1>1. m \in Nat /\ Q \in Nat /\ k[t] = m + 2 * Q
  BY TablesHavePlaces
<1>2. /\ c \in 0..(2^Q - 1) /\ b \in 0..(2^m - 1) /\ e \in 0..(2^Q - 1)
      /\ Reversed(y, k[t]) = (r * 2^(m + Q) + Reversed(b, m) * 2^Q) + s
  <2>1. y \in 0..(2^(m + 2 * Q) - 1)
    BY <1>1 DEF Positions
  <2>2. QED BY <1>1, <2>1, ThreeParts
<1>3. r \in 0..(2^Q - 1) /\ s \in 0..(2^Q - 1) /\ Reversed(b, m) \in 0..(2^m - 1)
  BY <1>1, <1>2, ReversedTwice
<1> HIDE DEF c, b, e, r, s, m
<1>4. BlockAt(t, y) = Reversed(b, m)
  BY DEF BlockAt, b, m
<1>5. DOMAIN a = 0..(2^(2 * Q) - 1) /\ a[r * 2^Q + s] = A(t)[Reversed(y, k[t])]
  <2> DEFINE at == BlockAt(t, y)
  <2> HIDE DEF at
  <2>1. /\ DOMAIN BlockOfA(t, at) = 0..(2^(2 * Q) - 1)
        /\ BlockOfA(t, at)[r * 2^Q + s] = A(t)[(r * 2^(k1(t) + Q) + at * 2^Q) + s]
    BY <1>3, BlockElement
  <2>2. Reversed(y, k[t]) = (r * 2^(k1(t) + Q) + at * 2^Q) + s
    BY <1>2, <1>4 DEF m, at
  <2>3. QED BY <2>1, <2>2 DEF at
<1> HIDE DEF a
<1>6. Cobra([a |-> a, rev |-> BRC_table(Q)])[s * 2^Q + e] = a[r * 2^Q + s]
  BY <1>2, <1>3, <1>5, CobraElement DEF r
<1>7. QED BY <1>2, <1>3, <1>4, <1>5, <1>6 DEF a, c, b, e, s, m, loops

(***************************************************************************)
(* The DPUs of an iteration have the blocks from iteration * nr_dpus on.   *)
(***************************************************************************)
LEMMA BlocksOfIteration ==
  ASSUME Inv, NEW t \in Threads, IsCobra(t), pc[t] \in {"send", "wait"}
  PROVE  /\ nr_dpus[t] \in Nat \ {0} /\ iteration[t] \in Nat /\ nr_iterations[t] \in Nat
         /\ iteration[t] < nr_iterations[t] /\ loops(t) = nr_dpus[t] * nr_iterations[t]
         /\ iteration[t] * nr_dpus[t] \in Nat
         /\ \A d \in Dpus(t) : Block(t, d) \in 0..(loops(t) - 1)
<1> DEFINE n == nr_dpus[t]
           m == nr_iterations[t]
           i == iteration[t]
<1>1. /\ n \in Nat \ {0} /\ m \in Nat /\ i \in Nat /\ i < m /\ loops(t) = n * m
  BY CobraAssumption DEF Inv, TypeOK, PlanOf, IterationOf, Planned
<1> HIDE DEF n, m, i
<1>2. i * n + n <= m * n
  BY <1>1, SharesApart
<1> DEFINE u == i * n
           w == m * n
<1>3. u \in Nat /\ w \in Nat /\ w = loops(t) /\ u + n <= w
  BY <1>1, <1>2
<1> HIDE DEF u, w
<1>4. ASSUME NEW d \in 0..(n - 1) PROVE d + u \in 0..(w - 1)
  BY <1>1, <1>3
<1>5. QED BY <1>1, <1>3, <1>4 DEF Dpus, Block, n, m, i, u

(***************************************************************************)
(* The gathering of an iteration brings the elements of its blocks and     *)
(* leaves the others as they were.                                         *)
(***************************************************************************)
LEMMA GatherElement ==
  ASSUME Inv, DataInv, NEW t \in Threads, IsCobra(t), pc[t] = "wait", running[t] = {},
         NEW y \in Positions(t)
  PROVE  Gather(t)[y] = IF BlockAt(t, y) < (iteration[t] + 1) * nr_dpus[t]
                        THEN A(t)[Reversed(y, k[t])] ELSE <<"B", t, y>>
<1> DEFINE n == nr_dpus[t]
           first == iteration[t] * nr_dpus[t]
           m == k1(t)
           hi == y \div 2^(m + Q)
           mid == (y \div 2^Q) % 2^m
           at == BlockAt(t, y)
           c == CHOOSE j \in 0..(2^Q - 1) : brc_mem[t][Q][j] = hi
           blocks == {d \in Dpus(t) : b1(t, d) = mid}
<1>1. TypeOK /\ TablesHeld(t) /\ ResultOf(t) /\ MemoryOf(t)
  BY DEF Inv, DataInv
<1>2. brc_mem[t][Q] = BRC_table(Q) /\ brc_mem[t][m] = BRC_table(m) /\ m \in Nat /\ Q \in Nat
  BY <1>1, TablesHavePlaces DEF TablesHeld, TablesOf
<1>3. /\ n \in Nat \ {0} /\ first \in Nat /\ iteration[t] \in Nat
      /\ \A d \in Dpus(t) : Block(t, d) \in 0..(loops(t) - 1)
  BY BlocksOfIteration
<1>4. /\ at \in 0..(loops(t) - 1) /\ mid \in 0..(2^m - 1) /\ hi \in 0..(2^Q - 1)
      /\ Cobra([a |-> BlockOfA(t, at), rev |-> BRC_table(Q)])[Reversed(hi, Q) * 2^Q + (y % 2^Q)]
           = A(t)[Reversed(y, k[t])]
  BY <1>1, BlockReversed
<1>5. loops(t) = 2^m /\ at = Reversed(mid, m) /\ at \in Nat
  <2>1. 2^m \in Nat
    BY <1>2, PowerPositive
  <2>2. at \in Nat
    BY <1>4
  <2>3. QED BY <2>2 DEF loops, BlockAt
<1>6. c = Reversed(hi, Q)
  <2>1. \A j \in 0..(2^Q - 1) : BRC_table(Q)[j] = hi <=> j = Reversed(hi, Q)
    BY <1>2, <1>4, PlaceInTable
  <2>2. Reversed(hi, Q) \in 0..(2^Q - 1)
    BY <1>2, <1>4, PlaceInTable
  <2> HIDE DEF hi
  <2>3. QED BY <1>2, <2>1, <2>2
<1>7. \A d \in Dpus(t) : b1(t, d) = mid <=> d + first = at
  <2>1. \A x \in 0..(2^m - 1) : BRC_table(m)[x] = mid <=> x = Reversed(mid, m)
    BY <1>2, <1>4, PlaceInTable
  <2>2. \A d \in Dpus(t) : b1(t, d) = BRC_table(m)[Block(t, d)] /\ Block(t, d) = d + first
    BY <1>2 DEF b1, Block
  <2> HIDE DEF mid, first, m, at
  <2>3. QED BY <1>3, <1>5, <2>1, <2>2
<1>8. DOMAIN B[t] = Positions(t)
  BY <1>1 DEF ResultOf
<1>9. Gather(t)[y] = IF blocks = {} THEN B[t][y]
                     ELSE mram[t][CHOOSE d \in blocks : TRUE].b[c * 2^Q + (y % 2^Q)]
  BY <1>8 DEF Gather
<1>10. B[t][y] = IF at < first THEN A(t)[Reversed(y, k[t])] ELSE <<"B", t, y>>
  BY <1>1 DEF ResultOf, Brought
<1>11. (iteration[t] + 1) * nr_dpus[t] = first + n
  BY <1>3
<1> HIDE DEF c, hi, mid, m, at, first, n, blocks
<1>12. CASE at < first \/ ~(at < first + n)
  <2>1. \A d \in Dpus(t) : d + first # at
    BY <1>3, <1>5, <1>12 DEF Dpus, n
  <2>2. blocks = {}
    BY <1>7, <2>1 DEF blocks
  <2>3. (at < first + n) <=> (at < first)
    BY <1>3, <1>5, <1>12
  <2>4. Gather(t)[y] = B[t][y]
    BY <1>9, <2>2
  <2>5. QED BY <1>10, <1>11, <2>3, <2>4 DEF at
<1>13. CASE ~(at < first) /\ at < first + n
  <2> DEFINE d == at - first
  <2>1. d \in Dpus(t) /\ d + first = at
    BY <1>3, <1>5, <1>13 DEF Dpus, n
  <2>2. \A x \in Dpus(t) : x + first = at => x = d
    BY <1>3, <1>5 DEF Dpus, n
  <2> HIDE DEF d
  <2>3. blocks = {d}
    BY <1>7, <2>1, <2>2 DEF blocks
  <2>4. (CHOOSE x \in blocks : TRUE) = d
    BY <2>3
  <2>5. Block(t, d) = at
    BY <2>1 DEF Block, first
  <2>6. mram[t][d] = MadeBy(t, d)
    BY <1>1, <2>1 DEF MemoryOf
  <2>7. mram[t][d].b = Cobra([a |-> BlockOfA(t, at), rev |-> BRC_table(Q)])
    BY <2>5, <2>6 DEF MadeBy, SentTo
  <2>8. Gather(t)[y] = mram[t][d].b[c * 2^Q + (y % 2^Q)]
    BY <1>9, <2>3, <2>4
  <2>9. Gather(t)[y] = A(t)[Reversed(y, k[t])]
    BY <1>4, <1>6, <2>7, <2>8
  <2>10. QED BY <1>11, <1>13, <2>9 DEF at
<1>14. QED BY <1>12, <1>13

\* A block's number is a number.
LEMMA BlockAtType ==
  ASSUME TypeOK, NEW t \in Threads, IsCobra(t), NEW y \in Positions(t)
  PROVE  BlockAt(t, y) \in Nat /\ BlockAt(t, y) < loops(t)
<1>1. k1(t) \in Nat
  BY TablesHavePlaces
<1>2. loops(t) \in Nat
  BY <1>1, PowerPositive DEF loops
<1>3. BlockAt(t, y) \in 0..(loops(t) - 1)
  BY BlockReversed
<1> DEFINE b == BlockAt(t, y)
           l == loops(t)
<1> HIDE DEF b, l
<1>4. b \in Nat /\ b < l
  BY <1>2, <1>3 DEF b, l
<1>5. QED BY <1>4 DEF b, l

\* The whole array has been copied.
LEMMA WholeCopy ==
  ASSUME TypeOK, NEW t \in Threads, NEW b, DOMAIN b = Positions(t), brc_mem[t][k[t]] = BRC_table(k[t])
  PROVE  Scatter(brc_mem[t][k[t]], A(t), b) = [y \in Positions(t) |-> A(t)[Reversed(y, k[t])]]
<1>1. k[t] \in Nat
  BY TablesHavePlaces
<1>2. DOMAIN A(t) = 0..(2^k[t] - 1) /\ DOMAIN b = 0..(2^k[t] - 1)
  BY DEF A, Positions
<1> DEFINE n == k[t]
           a == A(t)
<1> HIDE DEF n, a
<1>3. Scatter(BRC_table(n), a, b) = [y \in 0..(2^n - 1) |-> a[Reversed(y, n)]]
  BY <1>1, <1>2, ScatterReverses DEF n, a
<1>4. QED BY <1>3 DEF n, a, Positions

\* dpu_copy_from brings what the DPUs made: the blocks of this iteration, or the whole array.
LEMMA ReceiveResult ==
  ASSUME Inv, DataInv, NEW u \in Threads, Receive(u)
  PROVE  ResultOf(u)'
<1>1. /\ TypeOK /\ DOMAIN B = Threads /\ TablesHeld(u) /\ ResultOf(u) /\ MemoryOf(u)
      /\ DOMAIN pc = Threads /\ pc[u] = "wait" /\ running[u] = {}
  BY DEF Inv, DataInv, TypeOK, Receive, At
<1>2. UNCHANGED <<call, plan, k>> /\ iteration'[u] = iteration[u] + 1
  BY DEF Receive, Inv, TypeOK, call
<1>3. /\ Positions(u)' = Positions(u) /\ A(u)' = A(u) /\ k'[u] = k[u]
      /\ (IsCobra(u)' <=> IsCobra(u)) /\ \A y : BlockAt(u, y)' = BlockAt(u, y)
      /\ nr_dpus'[u] = nr_dpus[u]
  BY <1>2, SameCall DEF plan
<1>4. CASE IsCobra(u)
  <2>1. B'[u] = Gather(u)
    BY <1>1, <1>4 DEF Receive
  <2>2. pc'[u] = IF iteration[u] + 1 < nr_iterations[u] THEN "send" ELSE "free"
    BY <1>1, <1>4 DEF Receive, Goto
  <2>3. ASSUME NEW y \in Positions(u)
        PROVE  Brought(u, y)' <=> BlockAt(u, y) < (iteration[u] + 1) * nr_dpus[u]
    <3>1. CASE iteration[u] + 1 < nr_iterations[u]
      BY <1>2, <1>3, <1>4, <2>2, <3>1 DEF Brought
    <3>2. CASE ~(iteration[u] + 1 < nr_iterations[u])
      <4>1. Brought(u, y)'
        BY <2>2, <3>2 DEF Brought
      <4> DEFINE n == nr_dpus[u]
                 m == nr_iterations[u]
                 i == iteration[u]
      <4>2. n \in Nat /\ m \in Nat /\ i \in Nat /\ i < m /\ loops(u) = n * m
        BY <1>1, <1>4, BlocksOfIteration
      <4> HIDE DEF n, m, i
      <4>3. i + 1 = m
        BY <3>2, <4>2 DEF i, m
      <4>4. loops(u) = (i + 1) * n
        BY <4>2, <4>3
      <4>5. QED BY <1>1, <1>4, <4>1, <4>4, BlockAtType DEF i, n
    <3>3. QED BY <3>1, <3>2
  <2>4. ASSUME NEW y \in Positions(u)
        PROVE  Gather(u)[y] = IF Brought(u, y)' THEN A(u)[Reversed(y, k[u])] ELSE <<"B", u, y>>
    BY <1>1, <1>4, <2>3, GatherElement
  <2>5. Gather(u) = [y \in Positions(u) |-> Gather(u)[y]]
    <3>1. DOMAIN B[u] = Positions(u)
      BY <1>1 DEF ResultOf
    <3>2. QED BY <3>1 DEF Gather
  <2> DEFINE G == Gather(u)
             R == [y \in Positions(u) |->
                     IF Brought(u, y)' THEN A(u)[Reversed(y, k[u])] ELSE <<"B", u, y>>]
  <2>6. G = R
    <3>1. \A y \in Positions(u) : G[y] = R[y]
      BY <2>4
    <3>2. G = [y \in Positions(u) |-> G[y]] /\ R = [y \in Positions(u) |-> R[y]]
      BY <2>5
    <3> HIDE DEF G, R
    <3>3. QED BY <3>1, <3>2
  <2> HIDE DEF G
  <2>7. B'[u] = R
    BY <2>1, <2>6 DEF G
  <2>8. QED BY <1>3, <2>7 DEF ResultOf
<1>5. CASE ~IsCobra(u)
  <2>1. B'[u] = mram[u][0].b /\ pc'[u] = "free"
    BY <1>1, <1>5 DEF Receive, Goto
  <2>2. 0 \in Dpus(u)
    BY <1>1, CobraAssumption DEF Inv, PlanOf, Planned, Dpus
  <2>3. brc_mem[u][k[u]] = BRC_table(k[u])
    BY <1>1, <1>5 DEF TablesHeld, TablesOf
  <2>4. mram[u][0] = MadeBy(u, 0)
    BY <1>1, <2>2 DEF MemoryOf
  <2>5. mram[u][0].b = Scatter(BRC_table(k[u]), A(u), A(u))
    BY <1>5, <2>4 DEF MadeBy, SentTo
  <2>6. DOMAIN A(u) = Positions(u)
    BY DEF A, Positions
  <2>7. B'[u] = [y \in Positions(u) |-> A(u)[Reversed(y, k[u])]]
    BY <1>1, <2>1, <2>3, <2>5, <2>6, WholeCopy
  <2>8. \A y : Brought(u, y)'
    BY <2>1 DEF Brought
  <2>9. QED BY <1>3, <2>7, <2>8 DEF ResultOf
<1>6. QED BY <1>4, <1>5

\* Every step leaves in B what it should hold at the thread's label.
LEMMA ResultStep ==
  ASSUME Inv, DataInv, NEW u \in Threads, Step(u)
  PROVE  ResultOf(u)'
<1>1. /\ TypeOK /\ DOMAIN B = Threads /\ TablesHeld(u) /\ ResultOf(u) /\ MemoryOf(u)
      /\ PlanOf(u) /\ IterationOf(u) /\ DOMAIN pc = Threads
  BY DEF Inv, DataInv, TypeOK
<1>2. ASSUME UNCHANGED <<call, B>>, \A y \in Positions(u) : Brought(u, y)' <=> Brought(u, y)
      PROVE  ResultOf(u)'
  BY <1>1, <1>2, SameCall DEF ResultOf, call
<1>3. CASE Tables(u) \/ Check(u) \/ PlanDpus(u) \/ PlanIterations(u)
  <2>1. UNCHANGED <<call, B>>
    BY <1>3 DEF Tables, Check, PlanDpus, PlanIterations
  <2>2. pc[u] \notin {"send", "wait", "free", "done"} /\ pc'[u] \notin {"send", "wait", "free", "done"}
    BY <1>1, <1>3 DEF Tables, Check, PlanDpus, PlanIterations, At, Goto
  <2>3. QED BY <1>2, <2>1, <2>2 DEF Brought
<1>4. CASE Copy(u)
  <2>1. pc[u] = "copy" /\ pc'[u] = "done" /\ UNCHANGED <<call, k>>
    BY <1>1, <1>4 DEF Copy, At, Goto, call
  <2>2. B'[u] = Scatter(brc_mem[u][k[u]], A(u), B[u])
    BY <1>1, <1>4 DEF Copy
  <2>3. brc_mem[u][k[u]] = BRC_table(k[u])
    BY <1>1, <2>1 DEF TablesHeld, TablesOf, PlanOf
  <2>4. DOMAIN B[u] = Positions(u)
    BY <1>1 DEF ResultOf
  <2>5. B'[u] = [y \in Positions(u) |-> A(u)[Reversed(y, k[u])]]
    BY <1>1, <2>2, <2>3, <2>4, WholeCopy
  <2>6. \A y : Brought(u, y)'
    BY <2>1 DEF Brought
  <2>7. QED BY <2>1, <2>5, <2>6, SameCall DEF ResultOf
<1>5. CASE Alloc(u)
  <2>1. /\ UNCHANGED <<call, B>> /\ pc[u] = "alloc" /\ pc'[u] \in {"send", "abort"}
        /\ iteration'[u] = 0 /\ nr_dpus'[u] = nr_dpus[u]
    BY <1>1, <1>5 DEF Alloc, At, Goto, IterationOf, plan
  <2>2. ASSUME NEW y \in Positions(u) PROVE ~Brought(u, y) /\ ~(Brought(u, y)')
    <3>1. ~Brought(u, y)
      BY <2>1 DEF Brought
    <3>2. CASE IsCobra(u)
      <4>1. BlockAt(u, y) \in Nat /\ nr_dpus[u] \in Nat
        BY <1>1, <3>2, BlockAtType DEF TypeOK
      <4>2. ~(BlockAt(u, y) < 0 * nr_dpus[u])
        BY <4>1
      <4>3. BlockAt(u, y)' = BlockAt(u, y)
        BY <2>1, SameCall
      <4>4. QED BY <2>1, <3>1, <4>2, <4>3 DEF Brought
    <3>3. CASE ~IsCobra(u)
      <4>1. ~IsCobra(u)'
        BY <2>1, <3>3, SameCall
      <4>2. QED BY <2>1, <3>1, <4>1 DEF Brought
    <3>4. QED BY <3>2, <3>3
  <2>3. QED BY <1>2, <2>1, <2>2
<1>6. CASE Send(u)
  <2>1. /\ UNCHANGED <<call, B, iteration, nr_dpus>> /\ pc[u] = "send" /\ pc'[u] = "wait"
    BY <1>1, <1>6 DEF Send, At, Goto, plan
  <2>2. \A y : Brought(u, y)' <=> Brought(u, y)
    BY <2>1, SameCall DEF Brought
  <2>3. QED BY <1>2, <2>1, <2>2
<1>7. CASE Receive(u)
  BY <1>7, ReceiveResult
<1>8. CASE Free(u)
  <2>1. UNCHANGED <<call, B>> /\ pc[u] = "free" /\ pc'[u] = "done"
    BY <1>1, <1>8 DEF Free, At, Goto
  <2>2. QED BY <1>2, <2>1 DEF Brought
<1>9. ASSUME NEW d \in running[u], RunDpu(u, d) PROVE ResultOf(u)'
  <2>1. UNCHANGED <<call, B, iteration, nr_dpus, pc>>
    BY <1>9 DEF RunDpu, plan
  <2>2. \A y : Brought(u, y)' <=> Brought(u, y)
    BY <2>1, SameCall DEF Brought
  <2>3. QED BY <1>2, <2>1, <2>2
<1>10. QED BY <1>3, <1>4, <1>5, <1>6, <1>7, <1>8, <1>9 DEF Step, Host

\* At first B is untouched, and the tables are those of earlier calls.
LEMMA DataInit == Init => DataInv
<1>1. SUFFICES ASSUME Init, NEW t \in Threads
               PROVE  /\ DOMAIN brc_mem = Threads /\ DOMAIN B = Threads
                      /\ TablesHeld(t) /\ ResultOf(t) /\ MemoryOf(t)
  BY DEF Init, DataInv
<1>2. pc[t] = "call" /\ DOMAIN brc_mem = Threads /\ DOMAIN B = Threads
  BY <1>1 DEF Init
<1>3. PICK built \in Cached : brc_mem[t] = [j \in 0..Max(Ks) |-> IF j \in built THEN BRC_table(j) ELSE <<>>]
  BY <1>1 DEF Init
<1>4. TablesHeld(t)
  BY <1>2, <1>3 DEF TablesHeld
<1>5. ResultOf(t)
  BY <1>1, <1>2 DEF Init, ResultOf, Brought, Positions
<1>6. QED BY <1>2, <1>4, <1>5 DEF MemoryOf

\* The invariant of the data is inductive, with the one of the plan.
LEMMA DataStep == Inv /\ DataInv /\ [Next]_vars => DataInv'
<1>1. ASSUME Inv, DataInv, NEW u \in Threads, Step(u) PROVE DataInv'
  <2>1. ASSUME NEW t \in Threads PROVE TablesHeld(t)' /\ ResultOf(t)' /\ MemoryOf(t)'
    <3>1. CASE t = u
      BY <1>1, <3>1, TablesStep, ResultStep, MemoryStep
    <3>2. CASE t # u
      <4>1. TypeOK /\ TablesHeld(t) /\ ResultOf(t) /\ MemoryOf(t)
        BY <1>1 DEF Inv, DataInv
      <4>2. /\ pc'[t] = pc[t] /\ nr_dpus'[t] = nr_dpus[t] /\ mram'[t] = mram[t]
            /\ iteration'[t] = iteration[t] /\ UNCHANGED call
        BY <1>1, <3>2, <4>1, OthersKept
      <4>3. B'[t] = B[t] /\ brc_mem'[t] = brc_mem[t] /\ running'[t] = running[t]
        BY <1>1, <3>2, OthersData
      <4>4. QED BY <4>1, <4>2, <4>3, DataKept
    <3>3. QED BY <3>1, <3>2
  <2>2. QED BY <1>1, <2>1, DomainsStep DEF DataInv
<1>2. ASSUME DataInv, UNCHANGED vars PROVE DataInv'
  <2>1. UNCHANGED <<pc, call, nr_dpus, iteration, B, brc_mem, mram, running>>
    BY <1>2 DEF vars, plan
  <2>2. QED BY <1>2, <2>1, DataKept DEF DataInv
<1>3. QED BY <1>1, <1>2 DEF Next, Stopped, Step

\* Plans, DPUs and data, from any call to the return of all of them.
LEMMA CopyInvariance == Spec => []CopyInv
<1>1. Init => CopyInv
  BY InvInit, DataInit DEF CopyInv
<1>2. CopyInv /\ [Next]_vars => CopyInv'
  BY InvStep, DataStep DEF CopyInv
<1>3. QED BY <1>1, <1>2, PTL DEF Spec

\* What has been brought to B stays there.
LEMMA BroughtStays ==
  ASSUME Inv, NEW t \in Threads, NEW y \in Positions(t), Brought(t, y), NEW u \in Threads, Step(u)
  PROVE  Brought(t, y)'
<1>1. TypeOK /\ DOMAIN pc = Threads
  BY DEF Inv, TypeOK
<1>2. ASSUME UNCHANGED call, pc'[t] = pc[t], iteration'[t] = iteration[t], nr_dpus'[t] = nr_dpus[t]
      PROVE  Brought(t, y)'
  BY <1>2, SameCall DEF Brought
<1>3. CASE t # u
  BY <1>1, <1>2, <1>3, OthersKept
<1>4. CASE t = u /\ (Tables(u) \/ Copy(u) \/ Check(u) \/ PlanDpus(u) \/ PlanIterations(u) \/ Alloc(u))
  BY <1>4 DEF Brought, Tables, Copy, Check, PlanDpus, PlanIterations, Alloc, At
<1>5. CASE t = u /\ Send(u)
  <2>1. pc[t] = "send" /\ pc'[t] = "wait" /\ UNCHANGED <<call, iteration, nr_dpus>>
    BY <1>1, <1>5 DEF Send, At, Goto, plan
  <2>2. QED BY <2>1, SameCall DEF Brought
<1>6. CASE t = u /\ Free(u)
  <2>1. pc'[t] = "done"
    BY <1>1, <1>6 DEF Free, Goto
  <2>2. QED BY <2>1 DEF Brought
<1>7. CASE t = u /\ \E d \in running[u] : RunDpu(u, d)
  <2>1. UNCHANGED <<call, pc, iteration, nr_dpus>>
    BY <1>7 DEF RunDpu, plan
  <2>2. QED BY <1>2, <2>1
<1>8. CASE t = u /\ Receive(u)
  <2>1. /\ pc[t] = "wait" /\ pc'[t] \in {"send", "free"} /\ UNCHANGED <<call, nr_dpus>>
        /\ iteration'[t] = iteration[t] + 1
    BY <1>1, <1>8 DEF Receive, At, Goto, plan, TypeOK
  <2>2. IsCobra(t) /\ BlockAt(t, y) < iteration[t] * nr_dpus[t]
    BY <2>1 DEF Brought
  <2>3. BlockAt(t, y) \in Nat /\ iteration[t] \in Nat /\ nr_dpus[t] \in Nat
    BY <1>1, <2>2, BlockAtType DEF TypeOK
  <2>4. BlockAt(t, y) < (iteration[t] + 1) * nr_dpus[t]
    <3> DEFINE b == BlockAt(t, y)
               i == iteration[t]
               n == nr_dpus[t]
    <3>1. b \in Nat /\ i \in Nat /\ n \in Nat /\ b < i * n
      BY <2>2, <2>3
    <3> HIDE DEF b, i, n
    <3>2. (i + 1) * n = i * n + n /\ i * n \in Nat
      BY <3>1
    <3>3. b < (i + 1) * n
      BY <3>1, <3>2
    <3>4. QED BY <3>3 DEF b, i, n
  <2>5. QED BY <2>1, <2>2, <2>4, SameCall DEF Brought
<1>9. QED BY <1>3, <1>4, <1>5, <1>6, <1>7, <1>8 DEF Step, Host

(***************************************************************************)
(* Every offloaded bit-reverse copy implements the copy of the CPU         *)
(* (helib_c_modulus_dpu.cpp:94-213): an element of a thread's B goes once *)
(* from what it was to the element of the thread's own A with the reversed *)
(* index, for every length of the array, every number of threads, DPUs and *)
(* iterations, and any order in which the DPUs finish.                     *)
(***************************************************************************)
THEOREM CopyImplemented == Spec => ImplementsCopy
<1>1. Init => Copies!Init
  <2>1. SUFFICES ASSUME Init PROVE Copies!Init
    OBVIOUS
  <2>2. ASSUME NEW c \in Cells PROVE B[c[1]][c[2]] = <<"B", c[1], c[2]>>
    <3>1. PICK t \in Threads : \E x \in DOMAIN B[t] : c = <<t, x>>
      BY DEF Cells
    <3>2. PICK x \in DOMAIN B[t] : c = <<t, x>>
      BY <3>1
    <3>3. B[t] = [z \in 0..(2^k[t] - 1) |-> <<"B", t, z>>]
      BY <2>1 DEF Init
    <3>4. QED BY <3>2, <3>3
  <2>3. QED BY <2>2 DEF Copies!Init, Old, New
<1>2. CopyInv /\ CopyInv' /\ [Next]_vars => [Copies!Replace]_(Copies!vars)
  <2>1. SUFFICES ASSUME CopyInv, CopyInv', [Next]_vars PROVE Copies!Replace
    OBVIOUS
  <2>2. /\ \A t \in Threads : ResultOf(t) /\ ResultOf(t)'
        /\ DOMAIN B = Threads /\ DOMAIN B' = Threads
    BY <2>1 DEF CopyInv, DataInv
  <2>3. UNCHANGED call
    BY <2>1
       DEF Next, Stopped, vars, Host, RunDpu, Tables, Copy, Check, PlanDpus, PlanIterations,
           Alloc, Send, Receive, Free
  <2>4. \A t : A(t)' = A(t) /\ Positions(t)' = Positions(t)
    BY <2>3, SameCall
  <2>5. \A t \in Threads : DOMAIN B[t] = Positions(t) /\ DOMAIN B'[t] = Positions(t)
    BY <2>2, <2>4 DEF ResultOf
  <2>6. Cells' = Cells
    BY <2>5 DEF Cells
  <2>7. Old' = Old /\ New' = New
    BY <2>3, <2>4, <2>6 DEF Old, New, call
  <2>8. ASSUME NEW c \in Cells
        PROVE  \/ B'[c[1]][c[2]] = B[c[1]][c[2]]
               \/ B[c[1]][c[2]] = Old[c] /\ B'[c[1]][c[2]] = New[c]
    <3>1. PICK t \in Threads : \E x \in DOMAIN B[t] : c = <<t, x>>
      BY DEF Cells
    <3>2. PICK x \in Positions(t) : c = <<t, x>>
      BY <2>5, <3>1
    <3>3. Old[c] = <<"B", t, x>> /\ New[c] = A(t)[Reversed(x, k[t])]
      BY <3>2 DEF Old, New
    <3>4. B[t][x] = IF Brought(t, x) THEN New[c] ELSE Old[c]
      BY <2>2, <3>3 DEF ResultOf
    <3>5. B'[t][x] = IF Brought(t, x)' THEN New[c] ELSE Old[c]
      BY <2>2, <2>3, <2>4, <3>3 DEF ResultOf, call
    <3>6. Brought(t, x) => Brought(t, x)'
      <4>1. SUFFICES ASSUME Brought(t, x) PROVE Brought(t, x)'
        OBVIOUS
      <4>2. CASE \E u \in Threads : Step(u)
        BY <2>1, <3>2, <4>1, <4>2, BroughtStays DEF CopyInv
      <4>3. CASE UNCHANGED vars
        BY <2>3, <4>1, <4>3, SameCall DEF Brought, vars, plan
      <4>4. QED BY <2>1, <4>2, <4>3 DEF Next, Stopped, Step
    <3>7. QED BY <3>2, <3>4, <3>5, <3>6
  <2>9. QED BY <2>6, <2>7, <2>8 DEF Copies!Replace
<1>3. QED BY <1>1, <1>2, CopyInvariance, PTL DEF Spec, ImplementsCopy, Copies!Safety

(***************************************************************************)
(* A copy that returns is whole: B is the bit-reversed A of the thread,    *)
(* the pieces that the last iteration brought included, which the last     *)
(* loop of COBRA gathers with the tables of both widths                    *)
(* (helib_c_modulus_dpu.cpp:192-209).                                      *)
(***************************************************************************)
Copied(t) == \A x \in DOMAIN B[t] : B[t][Reversed(x, k[t])] = A(t)[x]

\* No position of B is left out when a call returns.
THEOREM CopiesWhole == Spec => [](\A t \in Threads : pc[t] = "done" => Copied(t))
<1>1. CopyInv => \A t \in Threads : pc[t] = "done" => Copied(t)
  <2>1. SUFFICES ASSUME CopyInv, NEW t \in Threads, pc[t] = "done",
                        NEW x \in DOMAIN B[t]
                 PROVE  B[t][Reversed(x, k[t])] = A(t)[x]
    BY DEF Copied
  <2>2. B[t] = [y \in Positions(t) |-> A(t)[Reversed(y, k[t])]]
    BY <2>1 DEF CopyInv, DataInv, ResultOf, Brought
  <2>3. x \in 0..(2^k[t] - 1) /\ k[t] \in Nat
    BY <2>1, <2>2, TablesHavePlaces DEF Positions, CopyInv, Inv
  <2>4. Reversed(x, k[t]) \in Positions(t) /\ Reversed(Reversed(x, k[t]), k[t]) = x
    BY <2>3, ReversedTwice DEF Positions
  <2>5. QED BY <2>2, <2>4
<1>2. QED BY <1>1, CopyInvariance, PTL
================================================================================

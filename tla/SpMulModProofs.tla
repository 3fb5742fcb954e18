----------------------------- MODULE SpMulModProofs -----------------------------
(***************************************************************************)
(* Proofs about SpMulMod, for every width, every modulus and all operands: *)
(* a sum is the one modulo pi, and so is every product that loses no bit,  *)
(* whatever the width of unsigned long long.  That every product of two    *)
(* residues is right takes a type twice as wide as a long, as in NTL; with *)
(* the 64 bits of a DPU every modulus from 4 on has a product that can     *)
(* come out wrong.                                                         *)
(***************************************************************************)
EXTENDS SpMulMod, EqualShares

(***************************************************************************)
(* One conditional subtraction (dpu_add_ctxt.c:44-47) reduces a number     *)
(* below twice the modulus.                                                *)
(***************************************************************************)
LEMMA CorrectExcess ==
  ASSUME NEW n \in Nat \ {0}, NEW x \in 0..(2 * n - 1)
  PROVE  /\ sp_CorrectExcess(x, n) \in 0..(n - 1)
         /\ sp_CorrectExcess(x, n) = x % n
<1>1. CASE x - n >= 0
  <2>1. sp_CorrectExcess(x, n) = x - n /\ x - n \in 0..(n - 1)
    BY <1>1 DEF sp_CorrectExcess
  <2>2. (n + (x - n)) % n = x - n /\ n + (x - n) = x
    BY <2>1
  <2>3. QED BY <2>1, <2>2
<1>2. CASE x - n < 0
  BY <1>2 DEF sp_CorrectExcess
<1>3. QED BY <1>1, <1>2

(***************************************************************************)
(* The coefficients of a row are reduced again after an addition, and the  *)
(* sum is the one modulo n.                                                *)
(***************************************************************************)
THEOREM AddModReduces ==
  ASSUME NEW n \in Nat \ {0}, NEW x \in 0..(n - 1), NEW y \in 0..(n - 1)
  PROVE  /\ AddMod(x, y, n) \in 0..(n - 1)
         /\ AddMod(x, y, n) = (x + y) % n
<1>1. x + y \in 0..(2 * n - 1)
  OBVIOUS
<1>2. QED BY <1>1, CorrectExcess DEF AddMod

--------------------------------------------------------------------------------
(***************************************************************************)
(* The powers of two of the code are multiples of the smallest one.        *)
(***************************************************************************)
Unit == 2^(NTL_SP_NBITS - 2)

\* The powers of two of the code's widths, as multiples of one unit that the provers treat as a
\* number.
LEMMA Widths ==
  /\ NTL_SP_NBITS \in Nat /\ Unit \in Nat /\ Unit >= 1
  /\ 2^(NTL_SP_NBITS - 1) = 2 * Unit
  /\ 2^NTL_SP_NBITS = 4 * Unit
  /\ 2^(LONG_BITS - 1) = 32 * Unit
  /\ 2^LONG_BITS = 64 * Unit
  /\ 2^NTL_PRE_SHIFT2 = Unit * (64 * Unit)
  /\ LONG_LONG_BITS >= 2 * LONG_BITS => 2^LONG_LONG_BITS >= 4096 * (Unit * Unit)
<1> DEFINE N == NTL_SP_NBITS
           u == N - 2
           pow(k) == 2^k
<1>1. /\ N \in Nat /\ u \in Nat /\ N = u + 2 /\ LONG_BITS = u + 6 /\ LONG_BITS \in Nat
      /\ LONG_LONG_BITS \in Nat /\ NTL_PRE_SHIFT2 = u + (u + 6)
  BY WidthAssumption DEF NTL_SP_NBITS, NTL_PRE_SHIFT2
<1> HIDE DEF N
<1>2. /\ \A k \in Nat : pow(k) \in Nat \ {0} /\ pow(k + 1) = 2 * pow(k)
      /\ \A k, l \in Nat : pow(k + l) = pow(k) * pow(l)
  BY PowerPositive, PowerDoubles, PowerSum
<1> HIDE DEF pow, u
<1>3. pow(u) \in Nat /\ pow(u) >= 1
  BY <1>1, <1>2
<1>4. pow(u + 1) = 2 * pow(u)
  BY <1>1, <1>2
<1>5. pow(u + 2) = 4 * pow(u)
  <2>1. u + 1 \in Nat /\ (u + 1) + 1 = u + 2
    BY <1>1
  <2>2. pow((u + 1) + 1) = 2 * pow(u + 1)
    BY <1>2, <2>1
  <2>3. QED BY <1>3, <1>4, <2>1, <2>2
<1>6. pow(u + 5) = 32 * pow(u) /\ pow(u + 6) = 64 * pow(u)
  <2>1. /\ u + 2 \in Nat /\ u + 3 \in Nat /\ u + 4 \in Nat /\ u + 5 \in Nat /\ (u + 2) + 1 = u + 3
        /\ (u + 3) + 1 = u + 4 /\ (u + 4) + 1 = u + 5 /\ (u + 5) + 1 = u + 6
    BY <1>1
  <2>2. pow(u + 3) = 2 * pow(u + 2) /\ pow(u + 4) = 2 * pow(u + 3)
    BY <1>2, <2>1
  <2>3. pow(u + 5) = 2 * pow(u + 4) /\ pow(u + 6) = 2 * pow(u + 5)
    BY <1>2, <2>1
  <2>4. QED BY <1>3, <1>5, <2>2, <2>3
<1>7. pow(u + (u + 6)) = pow(u) * (64 * pow(u))
  <2>1. u + 6 \in Nat
    BY <1>1
  <2>2. QED BY <1>1, <1>2, <1>6, <2>1
<1>8. ASSUME LONG_LONG_BITS >= 2 * LONG_BITS
      PROVE  pow(LONG_LONG_BITS) >= 4096 * (pow(u) * pow(u))
  <2> DEFINE d == LONG_LONG_BITS - 2 * LONG_BITS
             v == pow(u)
             w == pow(d)
  <2>1. d \in Nat /\ LONG_LONG_BITS = (LONG_BITS + LONG_BITS) + d /\ LONG_BITS + LONG_BITS \in Nat
    BY <1>1, <1>8
  <2> HIDE DEF d
  <2>2. pow(LONG_LONG_BITS) = (pow(LONG_BITS) * pow(LONG_BITS)) * pow(d)
    BY <1>1, <1>2, <2>1
  <2>3. pow(LONG_BITS) = 64 * v
    BY <1>1, <1>6
  <2>4. v \in Nat /\ w \in Nat /\ w >= 1
    BY <1>2, <1>3, <2>1
  <2>5. pow(LONG_LONG_BITS) = ((64 * v) * (64 * v)) * w
    BY <2>2, <2>3
  <2> HIDE DEF v, w
  <2>6. (64 * v) * (64 * v) = 4096 * (v * v) /\ v * v \in Nat
    BY <2>4
  <2>7. \A x \in Nat : x * w >= x
    BY <2>4
  <2>8. pow(LONG_LONG_BITS) >= 4096 * (v * v)
    BY <2>5, <2>6, <2>7
  <2>9. QED BY <2>8 DEF v
<1>9. N - 1 = u + 1 /\ LONG_BITS - 1 = u + 5
  BY <1>1
<1>10. QED BY <1>1, <1>3, <1>4, <1>5, <1>6, <1>7, <1>8, <1>9 DEF pow, u, N, Unit
--------------------------------------------------------------------------------
(***************************************************************************)
(* The shift that makes a modulus NTL_SP_NBITS bits long exists, and the   *)
(* truncated inverse is the quotient of 2^NTL_PRE_SHIFT2.                  *)
(***************************************************************************)
LEMMA Normalized ==
  ASSUME NEW n \in 1..(2^NTL_SP_NBITS - 1)
  PROVE  /\ Shamt(n) \in 0..NTL_SP_NBITS
         /\ n * 2^Shamt(n) \in (2 * Unit)..(4 * Unit - 1)
<1> DEFINE N == NTL_SP_NBITS
           ok(s) == s \in 0..N /\ n * 2^s \in 2^(N - 1)..(2^N - 1)
           S == {s \in Nat : n * 2^s >= 2 * Unit}
<1>1. /\ N \in Nat /\ N - 1 \in Nat /\ Unit \in Nat /\ Unit >= 1
      /\ 2^(N - 1) = 2 * Unit /\ 2^N = 4 * Unit
  <2>1. N - 1 \in Nat
    BY WidthAssumption DEF NTL_SP_NBITS
  <2>2. QED BY <2>1, Widths
<1>2. n \in Nat /\ n >= 1 /\ n <= 4 * Unit - 1
  BY <1>1
<1>3. N - 1 \in S
  <2>1. n * (2 * Unit) >= 2 * Unit
    BY <1>1, <1>2
  <2>2. QED BY <1>1, <2>1
<1>4. PICK s \in S : \A y \in S : s <= y
  <2> HIDE DEF S
  <2>1. S \in SUBSET Nat
    BY DEF S
  <2>2. QED BY <1>3, <2>1, Least
<1>5. s \in Nat /\ s <= N - 1 /\ n * 2^s >= 2 * Unit /\ 2^s \in Nat
  <2>1. s \in Nat /\ n * 2^s >= 2 * Unit
    BY <1>4
  <2>2. s <= N - 1
    <3> HIDE DEF S
    <3>1. QED BY <1>3, <1>4
  <2>3. QED BY <2>1, <2>2, PowerPositive
<1>6. n * 2^s <= 4 * Unit - 1
  <2>1. CASE s = 0
    <3>1. 2^s = 1
      BY <2>1, PowerZero
    <3>2. QED BY <1>2, <3>1
  <2>2. CASE s # 0
    <3> DEFINE v == 2^(s - 1)
    <3>1. s - 1 \in Nat /\ (s - 1) + 1 = s
      BY <1>5, <2>2
    <3>2. 2^((s - 1) + 1) = 2 * v /\ v \in Nat
      BY <3>1, PowerDoubles, PowerPositive
    <3>3. 2^s = 2 * v
      BY <3>1, <3>2
    <3>4. ~(n * v >= 2 * Unit)
      <4>1. s - 1 \notin S
        <5> HIDE DEF S
        <5>1. ~(s <= s - 1)
          BY <1>5
        <5>2. QED BY <1>4, <5>1
      <4>2. QED BY <3>1, <4>1
    <3> HIDE DEF v
    <3>5. n * v \in Nat /\ n * (2 * v) = 2 * (n * v)
      BY <1>2, <3>2
    <3>6. QED BY <1>1, <3>3, <3>4, <3>5
  <2>3. QED BY <2>1, <2>2
<1>7. ok(s)
  <2>1. n * 2^s \in Nat
    BY <1>2, <1>5
  <2>2. QED BY <1>1, <1>5, <1>6, <2>1
<1>8. Shamt(n) = CHOOSE r : ok(r)
  BY DEF Shamt
<1>9. ok(Shamt(n))
  <2> HIDE DEF ok
  <2>1. QED BY <1>7, <1>8
<1>10. QED BY <1>1, <1>9

(***************************************************************************)
(* The quotient estimated from the upper bits of the product and from the  *)
(* truncated inverse is the quotient or one less.  p stands for Unit, w    *)
(* for the normalised modulus, v for its inverse, h for the upper bits of  *)
(* the product x, and q for the estimate.                                  *)
(***************************************************************************)
LEMMA Estimate ==
  ASSUME NEW p \in Nat, p >= 1,
         NEW w \in Nat, 2 * p <= w, NEW x \in Nat,
         NEW h \in Nat, NEW v \in Nat, NEW q \in Nat,
         h < 16 * p,
         h * p <= x, x < h * p + p,
         v * w <= 64 * (p * p), 64 * (p * p) < v * w + w,
         (64 * p) * q <= h * v, h * v < (64 * p) * q + 64 * p
  PROVE  q * w <= x /\ x - q * w < 2 * w
<1> DEFINE hv == h * v
           qw == q * w
           hp == h * p
           pw == p * w
<1>0. hv \in Nat /\ qw \in Nat /\ hp \in Nat /\ pw \in Nat /\ p * p \in Nat /\ v * w \in Nat
  OBVIOUS
<1>1. (64 * p) * qw <= h * (v * w)
  <2>1. ((64 * p) * q) * w <= (h * v) * w
    <3> DEFINE l == (64 * p) * q
    <3>1. l \in Nat /\ l <= hv
      BY <1>0
    <3> HIDE DEF l, hv
    <3>2. l * w <= hv * w
      BY <1>0, <3>1
    <3>3. QED BY <3>2 DEF l, hv
  <2>2. ((64 * p) * q) * w = (64 * p) * (q * w) /\ (h * v) * w = h * (v * w)
    OBVIOUS
  <2>3. QED BY <2>1, <2>2
<1>2. h * (v * w) <= h * (64 * (p * p))
  <2> DEFINE l == v * w
             m == 64 * (p * p)
  <2>1. l \in Nat /\ m \in Nat /\ l <= m
    OBVIOUS
  <2> HIDE DEF l, m
  <2>2. h * l <= h * m
    BY <2>1
  <2>3. QED BY <2>2 DEF l, m
<1>3. h * (64 * (p * p)) = (64 * p) * hp
  OBVIOUS
<1>4. qw <= hp
  <2>1. (64 * p) * qw <= (64 * p) * hp
    <3>1. h * (v * w) \in Nat /\ h * (64 * (p * p)) \in Nat /\ (64 * p) * qw \in Nat
      BY <1>0
    <3>2. QED BY <1>1, <1>2, <1>3, <3>1
  <2>2. SUFFICES ASSUME qw >= hp + 1 PROVE FALSE
    BY <1>0
  <2> HIDE DEF qw, hp
  <2>3. (64 * p) * qw >= (64 * p) * hp + 64 * p
    <3> DEFINE c == 64 * p
    <3>1. c \in Nat
      OBVIOUS
    <3> HIDE DEF c
    <3>2. c * qw >= c * (hp + 1) /\ c * (hp + 1) = c * hp + c
      BY <1>0, <2>2, <3>1
    <3>3. QED BY <3>2 DEF c
  <2>4. QED BY <1>0, <2>1, <2>3
<1>5. qw <= x
  BY <1>0, <1>4
\* The other side, multiplied by 64 * p.
<1>6. h * w <= 16 * pw
  <2>1. h * w <= (16 * p) * w
    OBVIOUS
  <2>2. (16 * p) * w = 16 * pw
    OBVIOUS
  <2>3. QED BY <2>1, <2>2
<1>7. (64 * p) * hp <= h * (v * w) + h * w
  <2> DEFINE l == v * w
             m == 64 * (p * p)
  <2>1. l \in Nat /\ m \in Nat /\ m <= l + w
    OBVIOUS
  <2> HIDE DEF l, m
  <2>2. h * m <= h * (l + w) /\ h * (l + w) = h * l + h * w
    BY <2>1
  <2>3. QED BY <1>3, <2>2 DEF l, m
<1>8. h * (v * w) <= (64 * p) * qw + 64 * pw
  <2> DEFINE l == (64 * p) * q + 64 * p
  <2>1. l \in Nat /\ hv <= l
    BY <1>0
  <2> HIDE DEF l, hv
  <2>2. hv * w <= l * w
    BY <1>0, <2>1
  <2>3. l * w = (64 * p) * qw + 64 * pw /\ hv * w = h * (v * w)
    BY DEF l, hv
  <2>4. QED BY <2>2, <2>3
<1>9. (64 * p) * (hp - qw) <= 80 * pw
  <2>1. (64 * p) * (hp - qw) = (64 * p) * hp - (64 * p) * qw
    BY <1>0
  <2>2. h * (v * w) \in Nat /\ h * w \in Nat /\ (64 * p) * hp \in Nat /\ (64 * p) * qw \in Nat
    BY <1>0
  <2>3. QED BY <1>0, <1>6, <1>7, <1>8, <2>1, <2>2
<1>10. 64 * (hp - qw) <= 80 * w
  <2> DEFINE d == hp - qw
  <2>1. d \in Int /\ (64 * p) * d = p * (64 * d) /\ 80 * pw = p * (80 * w)
    BY <1>0
  <2> DEFINE l == 64 * d
             m == 80 * w
  <2>2. l \in Int /\ m \in Int /\ p * l <= p * m
    BY <1>9, <2>1
  <2> HIDE DEF l, m, d
  <2>3. SUFFICES ASSUME l >= m + 1 PROVE FALSE
    BY <2>2 DEF l, m, d
  <2>4. p * l >= p * (m + 1) /\ p * (m + 1) = p * m + p
    BY <2>2, <2>3
  <2>5. p * l \in Int /\ p * m \in Int
    BY <2>2
  <2>6. QED BY <2>2, <2>4, <2>5
<1>11. x - qw < 2 * w
  <2> HIDE DEF hp, qw
  <2>1. QED BY <1>0, <1>10 DEF hp
<1>12. QED BY <1>5, <1>11
--------------------------------------------------------------------------------
(***************************************************************************)
(* What the normalised multiplication leaves, divided by the shift, is the *)
(* remainder of the product.                                               *)
(***************************************************************************)
LEMMA Shifted ==
  ASSUME NEW n \in Nat \ {0}, NEW c \in Nat \ {0}, NEW x \in Nat, NEW q \in Nat,
         q * (n * c) <= x * c, x * c - q * (n * c) < 2 * (n * c)
  PROVE  ((x * c - q * (n * c)) % (n * c)) \div c = x % n
<1> DEFINE w == n * c
           u == x * c - q * w
           d == x - q * n
<1>1. d \in Int /\ u = c * d
  <2>1. q * (n * c) = (q * n) * c /\ q * n \in Nat
    OBVIOUS
  <2> DEFINE l == q * n
  <2> HIDE DEF l
  <2>2. l \in Nat => x * c - l * c = c * (x - l)
    OBVIOUS
  <2>3. QED BY <2>1, <2>2 DEF l
<1>2. w \in Nat \ {0} /\ w = c * n
  OBVIOUS
<1>3. u >= 0 /\ u < 2 * w
  OBVIOUS
<1>4. d >= 0 /\ d < 2 * n
  <2> HIDE DEF u, d, w
  <2>1. ~(d <= -1)
    <3>1. SUFFICES ASSUME d <= -1 PROVE FALSE
      OBVIOUS
    <3>2. c * d <= -c
      BY <1>1, <3>1
    <3>3. QED BY <1>1, <1>3, <3>2
  <2>2. ~(d >= 2 * n)
    <3>1. SUFFICES ASSUME d >= 2 * n PROVE FALSE
      OBVIOUS
    <3>2. c * d >= c * (2 * n) /\ c * (2 * n) = 2 * (c * n)
      BY <1>1, <3>1
    <3>3. c * d \in Int /\ c * n \in Int
      BY <1>1
    <3>4. QED BY <1>1, <1>2, <1>3, <3>2, <3>3
  <2>3. QED BY <1>1, <2>1, <2>2
<1>5. PICK e \in {0, 1} : \E t \in 0..(n - 1) : d = e * n + t
  <2> HIDE DEF d
  <2>1. CASE d < n
    <3>1. d \in 0..(n - 1) /\ d = 0 * n + d
      BY <1>1, <1>4, <2>1
    <3>2. QED BY <3>1
  <2>2. CASE d >= n
    <3>1. d - n \in 0..(n - 1) /\ d = 1 * n + (d - n)
      BY <1>1, <1>4, <2>2
    <3>2. QED BY <3>1
  <2>3. QED BY <1>1, <2>1, <2>2
<1>6. PICK t \in 0..(n - 1) : d = e * n + t
  BY <1>5
<1>7. x % n = t
  <2>1. x = (q + e) * n + t /\ q + e \in Nat
    <3>1. q * n \in Nat /\ e * n \in Nat /\ (q + e) * n = q * n + e * n
      OBVIOUS
    <3>2. QED BY <1>6, <3>1
  <2>2. QED BY <2>1, BlockStart
<1>8. u % w = c * t
  <2>1. c * t \in 0..(w - 1)
    <3>1. c * t >= 0 /\ c * t <= c * (n - 1) /\ c * (n - 1) = c * n - c
      OBVIOUS
    <3>2. c * t \in Nat
      OBVIOUS
    <3>3. QED BY <1>2, <3>1, <3>2
  <2>2. c * d = e * (c * n) + c * t
    <3>1. c * (e * n + t) = e * (c * n) + c * t
      OBVIOUS
    <3>2. QED BY <1>6, <3>1
  <2>3. u = e * w + c * t
    BY <1>1, <1>2, <2>2
  <2> HIDE DEF u, w, d
  <2>4. QED BY <1>2, <2>1, <2>3, BlockStart
<1>9. (c * t) \div c = t
  BY ExactDiv
<1>10. QED BY <1>7, <1>8, <1>9

\* Conversions of numbers that fit.
LEMMA Fits ==
  /\ \A k \in 0..(64 * Unit - 1) : ULong(k) = k
  /\ \A k \in 0..(32 * Unit - 1) : Long(k) = k
  /\ LONG_LONG_BITS >= 2 * LONG_BITS => \A k \in 0..(4096 * (Unit * Unit) - 1) : ULongLong(k) = k
<1>1. Unit \in Nat /\ Unit >= 1 /\ Unit * Unit \in Nat
  BY Widths
<1>2. \A k \in 0..(64 * Unit - 1) : ULong(k) = k
  <2>1. ASSUME NEW k \in 0..(64 * Unit - 1) PROVE k % (64 * Unit) = k
    BY <1>1
  <2>2. QED BY <2>1, Widths DEF ULong
<1>3. \A k \in 0..(32 * Unit - 1) : Long(k) = k
  <2>1. ASSUME NEW k \in 0..(32 * Unit - 1) PROVE ULong(k) = k /\ k < 32 * Unit
    BY <1>1, <1>2
  <2>2. QED BY <2>1, Widths DEF Long
<1>4. ASSUME LONG_LONG_BITS >= 2 * LONG_BITS, NEW k \in 0..(4096 * (Unit * Unit) - 1)
      PROVE  ULongLong(k) = k
  <2> DEFINE m == 2^LONG_LONG_BITS
  <2>1. m \in Nat \ {0}
    BY WidthAssumption, PowerPositive
  <2>2. m >= 4096 * (Unit * Unit)
    BY <1>4, Widths
  <2> HIDE DEF m
  <2>3. k \in 0..(m - 1)
    BY <1>1, <2>1, <2>2
  <2>4. k % m = k
    BY <2>1, <2>3
  <2>5. QED BY <2>4 DEF ULongLong, m
<1>5. QED BY <1>2, <1>3, <1>4

(***************************************************************************)
(* With the wide type of NTL no product overflows, the estimated quotient  *)
(* is the right one or one less, and one correction is enough.             *)
(***************************************************************************)
LEMMA MulModMultiplies ==
  ASSUME LONG_LONG_BITS >= 2 * LONG_BITS,
         NEW n \in 1..(2^NTL_SP_NBITS - 1), NEW x \in 0..(n - 1), NEW y \in 0..(n - 1),
         NEW r \in MulMod(x, y, n, Inv(n), Shamt(n))
  PROVE  r = (x * y) % n
<1> DEFINE p == Unit
           c == 2^Shamt(n)
           w == n * c
           z == y * c
           U == x * z
           h == U \div p
           v == (p * (64 * p)) \div w
           q == (h * v) \div (64 * p)
<1>1. /\ p \in Nat /\ p >= 1 /\ n \in Nat \ {0} /\ x \in Nat /\ y \in Nat /\ x < n /\ y < n
      /\ 2^(NTL_SP_NBITS - 2) = p /\ 2^LONG_BITS = 64 * p /\ 2^NTL_PRE_SHIFT2 = p * (64 * p)
  <2>1. 2^NTL_SP_NBITS \in Nat
    BY Widths
  <2>2. QED BY <2>1, Widths DEF Unit
<1>2. c \in Nat \ {0} /\ w \in (2 * p)..(4 * p - 1)
  <2>1. Shamt(n) \in 0..NTL_SP_NBITS /\ w \in (2 * Unit)..(4 * Unit - 1)
    BY Normalized
  <2>2. QED BY <2>1, PowerPositive, Widths
<1>3. Inv(n) = v
  BY <1>1 DEF Inv
<1>4. \A k \in 0..(64 * p - 1) : ULong(k) = k
  BY Fits
<1>5. \A k \in 0..(32 * p - 1) : Long(k) = k
  BY Fits
<1>6. \A k \in 0..(4096 * (p * p) - 1) : ULongLong(k) = k
  BY Fits
<1>7. z \in Nat /\ z < w
  <2> HIDE DEF c
  <2>1. z \in Nat /\ y * c + c <= n * c
    BY <1>1, <1>2, SharesApart
  <2>2. QED BY <1>1, <1>2, <2>1
<1>8. U \in Nat /\ U < 16 * (p * p)
  <2> HIDE DEF z, w, c
  <2>1. x < 4 * p /\ z < 4 * p
    <3>1. x < w
      <4>1. n * c >= n
        BY <1>1, <1>2
      <4>2. QED BY <1>1, <1>2, <4>1 DEF w
    <3>2. QED BY <1>1, <1>2, <1>7, <3>1
  <2>2. U \in Nat /\ x * z <= x * (4 * p) /\ x * (4 * p) <= (4 * p - 1) * (4 * p)
    BY <1>1, <1>7, <2>1
  <2>3. (4 * p - 1) * (4 * p) = 16 * (p * p) - 4 * p
    BY <1>1
  <2>4. x * z \in Nat /\ x * (4 * p) \in Nat /\ p * p \in Nat
    BY <1>1, <1>7
  <2>5. QED BY <1>1, <2>2, <2>3, <2>4
<1> HIDE DEF p
<1>9. ULongLong(U) = U
  <2> HIDE DEF U
  <2>1. p * p \in Nat
    BY <1>1
  <2>2. U \in 0..(4096 * (p * p) - 1)
    BY <1>8, <2>1
  <2>3. QED BY <1>6, <2>2
<1>10. h \in Nat /\ h < 16 * p /\ h * p <= U /\ U < h * p + p
  <2> HIDE DEF U
  <2>1. p \in Nat \ {0}
    BY <1>1
  <2>2. h \in Int /\ U % p \in 0..(p - 1) /\ U = p * h + (U % p)
    BY <1>8, <2>1, DivMod
  <2> HIDE DEF h
  <2>3. h * p = p * h /\ p * h \in Int
    BY <2>1, <2>2
  <2>4. ~(h <= -1)
    <3>1. h <= -1 => p * h <= -p
      BY <2>1, <2>2
    <3>2. QED BY <1>8, <2>1, <2>2, <2>3, <3>1
  <2>5. ~(h >= 16 * p)
    <3>1. h >= 16 * p => p * h >= p * (16 * p)
      BY <2>1, <2>2
    <3>2. p * (16 * p) = 16 * (p * p) /\ p * p \in Nat
      BY <2>1
    <3>3. QED BY <1>8, <2>1, <2>2, <2>3, <3>1, <3>2
  <2>6. QED BY <1>8, <2>1, <2>2, <2>3, <2>4, <2>5
<1> HIDE DEF h
<1>11. ULong(h) = h
  BY <1>1, <1>4, <1>10
<1>12. v \in Nat /\ v <= 32 * p /\ v * w <= 64 * (p * p) /\ 64 * (p * p) < v * w + w
  <2> DEFINE g == p * (64 * p)
  <2>1. g \in Nat /\ g = 64 * (p * p) /\ w \in Nat \ {0}
    BY <1>1, <1>2
  <2> HIDE DEF g, w
  <2>2. v \in Int /\ g % w \in 0..(w - 1) /\ g = w * v + (g % w)
    BY <2>1, DivMod DEF g
  <2> HIDE DEF v
  <2>3. v * w = w * v /\ w * v \in Int
    BY <2>1, <2>2
  <2>4. ~(v <= -1)
    <3>1. v <= -1 => w * v <= -w
      BY <2>1, <2>2
    <3>2. QED BY <2>1, <2>2, <2>3, <3>1
  <2>5. ~(v >= 32 * p + 1)
    <3>1. SUFFICES ASSUME v >= 32 * p + 1 PROVE FALSE
      OBVIOUS
    <3>2. v \in Nat /\ w * v >= (2 * p) * v
      BY <1>1, <1>2, <2>2, <2>4
    <3>3. (2 * p) * v >= (2 * p) * (32 * p + 1) /\ (2 * p) * (32 * p + 1) = 64 * (p * p) + 2 * p
      BY <1>1, <3>1, <3>2
    <3>4. p * p \in Nat /\ (2 * p) * v \in Nat
      BY <1>1, <3>2
    <3>5. QED BY <1>1, <2>1, <2>2, <2>3, <3>2, <3>3, <3>4
  <2>6. QED BY <1>1, <2>1, <2>2, <2>3, <2>4, <2>5
<1> HIDE DEF v
<1>13. h * v \in Nat /\ h * v < 4096 * (p * p) /\ h * v <= (16 * p) * (32 * p)
  <2>1. h * v <= (16 * p) * v /\ (16 * p) * v <= (16 * p) * (32 * p)
    BY <1>1, <1>10, <1>12
  <2>2. (16 * p) * (32 * p) = 512 * (p * p) /\ p * p \in Nat /\ p * p >= 1
    BY <1>1
  <2>3. h * v \in Nat /\ (16 * p) * v \in Nat
    BY <1>1, <1>10, <1>12
  <2>4. QED BY <2>1, <2>2, <2>3
<1>14. ULongLong(h * v) = h * v
  <2> DEFINE g == h * v
  <2>1. p * p \in Nat /\ g \in Nat /\ g < 4096 * (p * p)
    BY <1>1, <1>13
  <2> HIDE DEF g
  <2>2. g \in 0..(4096 * (p * p) - 1)
    BY <2>1
  <2>3. QED BY <1>6, <2>2 DEF g
<1>15. q \in Nat /\ q <= 8 * p /\ (64 * p) * q <= h * v /\ h * v < (64 * p) * q + 64 * p
  <2> DEFINE g == h * v
             m == 64 * p
  <2>1. g \in Nat /\ m \in Nat \ {0} /\ g <= m * (8 * p)
    <3>1. (16 * p) * (32 * p) = (64 * p) * (8 * p)
      BY <1>1
    <3>2. QED BY <1>1, <1>13, <3>1
  <2>2. m = 64 * p
    OBVIOUS
  <2> HIDE DEF g, m
  <2>3. q \in Int /\ g % m \in 0..(m - 1) /\ g = m * q + (g % m)
    BY <2>1, DivMod DEF g, m
  <2> HIDE DEF q
  <2>4. m * q \in Int /\ m * (8 * p) \in Int
    BY <1>1, <2>1, <2>3
  <2>5. ~(q <= -1)
    <3>1. q <= -1 => m * q <= -m
      BY <2>1, <2>3
    <3>2. QED BY <2>1, <2>3, <2>4, <3>1
  <2>6. ~(q >= 8 * p + 1)
    <3>1. q >= 8 * p + 1 => m * q >= m * (8 * p + 1)
      BY <1>1, <2>1, <2>3
    <3>2. m * (8 * p + 1) = m * (8 * p) + m
      BY <1>1, <2>1
    <3>3. QED BY <2>1, <2>3, <2>4, <3>1, <3>2
  <2>7. q \in Nat /\ q <= 8 * p /\ m * q <= g /\ g < m * q + m
    BY <1>1, <2>1, <2>3, <2>4, <2>5, <2>6
  <2>8. QED BY <2>7 DEF g, m
<1> HIDE DEF q
<1>16. ll_mul_hi(h, v) = {q}
  <2>1. LONG_LONG_BITS > LONG_BITS
    BY WidthAssumption
  <2>2. ll_mul_hi(h, v) = {ULong((h * v) \div (64 * p))}
    BY <1>1, <1>14, <2>1 DEF ll_mul_hi, ll_get_hi
  <2>3. ULong(q) = q
    BY <1>1, <1>4, <1>15
  <2>4. QED BY <2>2, <2>3 DEF q
<1>17. q * w <= U /\ U - q * w < 2 * w
  <2>1. w \in Nat /\ 2 * p <= w
    BY <1>1, <1>2
  <2> HIDE DEF w, U
  <2>2. QED BY <1>1, <1>8, <1>10, <1>12, <1>15, <2>1, Estimate
<1>18. Long(U - q * w) = U - q * w /\ U - q * w \in 0..(2 * w - 1)
  <2>1. w \in Nat /\ q * w \in Nat
    BY <1>1, <1>2, <1>15
  <2> HIDE DEF w, U
  <2>2. U - q * w \in 0..(2 * w - 1)
    BY <1>8, <1>17, <2>1
  <2>3. U - q * w \in 0..(32 * p - 1)
    BY <1>1, <1>2, <2>1, <2>2
  <2>4. QED BY <1>5, <2>2, <2>3
<1>19. sp_NormalizedMulMod(x, z, w, v) = {(U - q * w) % w}
  <2>1. sp_NormalizedMulMod(x, z, w, v) = {sp_CorrectExcess(Long(U - Q * w), w) : Q \in ll_mul_hi(h, v)}
    BY <1>1, <1>9, <1>11 DEF sp_NormalizedMulMod, h
  <2>2. sp_NormalizedMulMod(x, z, w, v) = {sp_CorrectExcess(U - q * w, w)}
    BY <1>16, <1>18, <2>1
  <2>3. w \in Nat \ {0}
    BY <1>1, <1>2
  <2> HIDE DEF w, U
  <2>4. sp_CorrectExcess(U - q * w, w) = (U - q * w) % w
    BY <1>18, <2>3, CorrectExcess
  <2>5. QED BY <2>2, <2>4
<1>20. r = ((U - q * w) % w) \div c
  <2>1. MulMod(x, y, n, v, Shamt(n)) = {k \div c : k \in sp_NormalizedMulMod(x, z, w, v)}
    BY DEF MulMod
  <2>2. QED BY <1>3, <1>19, <2>1
<1>21. U = (x * y) * c
  BY <1>1, <1>2
<1>22. ((U - q * w) % w) \div c = (x * y) % n
  <2>1. x * y \in Nat
    BY <1>1
  <2> DEFINE g == x * y
  <2>2. q * (n * c) <= g * c /\ g * c - q * (n * c) < 2 * (n * c) /\ U = g * c
    BY <1>17, <1>21
  <2> HIDE DEF g, c, U
  <2>3. ((g * c - q * (n * c)) % (n * c)) \div c = g % n
    BY <1>1, <1>2, <1>15, <2>1, <2>2, Shifted DEF g
  <2>4. QED BY <2>2, <2>3 DEF g
<1>23. QED BY <1>20, <1>22

\* What the lemmas on other widths need of the normalised modulus and of the conversions.
LEMMA Normal ==
  ASSUME NEW n \in 1..(2^NTL_SP_NBITS - 1)
  PROVE  /\ n \in Nat \ {0} /\ Unit \in Nat \ {0} /\ Inv(n) \in Nat
         /\ 2^Shamt(n) \in Nat \ {0} /\ n * 2^Shamt(n) \in (2 * Unit)..(4 * Unit - 1)
         /\ \A k \in 0..(64 * Unit - 1) : ULongLong(k) = k
<1>1. n \in Nat \ {0} /\ Unit \in Nat \ {0}
  BY Widths
<1>2. 2^Shamt(n) \in Nat \ {0} /\ n * 2^Shamt(n) \in (2 * Unit)..(4 * Unit - 1)
  BY Normalized, PowerPositive, Widths
<1>3. Inv(n) \in Nat
  <2> DEFINE w == n * 2^Shamt(n)
             g == Unit * (64 * Unit)
  <2>1. w \in Nat \ {0} /\ g \in Nat /\ Inv(n) = g \div w
    BY <1>1, <1>2, Widths DEF Inv
  <2> HIDE DEF w, g
  <2>2. QED BY <2>1, NatQuotients
<1>4. ASSUME NEW k \in 0..(64 * Unit - 1) PROVE ULongLong(k) = k
  <2> DEFINE m == 2^LONG_LONG_BITS
             d == LONG_LONG_BITS - LONG_BITS
             e == 2^d
  <2>1. d \in Nat /\ LONG_LONG_BITS = LONG_BITS + d /\ LONG_BITS \in Nat
    BY WidthAssumption
  <2>2. m = (64 * Unit) * e /\ e \in Nat \ {0}
    <3>1. 2^(LONG_BITS + d) = 2^LONG_BITS * 2^d
      BY <2>1, PowerSum
    <3>2. m = 2^LONG_BITS * e
      BY <2>1, <3>1
    <3>3. 2^LONG_BITS = 64 * Unit
      BY Widths
    <3>4. e \in Nat \ {0}
      BY <2>1, PowerPositive
    <3> HIDE DEF m, e
    <3>5. QED BY <3>2, <3>3, <3>4
  <2> HIDE DEF m, e
  <2>3. (64 * Unit) * e = 64 * Unit + (64 * Unit) * (e - 1) /\ (64 * Unit) * (e - 1) >= 0
    BY <1>1, <2>2
  <2> DEFINE y == (64 * Unit) * (e - 1)
  <2>4. m = 64 * Unit + y /\ y \in Int /\ y >= 0
    BY <1>1, <2>2, <2>3
  <2> HIDE DEF y
  <2>5. m \in Nat \ {0} /\ k \in 0..(m - 1)
    BY <1>1, <2>4
  <2>6. k % m = k
    BY <2>5
  <2>7. QED BY <2>6 DEF ULongLong, m
<1>5. QED BY <1>1, <1>2, <1>3, <1>4

(***************************************************************************)
(* A product whose upper bits are zero is right with a type of any width:  *)
(* whatever the shift by the width of a long makes of them, the quotient   *)
(* is estimated as 0.                                                      *)
(***************************************************************************)
LEMMA SmallProduct ==
  ASSUME NEW n \in 1..(2^NTL_SP_NBITS - 1), NEW x \in 0..(n - 1), NEW y \in 0..(n - 1),
         x * y * 2^Shamt(n) < 2^(NTL_SP_NBITS - 2),
         NEW r \in MulMod(x, y, n, Inv(n), Shamt(n))
  PROVE  r = (x * y) % n
<1> DEFINE p == Unit
           c == 2^Shamt(n)
           w == n * c
           z == y * c
           U == x * z
           v == Inv(n)
           g == x * y
<1>1. /\ p \in Nat \ {0} /\ n \in Nat \ {0} /\ c \in Nat \ {0} /\ w \in (2 * p)..(4 * p - 1)
      /\ v \in Nat /\ x \in Nat /\ y \in Nat /\ g \in Nat
      /\ 2^(NTL_SP_NBITS - 2) = p /\ \A k \in 0..(64 * p - 1) : ULongLong(k) = k
  BY Normal DEF Unit
<1>2. U = g * c /\ U \in 0..(p - 1)
  <2> HIDE DEF c
  <2>1. x * (y * c) = (x * y) * c /\ (x * y) * c \in Nat
    BY <1>1
  <2>2. (x * y) * c < p
    BY <1>1 DEF c
  <2>3. QED BY <1>1, <2>1, <2>2
<1> HIDE DEF p, U, v, w
<1>3. ULongLong(U) = U
  BY <1>1, <1>2
<1>4. ULong(U \div p) = 0
  <2>1. (p * 0 + U) \div p = 0
    BY <1>1, <1>2, PlaceInShare
  <2>2. U \div p = 0
    BY <1>1, <1>2, <2>1
  <2>3. 0 \in 0..(64 * p - 1)
    BY <1>1
  <2>4. QED BY <2>2, <2>3, Fits DEF p
<1>5. ll_mul_hi(0, v) = {0}
  <2>1. 0 * v = 0 /\ ULongLong(0) = 0 /\ ULong(0) = 0
    <3>1. 0 \in 0..(64 * p - 1)
      BY <1>1
    <3>2. QED BY <1>1, <3>1, Fits DEF p
  <2>2. 0 \div 2^LONG_BITS = 0
    <3> DEFINE m == 2^LONG_BITS
    <3>1. m \in Nat \ {0}
      BY WidthAssumption, PowerPositive
    <3> HIDE DEF m
    <3>2. (m * 0 + 0) \div m = 0
      BY <3>1, PlaceInShare
    <3>3. QED BY <3>1, <3>2 DEF m
  <2>3. QED BY <2>1, <2>2 DEF ll_mul_hi, ll_get_hi
<1>6. sp_CorrectExcess(Long(U - 0 * w), w) = U
  <2>1. U - 0 * w = U /\ U \in 0..(32 * p - 1)
    BY <1>1, <1>2
  <2>2. Long(U) = U
    BY <2>1, Fits DEF p
  <2>3. ~(U - w >= 0)
    BY <1>1, <1>2
  <2>4. QED BY <2>1, <2>2, <2>3 DEF sp_CorrectExcess
<1>7. sp_NormalizedMulMod(x, z, w, v) = {U}
  <2>1. sp_NormalizedMulMod(x, z, w, v) =
          {sp_CorrectExcess(Long(U - Q * w), w) : Q \in ll_mul_hi(ULong(U \div p), v)}
    BY <1>1, <1>3 DEF sp_NormalizedMulMod, U
  <2>2. QED BY <1>4, <1>5, <1>6, <2>1
<1>8. r = U \div c
  <2>1. MulMod(x, y, n, v, Shamt(n)) = {k \div c : k \in sp_NormalizedMulMod(x, z, w, v)}
    BY DEF MulMod, w
  <2>2. QED BY <1>7, <2>1 DEF v
<1>9. U \div c = g
  <2> HIDE DEF c, g
  <2>1. (c * g) \div c = g /\ c * g = g * c
    BY <1>1, ExactDiv
  <2>2. QED BY <1>2, <2>1
<1>10. g % n = g
  <2> HIDE DEF c, g
  <2>1. c * g <= c * n /\ ~(n <= g)
    <3>1. ASSUME n <= g PROVE FALSE
      <4>1. (g - n) * c >= 0 /\ (g - n) * c = g * c - n * c
        BY <1>1, <3>1
      <4>2. g * c \in Int /\ n * c \in Int
        BY <1>1
      <4>3. QED BY <1>1, <1>2, <4>1, <4>2 DEF w
    <3>2. (n - g) * c >= 0 /\ (n - g) * c = c * n - c * g
      BY <1>1, <3>1
    <3>3. QED BY <1>1, <3>1, <3>2
  <2>2. QED BY <1>1, <2>1
<1>11. QED BY <1>8, <1>9, <1>10

(***************************************************************************)
(* Three times the greatest residue, on a type no wider than a long: when  *)
(* the shift leaves nothing of the estimate, one correction is not enough. *)
(***************************************************************************)
LEMMA CutProduct ==
  ASSUME LONG_LONG_BITS = LONG_BITS, NEW n \in 4..(2^NTL_SP_NBITS - 1)
  PROVE  /\ 2 * n - 3 \in MulMod(n - 1, 3, n, Inv(n), Shamt(n))
         /\ 2 * n - 3 # ((n - 1) * 3) % n
<1> DEFINE p == Unit
           c == 2^Shamt(n)
           w == n * c
           z == 3 * c
           U == (n - 1) * z
           v == Inv(n)
           h == ULong(U \div p)
<1>1. n \in 1..(2^NTL_SP_NBITS - 1)
  <2>1. 2^NTL_SP_NBITS \in Nat
    BY Widths
  <2>2. QED BY <2>1
<1>2. /\ p \in Nat \ {0} /\ n \in Nat \ {0} /\ n >= 4 /\ c \in Nat \ {0}
      /\ w \in (2 * p)..(4 * p - 1)
      /\ 2^(NTL_SP_NBITS - 2) = p /\ \A k \in 0..(64 * p - 1) : ULongLong(k) = k
  BY <1>1, Normal DEF Unit
<1>3. U = 3 * w - z /\ z \in Nat /\ z <= w /\ U - w = c * (2 * n - 3)
  <2> HIDE DEF c
  <2>1. (n - 1) * (3 * c) = 3 * (n * c) - 3 * c
    BY <1>2
  <2>2. 3 * c \in Nat /\ (n - 3) * c >= 0 /\ (n - 3) * c = n * c - 3 * c
    BY <1>2
  <2>3. c * (2 * n - 3) = 2 * (n * c) - 3 * c
    BY <1>2
  <2> DEFINE s == n * c
             t == 3 * c
  <2>4. s \in Nat /\ t \in Nat
    BY <1>2
  <2> HIDE DEF s, t
  <2>5. QED BY <2>1, <2>2, <2>3, <2>4 DEF s, t
<1> HIDE DEF p, U, v, w, z, h
<1>4. U \in 0..(12 * p - 1) /\ U - w >= 0
  BY <1>2, <1>3
<1>5. ULongLong(U) = U /\ Long(U) = U
  BY <1>2, <1>4, Fits DEF p
<1>6. 0 \in ll_mul_hi(h, v)
  <2>1. ~(LONG_LONG_BITS > LONG_BITS)
    BY WidthAssumption
  <2>2. QED BY <2>1 DEF ll_mul_hi, ll_get_hi
<1>7. sp_CorrectExcess(Long(U - 0 * w), w) = c * (2 * n - 3)
  <2>1. U - 0 * w = U
    BY <1>2, <1>4
  <2>2. QED BY <1>3, <1>4, <1>5, <2>1 DEF sp_CorrectExcess
<1>8. c * (2 * n - 3) \in sp_NormalizedMulMod(n - 1, z, w, v)
  <2>1. sp_NormalizedMulMod(n - 1, z, w, v) =
          {sp_CorrectExcess(Long(U - Q * w), w) : Q \in ll_mul_hi(h, v)}
    BY <1>2, <1>5 DEF sp_NormalizedMulMod, U, h
  <2>2. QED BY <1>6, <1>7, <2>1
<1>9. 2 * n - 3 \in MulMod(n - 1, 3, n, v, Shamt(n))
  <2>1. MulMod(n - 1, 3, n, v, Shamt(n)) = {k \div c : k \in sp_NormalizedMulMod(n - 1, z, w, v)}
    BY DEF MulMod, w, z
  <2>2. (c * (2 * n - 3)) \div c = 2 * n - 3
    <3>1. 2 * n - 3 \in Nat
      BY <1>2
    <3> HIDE DEF c
    <3>2. QED BY <1>2, <3>1, ExactDiv
  <2>3. QED BY <1>8, <2>1, <2>2
<1>10. ((n - 1) * 3) % n = n - 3
  <2>1. (n * 2 + (n - 3)) % n = n - 3
    BY <1>2, PlaceInShare
  <2>2. n * 2 + (n - 3) = (n - 1) * 3
    BY <1>2
  <2>3. QED BY <2>1, <2>2
<1>11. QED BY <1>2, <1>9, <1>10 DEF v

(***************************************************************************)
(* For every modulus from 4 on MulMod (dpu_mul_ctxt.c:129-171) multiplies  *)
(* all its residues right, whatever an undefined shift yields, exactly     *)
(* when unsigned long long is twice as wide as a long, which NTL's         *)
(* sp_arith.h takes for granted and a DPU, where the two widths are equal, *)
(* does not have.                                                          *)
(***************************************************************************)
THEOREM WidthDecides ==
  ASSUME LONG_LONG_BITS = LONG_BITS \/ LONG_LONG_BITS >= 2 * LONG_BITS,
         NEW n \in 4..(2^NTL_SP_NBITS - 1)
  PROVE  (\A x, y \in 0..(n - 1) : MulMod(x, y, n, Inv(n), Shamt(n)) = {(x * y) % n})
         <=> LONG_LONG_BITS >= 2 * LONG_BITS
<1>1. n \in 1..(2^NTL_SP_NBITS - 1) /\ n \in Nat /\ n >= 4
  <2>1. 2^NTL_SP_NBITS \in Nat
    BY Widths
  <2>2. QED BY <2>1
<1>2. ASSUME LONG_LONG_BITS >= 2 * LONG_BITS, NEW x \in 0..(n - 1), NEW y \in 0..(n - 1)
      PROVE  MulMod(x, y, n, Inv(n), Shamt(n)) = {(x * y) % n}
  <2>1. \A r \in MulMod(x, y, n, Inv(n), Shamt(n)) : r = (x * y) % n
    BY <1>1, <1>2, MulModMultiplies
  <2>2. MulMod(x, y, n, Inv(n), Shamt(n)) # {}
    <3>1. \A k, e : ll_mul_hi(k, e) # {}
      BY DEF ll_mul_hi, ll_get_hi
    <3>2. \A f, k, e, m : sp_NormalizedMulMod(f, k, e, m) # {}
      BY <3>1 DEF sp_NormalizedMulMod
    <3>3. QED BY <3>2 DEF MulMod
  <2>3. QED BY <2>1, <2>2
<1>3. ASSUME LONG_LONG_BITS = LONG_BITS
      PROVE  \E x, y \in 0..(n - 1) : MulMod(x, y, n, Inv(n), Shamt(n)) # {(x * y) % n}
  <2>1. n - 1 \in 0..(n - 1) /\ 3 \in 0..(n - 1)
    BY <1>1
  <2>2. QED BY <1>3, <2>1, CutProduct
<1>4. LONG_LONG_BITS = LONG_BITS => ~(LONG_LONG_BITS >= 2 * LONG_BITS)
  BY WidthAssumption
<1>5. QED BY <1>2, <1>3, <1>4

--------------------------------------------------------------------------------
(***************************************************************************)
(* The inductive invariant says what the operands are, which no step       *)
(* changes, beside the result.                                             *)
(***************************************************************************)
Operands ==
  /\ op \in {"add", "mul"}
  /\ pi \in 2..(2^NTL_SP_NBITS - 1)
  /\ a \in 0..(pi - 1) /\ b \in 0..(pi - 1)

OperandsInv == Operands /\ ModularWithinWidth

\* No step takes the operands outside the range the code's assertions give them.
LEMMA NextOperands ==
  ASSUME OperandsInv, [Next]_vars
  PROVE  OperandsInv'
<1>1. Operands /\ ModularWithinWidth
  BY DEF OperandsInv
<1>2. Unit \in Nat /\ 2^NTL_SP_NBITS = 4 * Unit /\ pi \in 2..(4 * Unit - 1)
  BY <1>1, Widths DEF Operands
<1>3. pi \in Nat \ {0} /\ a \in 0..(pi - 1) /\ b \in 0..(pi - 1)
  BY <1>1, <1>2 DEF Operands
<1>4. CASE Add
  <2>1. AddMod(a, b, pi) \in 0..(pi - 1) /\ AddMod(a, b, pi) = (a + b) % pi
    BY <1>3, AddModReduces
  <2>2. AddMod(a, b, pi) \in 0..(32 * Unit - 1)
    BY <1>2, <2>1
  <2>3. Long(AddMod(a, b, pi)) = AddMod(a, b, pi)
    BY <2>2, Fits
  <2>4. result' = (a + b) % pi /\ op = "add" /\ UNCHANGED <<op, a, b, pi>>
    BY <1>4, <2>1, <2>3 DEF Add
  <2>5. QED BY <1>1, <2>4 DEF OperandsInv, Operands, ModularWithinWidth
<1>5. CASE Mul
  <2>1. result' \in MulMod(a, b, pi, Inv(pi), Shamt(pi)) /\ op = "mul" /\ UNCHANGED <<op, a, b, pi>>
    BY <1>5 DEF Mul
  <2>2. pi \in 1..(2^NTL_SP_NBITS - 1)
    BY <1>2
  <2>3. KeepsProduct(a, b, pi) => result' = (a * b) % pi
    BY <1>3, <2>1, <2>2, MulModMultiplies, SmallProduct DEF KeepsProduct
  <2>4. op' # "add" /\ (KeepsProduct(a, b, pi)' <=> KeepsProduct(a, b, pi))
    BY <2>1 DEF KeepsProduct
  <2>5. QED BY <1>1, <2>1, <2>3, <2>4 DEF OperandsInv, Operands, ModularWithinWidth
<1>6. CASE UNCHANGED vars
  BY <1>1, <1>6 DEF OperandsInv, Operands, ModularWithinWidth, vars
<1>7. QED BY <1>4, <1>5, <1>6 DEF Next, Computed

(***************************************************************************)
(* A coefficient that a program has computed (dpu_add_ctxt.c:88,           *)
(* dpu_mul_ctxt.c:188) is the sum modulo pi, or the product where it loses *)
(* no bit, with the widths of a DPU as with those of NTL.                  *)
(***************************************************************************)
THEOREM AlwaysWithinWidth == Spec => []ModularWithinWidth
<1>1. Init => OperandsInv
  BY DEF Init, OperandsInv, Operands, ModularWithinWidth
<1>2. OperandsInv /\ [Next]_vars => OperandsInv'
  BY NextOperands
<1>3. OperandsInv => ModularWithinWidth
  BY DEF OperandsInv
<1>4. QED BY <1>1, <1>2, <1>3, PTL DEF Spec
================================================================================

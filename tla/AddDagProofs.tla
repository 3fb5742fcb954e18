------------------------------ MODULE AddDagProofs ------------------------------
(***************************************************************************)
(* Proofs about AddDag for all numbers, capacities and numbers of threads. *)
(***************************************************************************)
EXTENDS AddDag, EqualShares, SequenceTheorems

--------------------------------------------------------------------------------
(* Arithmetic modulo RING, and functions that are defined step by step. *)

\* A remainder lies below the modulus and is its own remainder.
LEMMA Remainder ==
  ASSUME NEW n \in Nat \ {0}, NEW x \in Nat
  PROVE  /\ x % n \in 0..(n - 1)
         /\ x \in 0..(n - 1) => x % n = x
         /\ (x % n) % n = x % n
OBVIOUS

\* Adding a multiple changes no remainder.
LEMMA WithMultiple ==
  ASSUME NEW n \in Nat \ {0}, NEW x \in Nat, NEW k \in Nat
  PROVE  (n * k + x) % n = x % n
<1> DEFINE q == x \div n
           r == x % n
           s == n * k + x
<1>1. q \in Nat /\ r \in 0..(n - 1) /\ x = n * q + r
  BY NatQuotients
<1>3. s \in Nat /\ k + q \in Nat
  BY <1>1
<1> HIDE DEF q, r
<1>4. s = n * (k + q) + r
  <2>1. n * (k + q) = n * k + n * q
    BY <1>1
  <2>2. QED BY <1>1, <2>1
<1>5. (n * (k + q) + r) % n = r
  BY <1>1, <1>3, PlaceInShare
<1>6. QED BY <1>4, <1>5 DEF r

\* A factor may be reduced before a product is.
LEMMA ModTimes ==
  ASSUME NEW n \in Nat \ {0}, NEW x \in Nat, NEW y \in Nat
  PROVE  ((x % n) * y) % n = (x * y) % n
<1> DEFINE q == x \div n
           r == x % n
<1>1. q \in Nat /\ r \in Nat /\ x = n * q + r
  BY NatQuotients
<1> HIDE DEF q, r
<1>2. x * y = n * (q * y) + r * y /\ q * y \in Nat /\ r * y \in Nat
  BY <1>1
<1>3. (n * (q * y) + r * y) % n = (r * y) % n
  BY <1>2, WithMultiple
<1>4. QED BY <1>2, <1>3 DEF r

\* A summand may be reduced before a sum is.
LEMMA ModPlus ==
  ASSUME NEW n \in Nat \ {0}, NEW x \in Nat, NEW y \in Nat
  PROVE  ((x % n) + y) % n = (x + y) % n
<1> DEFINE q == x \div n
           r == x % n
<1>1. q \in Nat /\ r \in Nat /\ x = n * q + r
  BY NatQuotients
<1> HIDE DEF q, r
<1> DEFINE s == r + y
<1>2. s \in Nat /\ x + y = n * q + s
  BY <1>1
<1> HIDE DEF s
<1>3. (n * q + s) % n = s % n
  BY <1>1, <1>2, WithMultiple
<1>4. QED BY <1>2, <1>3 DEF r, s

--------------------------------------------------------------------------------
(* What is known of the operands, and of the products of their bits. *)

Operands ==
  /\ add.a \in Seq(Bit) /\ add.b \in Seq(Bit)
  /\ aSize >= 1 /\ aSize <= bSize
  /\ add.sizeLimit \in Nat \ {0} /\ add.nthreads \in Nat \ {0}

\* A bit that is not set or lies behind the end is an empty ciphertext.
LEMMA Values ==
  ASSUME NEW bits \in Seq(Bit), NEW i \in Nat
  PROVE  Value(bits, i) \in Ciphertexts /\ (i >= Len(bits) => Value(bits, i) = Empty)
<1>1. CASE i < Len(bits)
  <2>1. i + 1 \in 1..Len(bits)
    BY <1>1
  <2>2. bits[i + 1] \in Bit
    BY <2>1
  <2>3. QED BY <1>1, <2>2 DEF Value, Bit
<1>2. CASE ~(i < Len(bits))
  BY <1>2 DEF Value, Ciphertexts
<1>3. QED BY <1>1, <1>2

\* A ciphertext decrypts to a number below RING.
LEMMA Numbers ==
  ASSUME NEW x \in Ciphertexts
  PROVE  Number(x) \in 0..(RING - 1)
BY DagAssumption DEF Number, Ciphertexts, Empty

\* X(i) is a natural number, and 0 behind the longer operand.
LEMMA SumsOfBits ==
  ASSUME Operands, NEW i \in Nat
  PROVE  /\ Number(Value(add.a, i)) \in Nat /\ Number(Value(add.b, i)) \in Nat
         /\ X(i) \in Nat /\ (i >= bSize => X(i) = 0)
<1>1. Value(add.a, i) \in Ciphertexts /\ Value(add.b, i) \in Ciphertexts
  BY Values DEF Operands
<1>2. Number(Value(add.a, i)) \in 0..(RING - 1) /\ Number(Value(add.b, i)) \in 0..(RING - 1)
  BY <1>1, Numbers
<1>3. i >= bSize => Value(add.a, i) = Empty /\ Value(add.b, i) = Empty
  <2>1. aSize \in Nat /\ bSize \in Nat
    BY DEF Operands, aSize, bSize
  <2>2. QED BY <2>1, Values DEF Operands, aSize, bSize
<1>4. Number(Empty) = 0
  BY DEF Number
<1>5. QED BY <1>2, <1>3, <1>4, DagAssumption DEF X

\* The recursive function of ProductFrom exists and satisfies its equations.
LEMMA Products ==
  ASSUME Operands, NEW x \in Nat, NEW j \in Nat
  PROVE  /\ ProductFrom(x, j) \in [Nat -> 0..(RING - 1)]
         /\ ProductFrom(x, j)[0] = x % RING
         /\ \A d \in Nat : ProductFrom(x, j)[d + 1] = (ProductFrom(x, j)[d] * X(j + (d + 1))) % RING
<1> DEFINE R == 0..(RING - 1)
           y(d) == X(j + d)
           step == [d \in Nat |-> [u \in R |-> (u * y(d + 1)) % RING]]
           Is(f) == f = [d \in Nat |-> IF d = 0 THEN x % RING ELSE (f[d - 1] * X(j + d)) % RING]
<1>1. \A d \in Nat : y(d) \in Nat
  BY SumsOfBits
<1> HIDE DEF y
<1>2. ASSUME NEW u \in R, NEW v \in Nat PROVE (u * v) % RING \in R
  <2>1. u * v \in Nat
    BY DagAssumption
  <2>2. QED BY <2>1, DagAssumption
<1>3. step \in [Nat -> [R -> R]] /\ x % RING \in R
  <2>1. ASSUME NEW d \in Nat, NEW u \in R PROVE (u * y(d + 1)) % RING \in R
    <3>1. y(d + 1) \in Nat
      BY <1>1
    <3> HIDE DEF R
    <3>2. QED BY <1>2, <3>1
  <2>2. x % RING \in R
    BY DagAssumption
  <2>3. QED BY <2>1, <2>2
<1>4. \A d \in Nat, u \in R : step[d][u] = (u * y(d + 1)) % RING
  OBVIOUS
<1> HIDE DEF step
<1>5. PICK f \in [Nat -> R] : f[0] = x % RING /\ \A d \in Nat : f[d + 1] = step[d][f[d]]
  <2> HIDE DEF R
  <2>1. \A b \in R : \A s \in [Nat -> [R -> R]] :
          \E g \in [Nat -> R] : g[0] = b /\ \A d \in Nat : g[d + 1] = s[d][g[d]]
    BY Iteration
  <2>2. QED BY <1>3, <2>1
<1>6. Is(f)
  <2> DEFINE r == [d \in Nat |-> IF d = 0 THEN x % RING ELSE (f[d - 1] * X(j + d)) % RING]
  <2>1. ASSUME NEW d \in Nat PROVE f[d] = r[d]
    <3>1. CASE d = 0
      BY <1>5, <3>1
    <3>2. CASE d # 0
      <4>1. d - 1 \in Nat /\ (d - 1) + 1 = d /\ f[d - 1] \in R
        BY <3>2
      <4>2. f[(d - 1) + 1] = step[d - 1][f[d - 1]]
        BY <1>5, <4>1
      <4>3. f[d] = (f[d - 1] * y(d)) % RING
        BY <1>4, <4>1, <4>2
      <4>4. QED BY <3>2, <4>3 DEF y
    <3>3. QED BY <3>1, <3>2
  <2>2. f = [d \in Nat |-> f[d]] /\ r = [d \in Nat |-> r[d]]
    OBVIOUS
  <2> HIDE DEF r
  <2>3. f = r
    BY <2>1, <2>2
  <2>4. QED BY <2>3 DEF r
<1>7. Is(ProductFrom(x, j))
  <2>1. ProductFrom(x, j) = CHOOSE g : Is(g)
    BY DEF ProductFrom
  <2> HIDE DEF Is
  <2>2. QED BY <1>6, <2>1
<1> DEFINE g == ProductFrom(x, j)
<1> HIDE DEF g
<1>8. g = [d \in Nat |-> IF d = 0 THEN x % RING ELSE (g[d - 1] * y(d)) % RING]
  BY <1>7 DEF g, y
<1>9. g[0] = x % RING
  BY <1>8
<1>10. \A d \in Nat : g[d + 1] = (g[d] * y(d + 1)) % RING
  <2>1. SUFFICES ASSUME NEW d \in Nat PROVE g[d + 1] = (g[d] * y(d + 1)) % RING
    OBVIOUS
  <2>2. d + 1 \in Nat /\ d + 1 # 0 /\ (d + 1) - 1 = d
    OBVIOUS
  <2>3. QED BY <1>8, <2>2
<1>11. {d \in Nat : g[d] \in R} = Nat
  <2> DEFINE T == {d \in Nat : g[d] \in R}
  <2>1. 0 \in T
    BY <1>3, <1>9
  <2>2. ASSUME NEW d \in T PROVE d + 1 \in T
    BY <1>1, <1>2, <1>10
  <2> HIDE DEF T
  <2>3. T \in SUBSET Nat
    BY DEF T
  <2>4. T = Nat
    BY <2>1, <2>2, <2>3, StepByStep
  <2>5. QED BY <2>4 DEF T
<1>12. g \in [Nat -> R]
  BY <1>8, <1>11
<1>13. QED BY <1>9, <1>10, <1>12 DEF g, y

\* The recursive function of CarriesBelow exists and satisfies its equations.
LEMMA CarrySums ==
  ASSUME Operands, NEW i \in Nat
  PROVE  /\ CarriesBelow(i) \in [0..i -> 0..(RING - 1)]
         /\ CarriesBelow(i)[0] = 0
         /\ \A k \in 0..(i - 1) :
              CarriesBelow(i)[k + 1] = (CarriesBelow(i)[k] + Meaning(QNode(i - 1, k))) % RING
<1> DEFINE R == 0..(RING - 1)
           y(k) == Meaning(QNode(i - 1, k))
           step == [k \in Nat |-> [u \in R |-> IF k < i THEN (u + y(k)) % RING ELSE 0]]
           Is(f) == f = [k \in 0..i |-> IF k = 0 THEN 0 ELSE (f[k - 1] + Meaning(QNode(i - 1, k - 1))) % RING]
<1>1. \A k \in 0..(i - 1) : y(k) \in Nat
  <2>1. SUFFICES ASSUME NEW k \in 0..(i - 1) PROVE y(k) \in Nat
    OBVIOUS
  <2>2. QNode(i - 1, k) = [kind |-> "q", i |-> i - 1, j |-> k] /\ k \in Nat /\ (i - 1) - k \in Nat
    BY DEF QNode
  <2>3. Number(Value(add.a, k)) * Number(Value(add.b, k)) \in Nat
    BY <2>2, SumsOfBits
  <2>4. y(k) = ProductFrom(Number(Value(add.a, k)) * Number(Value(add.b, k)), k)[(i - 1) - k]
    BY <2>2 DEF Meaning
  <2> DEFINE v == Number(Value(add.a, k)) * Number(Value(add.b, k))
             F == ProductFrom(v, k)
             e == (i - 1) - k
  <2>5. v \in Nat /\ k \in Nat /\ e \in Nat
    BY <2>2, <2>3
  <2> HIDE DEF y, v, e, R
  <2>6. F \in [Nat -> 0..(RING - 1)]
    BY <2>5, Products
  <2>7. y(k) = F[e]
    BY <2>4 DEF v, e
  <2> HIDE DEF F
  <2>8. F[e] \in 0..(RING - 1)
    BY <2>5, <2>6
  <2>9. QED BY <2>7, <2>8, DagAssumption
<1> HIDE DEF y
<1>2. ASSUME NEW u \in R, NEW v \in Nat PROVE (u + v) % RING \in R
  <2>1. u + v \in Nat
    BY DagAssumption
  <2>2. QED BY <2>1, DagAssumption
<1>3. step \in [Nat -> [R -> R]] /\ 0 \in R
  <2>1. 0 \in R
    BY DagAssumption
  <2>2. ASSUME NEW k \in Nat, NEW u \in R PROVE (IF k < i THEN (u + y(k)) % RING ELSE 0) \in R
    <3> HIDE DEF R
    <3>1. CASE k < i
      <4>1. k \in 0..(i - 1)
        BY <3>1
      <4>2. QED BY <1>1, <1>2, <3>1, <4>1
    <3>2. QED BY <2>1, <3>1
  <2>3. QED BY <2>1, <2>2
<1>4. \A k \in 0..(i - 1), u \in R : step[k][u] = (u + y(k)) % RING
  OBVIOUS
<1> HIDE DEF step
<1>5. PICK h \in [Nat -> R] : h[0] = 0 /\ \A k \in Nat : h[k + 1] = step[k][h[k]]
  <2> HIDE DEF R
  <2>1. \A b \in R : \A s \in [Nat -> [R -> R]] :
          \E g \in [Nat -> R] : g[0] = b /\ \A k \in Nat : g[k + 1] = s[k][g[k]]
    BY Iteration
  <2>2. QED BY <1>3, <2>1
<1> DEFINE f == [k \in 0..i |-> h[k]]
<1>6. Is(f)
  <2> DEFINE r == [k \in 0..i |-> IF k = 0 THEN 0 ELSE (f[k - 1] + Meaning(QNode(i - 1, k - 1))) % RING]
  <2>1. ASSUME NEW k \in 0..i PROVE f[k] = r[k]
    <3>1. CASE k = 0
      BY <1>5, <3>1
    <3>2. CASE k # 0
      <4>1. k - 1 \in 0..(i - 1) /\ (k - 1) + 1 = k /\ k - 1 \in 0..i /\ k - 1 \in Nat
        BY <3>2
      <4>2. h[(k - 1) + 1] = step[k - 1][h[k - 1]] /\ h[k - 1] \in R
        BY <1>5, <4>1
      <4>3. f[k] = h[k] /\ f[k - 1] = h[k - 1]
        BY <4>1
      <4> HIDE DEF f
      <4>5. f[k] = (f[k - 1] + y(k - 1)) % RING
        BY <1>4, <4>1, <4>2, <4>3
      <4>4. QED BY <3>2, <4>5 DEF y
    <3>3. QED BY <3>1, <3>2
  <2>2. f = [k \in 0..i |-> f[k]] /\ r = [k \in 0..i |-> r[k]]
    OBVIOUS
  <2> HIDE DEF r
  <2>3. f = r
    BY <2>1, <2>2
  <2>4. QED BY <2>3 DEF r
<1>7. Is(CarriesBelow(i))
  <2>1. CarriesBelow(i) = CHOOSE g : Is(g)
    BY DEF CarriesBelow
  <2> HIDE DEF Is
  <2>2. QED BY <1>6, <2>1
<1> DEFINE g == CarriesBelow(i)
<1> HIDE DEF g
<1>8. g = [k \in 0..i |-> IF k = 0 THEN 0 ELSE (g[k - 1] + y(k - 1)) % RING]
  BY <1>7 DEF g, y
<1>9. g[0] = 0
  BY <1>8
<1>10. \A k \in 0..(i - 1) : g[k + 1] = (g[k] + y(k)) % RING
  <2>1. SUFFICES ASSUME NEW k \in 0..(i - 1) PROVE g[k + 1] = (g[k] + y(k)) % RING
    OBVIOUS
  <2>2. k + 1 \in 0..i /\ k + 1 # 0 /\ (k + 1) - 1 = k
    OBVIOUS
  <2>3. QED BY <1>8, <2>2
<1>11. \A k \in 0..i : g[k] \in R
  <2> DEFINE T == {k \in Nat : k <= i => g[k] \in R}
  <2>1. 0 \in T
    BY <1>3, <1>9
  <2>2. ASSUME NEW k \in T PROVE k + 1 \in T
    <3>1. CASE k + 1 <= i
      <4>1. k \in 0..(i - 1) /\ g[k] \in R
        BY <3>1
      <4>2. (g[k] + y(k)) % RING \in R
        BY <1>1, <1>2, <4>1
      <4>3. QED BY <1>10, <4>1, <4>2
    <3>2. CASE ~(k + 1 <= i)
      BY <3>2
    <3>3. QED BY <3>1, <3>2
  <2> HIDE DEF T
  <2>3. T \in SUBSET Nat
    BY DEF T
  <2>4. T = Nat
    BY <2>1, <2>2, <2>3, StepByStep
  <2>5. QED BY <2>4 DEF T
<1>12. g \in [0..i -> R]
  BY <1>8, <1>11
<1>13. QED BY <1>9, <1>10, <1>12 DEF g, y

\* Products that are reduced after each factor are associative.
LEMMA ModAssoc ==
  ASSUME NEW n \in Nat \ {0}, NEW u \in Nat, NEW v \in Nat, NEW w \in Nat
  PROVE  (((u * v) % n) * w) % n = (u * ((v * w) % n)) % n
<1>1. u * v \in Nat /\ v * w \in Nat /\ (v * w) % n \in Nat
  OBVIOUS
<1>2. (((u * v) % n) * w) % n = ((u * v) * w) % n
  BY <1>1, ModTimes
<1>3. (((v * w) % n) * u) % n = ((v * w) * u) % n
  BY <1>1, ModTimes
<1>4. (u * v) * w = (v * w) * u
  OBVIOUS
<1>5. ((v * w) % n) * u = u * ((v * w) % n)
  BY <1>1
<1>6. QED BY <1>2, <1>3, <1>4, <1>5

\* A product of bits is cut in two anywhere.
LEMMA ProductSplits ==
  ASSUME Operands, NEW x \in Nat, NEW j \in Nat, NEW d \in Nat, NEW e \in Nat
  PROVE  ProductFrom(x, j)[(d + 1) + e]
           = (ProductFrom(x, j)[d] * ProductFrom(X(j + (d + 1)), j + (d + 1))[e]) % RING
<1> DEFINE k == j + (d + 1)
           y == X(k)
           f == ProductFrom(x, j)
           g == ProductFrom(y, k)
           T == {c \in Nat : f[(d + 1) + c] = (f[d] * g[c]) % RING}
<1>1. k \in Nat /\ y \in Nat
  BY SumsOfBits
<1> HIDE DEF y
<1>2. /\ f \in [Nat -> 0..(RING - 1)]
      /\ \A c \in Nat : f[c + 1] = (f[c] * X(j + (c + 1))) % RING
  BY Products
<1>3. /\ g \in [Nat -> 0..(RING - 1)] /\ g[0] = y % RING
      /\ \A c \in Nat : g[c + 1] = (g[c] * X(k + (c + 1))) % RING
  BY <1>1, Products
<1> HIDE DEF f, g
<1>4. \A c \in Nat : f[c] \in Nat /\ g[c] \in Nat
  <2> DEFINE R == 0..(RING - 1)
  <2>1. R \subseteq Nat
    BY DagAssumption
  <2>3. f \in [Nat -> R] /\ g \in [Nat -> R]
    BY <1>2, <1>3
  <2> HIDE DEF R
  <2>2. QED BY <2>1, <2>3
<1>5. 0 \in T
  <2>1. f[d + 1] = (f[d] * y) % RING
    BY <1>2 DEF y
  <2>2. ((y % RING) * f[d]) % RING = (y * f[d]) % RING
    BY <1>1, <1>4, ModTimes, DagAssumption
  <2>3. y * f[d] = f[d] * y /\ (y % RING) * f[d] = f[d] * (y % RING)
    BY <1>1, <1>4, DagAssumption
  <2>4. (d + 1) + 0 = d + 1
    OBVIOUS
  <2>5. QED BY <1>3, <2>1, <2>2, <2>3, <2>4
<1>6. ASSUME NEW c \in T PROVE c + 1 \in T
  <2> DEFINE z == X(k + (c + 1))
  <2>1. z \in Nat
    BY <1>1, SumsOfBits
  <2>2. (d + 1) + c \in Nat /\ (d + 1) + (c + 1) = ((d + 1) + c) + 1 /\ j + (((d + 1) + c) + 1) = k + (c + 1)
    OBVIOUS
  <2>3. f[(d + 1) + (c + 1)] = (f[(d + 1) + c] * z) % RING
    BY <1>2, <2>2
  <2>4. g[c + 1] = (g[c] * z) % RING
    BY <1>3
  <2> HIDE DEF z, k
  <2>5. f[(d + 1) + c] = (f[d] * g[c]) % RING
    OBVIOUS
  <2>6. (((f[d] * g[c]) % RING) * z) % RING = (f[d] * ((g[c] * z) % RING)) % RING
    <3>1. f[d] \in Nat /\ g[c] \in Nat /\ RING \in Nat \ {0}
      BY <1>4, DagAssumption
    <3>2. QED BY <2>1, <3>1, ModAssoc
  <2>7. QED BY <2>3, <2>4, <2>5, <2>6
<1> HIDE DEF T
<1>7. T \in SUBSET Nat
  BY DEF T
<1>8. T = Nat
  BY <1>5, <1>6, <1>7, StepByStep
<1>9. QED BY <1>8 DEF T, f, g, k, y

--------------------------------------------------------------------------------
(* The nodes, and what their ciphertexts stand for. *)

Kinds == {"p", "q"}
AllNodes ==
  {n \in [kind : Kinds, i : 0..(bSize - 1), j : 0..(bSize - 1)] :
     n.j <= n.i /\ (n.kind = "q" => n.j < aSize)}

\* Both operands have bits, and a is not the longer one.
LEMMA Sizes ==
  ASSUME Operands
  PROVE  aSize \in Nat \ {0} /\ bSize \in Nat \ {0} /\ aSize <= bSize
BY DEF Operands, aSize, bSize

\* The fields of a node of the plan.
LEMMA Fields ==
  ASSUME Operands, NEW n \in AllNodes
  PROVE  /\ n.kind \in Kinds /\ n.i \in Nat /\ n.j \in Nat
         /\ n.j <= n.i /\ n.i < bSize /\ (n.kind = "q" => n.j < aSize)
         /\ n = [kind |-> n.kind, i |-> n.i, j |-> n.j]
         /\ n.kind = "p" => n = PNode(n.i, n.j)
         /\ n.kind = "q" => n = QNode(n.i, n.j)
BY Sizes DEF AllNodes, PNode, QNode

\* The parents for a middle are nodes of the plan, of shorter intervals.
LEMMA ParentFields ==
  ASSUME Operands, NEW n \in AllNodes, NEW m \in n.j..(n.i - 1)
  PROVE  /\ m \in Nat
         /\ LowParent(n, m) = [kind |-> n.kind, i |-> m, j |-> n.j]
         /\ HighParent(n, m) = [kind |-> "p", i |-> n.i, j |-> m + 1]
         /\ LowParent(n, m) \in AllNodes /\ HighParent(n, m) \in AllNodes
         /\ LowParent(n, m) # HighParent(n, m)
         /\ n # LowParent(n, m) /\ n # HighParent(n, m)
<1>1. /\ n.kind \in Kinds /\ n.i \in Nat /\ n.j \in Nat
      /\ n.j <= n.i /\ n.i < bSize /\ (n.kind = "q" => n.j < aSize)
      /\ n = [kind |-> n.kind, i |-> n.i, j |-> n.j]
  BY Fields
<1>2. m \in Nat /\ bSize \in Nat
  BY <1>1, Sizes
<1>3. LowParent(n, m) = [kind |-> n.kind, i |-> m, j |-> n.j]
  BY <1>1 DEF LowParent
<1>4. HighParent(n, m) = [kind |-> "p", i |-> n.i, j |-> m + 1]
  BY DEF HighParent, PNode
<1>5. [kind |-> n.kind, i |-> m, j |-> n.j] \in AllNodes
  BY <1>1, <1>2 DEF AllNodes
<1>6. [kind |-> "p", i |-> n.i, j |-> m + 1] \in AllNodes
  BY <1>1, <1>2 DEF AllNodes, Kinds
<1>7. [kind |-> n.kind, i |-> m, j |-> n.j] # [kind |-> "p", i |-> n.i, j |-> m + 1]
  <2>1. [kind |-> n.kind, i |-> m, j |-> n.j].j # [kind |-> "p", i |-> n.i, j |-> m + 1].j
    BY <1>1, <1>2
  <2>2. QED BY <2>1
<1>8. n # LowParent(n, m)
  <2>1. n.i # LowParent(n, m).i
    BY <1>1, <1>2, <1>3
  <2>2. QED BY <2>1
<1>9. n # HighParent(n, m)
  <2>1. n.j # HighParent(n, m).j
    BY <1>1, <1>2, <1>4
  <2>2. QED BY <2>1
<1>10. QED BY <1>2, <1>3, <1>4, <1>5, <1>6, <1>7, <1>8, <1>9

Start(n) == IF n.kind = "p" THEN X(n.j) ELSE Number(Value(add.a, n.j)) * Number(Value(add.b, n.j))

\* The meaning of a node, and of one for a single bit.
LEMMA Meanings ==
  ASSUME Operands, NEW n \in AllNodes
  PROVE  /\ Start(n) \in Nat
         /\ Meaning(n) = ProductFrom(Start(n), n.j)[n.i - n.j]
         /\ Meaning(n) \in 0..(RING - 1)
         /\ n.i = n.j => Meaning(n) = Start(n) % RING
<1>1. n.i \in Nat /\ n.j \in Nat /\ n.j <= n.i
  BY Fields
<1>2. Start(n) \in Nat
  BY <1>1, SumsOfBits DEF Start
<1>3. Meaning(n) = ProductFrom(Start(n), n.j)[n.i - n.j]
  BY DEF Meaning, Start
<1>4. /\ ProductFrom(Start(n), n.j) \in [Nat -> 0..(RING - 1)]
      /\ ProductFrom(Start(n), n.j)[0] = Start(n) % RING
  BY <1>1, <1>2, Products
<1>5. n.i - n.j \in Nat /\ (n.i = n.j => n.i - n.j = 0)
  BY <1>1
<1> DEFINE F == ProductFrom(Start(n), n.j)
           d == n.i - n.j
<1> HIDE DEF F, d
<1>6. Meaning(n) = F[d] /\ F \in [Nat -> 0..(RING - 1)] /\ F[0] = Start(n) % RING /\ d \in Nat
  BY <1>3, <1>4, <1>5 DEF F, d
<1>7. Meaning(n) \in 0..(RING - 1)
  BY <1>6
<1>8. QED BY <1>2, <1>3, <1>5, <1>6, <1>7 DEF d

\* A node stands for the product of what its parents stand for, wherever it is divided.
LEMMA MeaningSplits ==
  ASSUME Operands, NEW n \in AllNodes, NEW m \in n.j..(n.i - 1)
  PROVE  Meaning(n) = (Meaning(LowParent(n, m)) * Meaning(HighParent(n, m))) % RING
<1> DEFINE d == m - n.j
           e == n.i - (m + 1)
           low == LowParent(n, m)
           high == HighParent(n, m)
<1>1. n.i \in Nat /\ n.j \in Nat /\ m \in Nat
  BY Fields, ParentFields
<1>2. d \in Nat /\ e \in Nat /\ n.i - n.j = (d + 1) + e /\ n.j + (d + 1) = m + 1
  BY <1>1
<1>3. low \in AllNodes /\ high \in AllNodes
  BY ParentFields
<1>4. low = [kind |-> n.kind, i |-> m, j |-> n.j] /\ high = [kind |-> "p", i |-> n.i, j |-> m + 1]
  BY ParentFields
<1>5. Start(low) = Start(n) /\ Start(high) = X(m + 1)
  BY <1>4 DEF Start
<1>6. Meaning(low) = ProductFrom(Start(n), n.j)[d]
  BY <1>3, <1>4, <1>5, Meanings
<1>7. Meaning(high) = ProductFrom(X(m + 1), m + 1)[e]
  BY <1>3, <1>4, <1>5, Meanings
<1>8. Start(n) \in Nat /\ Meaning(n) = ProductFrom(Start(n), n.j)[n.i - n.j]
  BY Meanings
<1> HIDE DEF d, e, low, high
<1>9. ProductFrom(Start(n), n.j)[(d + 1) + e]
        = (ProductFrom(Start(n), n.j)[d] * ProductFrom(X(n.j + (d + 1)), n.j + (d + 1))[e]) % RING
  <2> DEFINE x == Start(n)
             j == n.j
  <2>1. x \in Nat /\ j \in Nat
    BY <1>1, <1>8
  <2> HIDE DEF x, j
  <2>2. ProductFrom(x, j)[(d + 1) + e]
          = (ProductFrom(x, j)[d] * ProductFrom(X(j + (d + 1)), j + (d + 1))[e]) % RING
    BY <1>2, <2>1, ProductSplits
  <2>3. QED BY <2>2 DEF x, j
<1>10. Meaning(n) = (Meaning(low) * Meaning(high)) % RING
  BY <1>2, <1>6, <1>7, <1>8, <1>9
<1>11. QED BY <1>10 DEF low, high

\* Behind the carry out of the last bits there is nothing to add.
LEMMA NothingBehind ==
  ASSUME Operands, NEW i \in Nat, i > bSize
  PROVE  SumBit(i) = 0
<1>1. aSize \in Nat /\ bSize \in Nat /\ aSize <= bSize
  BY Sizes
<1>2. X(i) = 0 /\ X(i - 1) = 0
  BY <1>1, SumsOfBits
<1>3. /\ CarriesBelow(i)[0] = 0
      /\ \A k \in 0..(i - 1) :
           CarriesBelow(i)[k + 1] = (CarriesBelow(i)[k] + Meaning(QNode(i - 1, k))) % RING
  BY CarrySums
<1>4. ASSUME NEW k \in 0..(aSize - 1) PROVE Meaning(QNode(i - 1, k)) = 0
  <2> DEFINE v == Number(Value(add.a, k)) * Number(Value(add.b, k))
             F == ProductFrom(v, k)
             d == (i - 1) - (k + 1)
  <2>1. k \in Nat /\ d \in Nat /\ (i - 1) - k = d + 1 /\ k + (d + 1) = i - 1
    BY <1>1
  <2>2. v \in Nat
    BY <2>1, SumsOfBits
  <2>3. Meaning(QNode(i - 1, k)) = F[d + 1]
    BY <2>1 DEF Meaning, QNode
  <2> HIDE DEF v, d
  <2>4. F \in [Nat -> 0..(RING - 1)] /\ F[d + 1] = (F[d] * X(k + (d + 1))) % RING
    <3>1. F \in [Nat -> 0..(RING - 1)] /\ \A e \in Nat : F[e + 1] = (F[e] * X(k + (e + 1))) % RING
      BY <2>1, <2>2, Products
    <3>2. QED BY <2>1, <3>1
  <2> HIDE DEF F
  <2>5. F[d] \in 0..(RING - 1)
    BY <2>1, <2>4
  <2>6. F[d] * 0 = 0
    BY <2>5, DagAssumption
  <2>7. 0 % RING = 0
    BY DagAssumption
  <2>8. QED BY <1>2, <2>1, <2>3, <2>4, <2>6, <2>7
<1>5. \A k \in 0..aSize : CarriesBelow(i)[k] = 0
  <2> DEFINE T == {k \in Nat : k <= aSize => CarriesBelow(i)[k] = 0}
  <2>1. 0 \in T
    BY <1>3
  <2>2. ASSUME NEW k \in T PROVE k + 1 \in T
    <3>1. CASE k + 1 <= aSize
      <4>1. k \in 0..(i - 1) /\ k \in 0..(aSize - 1) /\ CarriesBelow(i)[k] = 0
        BY <1>1, <3>1
      <4>2. CarriesBelow(i)[k + 1] = (0 + 0) % RING
        BY <1>3, <1>4, <4>1
      <4>3. QED BY <4>2, DagAssumption
    <3>2. CASE ~(k + 1 <= aSize)
      BY <1>1, <3>2
    <3>3. QED BY <3>1, <3>2
  <2> HIDE DEF T
  <2>3. T \in SUBSET Nat
    BY DEF T
  <2>4. T = Nat
    BY <2>1, <2>2, <2>3, StepByStep
  <2>5. QED BY <2>4 DEF T
<1>6. Smaller(i, aSize) = aSize
  BY <1>1 DEF Smaller
<1>7. SumBit(i) = (0 + 0) % RING
  BY <1>1, <1>2, <1>5, <1>6 DEF SumBit
<1>8. QED BY <1>7, DagAssumption

--------------------------------------------------------------------------------
(* The plan: nodes are made after their parents, and count those that need them. *)

Before(n, m) == n.i - n.j < m.i - m.j \/ (n.i - n.j = m.i - m.j /\ n.i > m.i)
Made(n) == n.i = n.j \/ (n.kind = "p" /\ next.kind = "q") \/ (n.kind = next.kind /\ Before(n, next))

NextOne ==
  /\ next \in [kind : Kinds, i : Int, j : Int]
  /\ next.j >= -1 /\ next.j < next.i /\ next.i < bSize /\ (next.j = -1 => next.i = bSize - 1)
Divided == \A n \in Nodes : IF n.i = n.j THEN middle[n] = -1 ELSE middle[n] \in n.j..(n.i - 1)
Planned ==
  /\ NextOne
  /\ Nodes = {n \in AllNodes : Made(n)}
  /\ level \in [Nodes -> Int] /\ middle \in [Nodes -> Int] /\ left \in [Nodes -> Int]
  /\ Divided

Parents(n) == IF IsSource(n) THEN {} ELSE {Parent1(n), Parent2(n)}
InSum(n) == n.i = n.j \/ n.kind = "q"
Users(n) == {c \in Nodes : (c = n /\ InSum(n)) \/ n \in Parents(c)}
CountsUsers == \A n \in Nodes : Cardinality(Users(n)) <= left[n]

\* A plan has finitely many nodes.
LEMMA FinitelyMany ==
  ASSUME Operands
  PROVE  IsFiniteSet(AllNodes)
<1> DEFINE I == 0..(bSize - 1)
           S == Kinds \X (I \X I)
           f == [n \in AllNodes |-> <<n.kind, <<n.i, n.j>>>>]
<1>1. bSize \in Nat
  BY Sizes
<1>2. IsFiniteSet(I)
  BY <1>1, FS_Interval
<1>3. IsFiniteSet(Kinds)
  <2>1. IsFiniteSet({"p"})
    BY FS_Singleton
  <2>2. IsFiniteSet({"p"} \cup {"q"})
    BY <2>1, FS_AddElement
  <2>3. Kinds = {"p"} \cup {"q"}
    BY DEF Kinds
  <2>4. QED BY <2>2, <2>3
<1> HIDE DEF I
<1>4. IsFiniteSet(S)
  BY <1>2, <1>3, FS_Product
<1>5. f \in [AllNodes -> S]
  <2>1. SUFFICES ASSUME NEW n \in AllNodes PROVE <<n.kind, <<n.i, n.j>>>> \in S
    OBVIOUS
  <2>2. n.kind \in Kinds /\ n.i \in I /\ n.j \in I
    BY DEF AllNodes, I
  <2>3. QED BY <2>2
<1>6. ASSUME NEW n \in AllNodes, NEW m \in AllNodes, f[n] = f[m] PROVE n = m
  <2>1. n.kind = m.kind /\ n.i = m.i /\ n.j = m.j
    BY <1>6
  <2>2. QED BY <2>1, Fields
<1>7. f \in Injection(AllNodes, S)
  BY <1>5, <1>6 DEF Injection, IsInjective
<1>8. QED BY <1>4, <1>7, FS_Injection

\* A set that stays within another one, or loses an element of it, has no more or fewer elements.
LEMMA Within ==
  ASSUME NEW S, IsFiniteSet(S), NEW T \in SUBSET S
  PROVE  /\ Cardinality(T) \in Nat /\ Cardinality(S) \in Nat
         /\ Cardinality(T) <= Cardinality(S)
         /\ \A x \in S : x \notin T => Cardinality(T) <= Cardinality(S) - 1
<1>1. IsFiniteSet(T) /\ Cardinality(T) <= Cardinality(S)
  BY FS_Subset
<1>2. Cardinality(T) \in Nat /\ Cardinality(S) \in Nat
  BY <1>1, FS_CardinalityType
<1>3. ASSUME NEW x \in S, x \notin T PROVE Cardinality(T) <= Cardinality(S) - 1
  <2>1. IsFiniteSet(S \ {x}) /\ Cardinality(S \ {x}) = Cardinality(S) - 1
    BY FS_RemoveElement
  <2>2. T \in SUBSET (S \ {x})
    BY <1>3
  <2>3. Cardinality(T) <= Cardinality(S \ {x})
    BY <2>1, <2>2, FS_Subset
  <2>4. QED BY <2>1, <2>3
<1>4. QED BY <1>1, <1>2, <1>3

\* The level of what does not consume capacity.
LEMMA Unlimited == LONG_MAX \in Int
BY SMT DEF LONG_MAX

\* When a node is made, all that may become its parents have been (binaryArith.cpp:243).
LEMMA NextNode ==
  ASSUME Operands, Planned, next.j >= 0, next.kind = "p" \/ next.j < aSize
  PROVE  /\ next \in AllNodes /\ next \notin Nodes /\ next.i # next.j
         /\ \A m \in next.j..(next.i - 1) : LowParent(next, m) \in Nodes /\ HighParent(next, m) \in Nodes
<1>1. /\ next.kind \in Kinds /\ next.i \in Int /\ next.j \in Int /\ next.j < next.i /\ next.i < bSize
      /\ next = [kind |-> next.kind, i |-> next.i, j |-> next.j]
  BY DEF Planned, NextOne
<1>2. bSize \in Nat /\ aSize \in Nat
  BY Sizes
<1>3. next \in AllNodes
  BY <1>1, <1>2 DEF AllNodes, Kinds
<1>4. ~Made(next)
  BY <1>1 DEF Made, Before
<1>5. ASSUME NEW m \in next.j..(next.i - 1)
      PROVE  LowParent(next, m) \in Nodes /\ HighParent(next, m) \in Nodes
  <2>1. /\ LowParent(next, m) = [kind |-> next.kind, i |-> m, j |-> next.j]
        /\ HighParent(next, m) = [kind |-> "p", i |-> next.i, j |-> m + 1]
        /\ LowParent(next, m) \in AllNodes /\ HighParent(next, m) \in AllNodes
    BY <1>3, ParentFields
  <2>2. Made(LowParent(next, m))
    BY <1>1, <2>1 DEF Made, Before
  <2>3. Made(HighParent(next, m))
    BY <1>1, <2>1 DEF Made, Before, Kinds
  <2>4. QED BY <2>1, <2>2, <2>3 DEF Planned
<1>6. QED BY <1>1, <1>3, <1>4, <1>5 DEF Planned

\* The middle that init chooses divides the interval (binaryArith.cpp:285-312).
LEMMA NextMiddle ==
  ASSUME Operands, Planned, next.j >= 0, next.kind = "p" \/ next.j < aSize
  PROVE  Middle(next) \in next.j..(next.i - 1)
<1> DEFINE M == next.j..(next.i - 1)
           lev(m) == ProductLevel(next, m)
           need(m) == Need(next, m)
           Best(m, S) == m \in S /\ \A o \in S : ~Better(next, o, m)
           best == {m \in M : \A o \in M : ~Better(next, o, m)}
<1>1. next.i \in Int /\ next.j \in Int /\ next.j < next.i
  BY DEF Planned, NextOne
<1>2. ASSUME NEW m \in M PROVE lev(m) \in Int /\ need(m) \in Int
  <2>1. LowParent(next, m) \in Nodes /\ HighParent(next, m) \in Nodes
    BY NextNode
  <2>2. /\ level[LowParent(next, m)] \in Int /\ level[HighParent(next, m)] \in Int
        /\ left[LowParent(next, m)] \in Int /\ left[HighParent(next, m)] \in Int
    BY <2>1 DEF Planned
  <2>3. BPL_ESTIMATE \in Int
    BY DagAssumption
  <2>4. QED BY <2>2, <2>3, Unlimited DEF ProductLevel, Need, Smaller
<1> HIDE DEF lev, need
<1>3. \A m, o \in M : Better(next, o, m) <=> lev(o) > lev(m) \/ (lev(o) = lev(m) /\ need(o) > need(m))
  BY DEF Better, lev, need
<1> DEFINE T == {k \in Nat : next.j + k < next.i => \E m : Best(m, next.j..(next.j + k))}
<1>4. 0 \in T
  <2>1. next.j \in M /\ next.j..(next.j + 0) = {next.j}
    BY <1>1
  <2>2. ~Better(next, next.j, next.j)
    BY <1>2, <1>3, <2>1
  <2>3. Best(next.j, next.j..(next.j + 0))
    BY <2>1, <2>2
  <2> HIDE DEF Best
  <2>4. QED BY <2>3
<1>5. ASSUME NEW k \in T PROVE k + 1 \in T
  <2>1. SUFFICES ASSUME next.j + (k + 1) < next.i
                 PROVE  \E m : Best(m, next.j..(next.j + (k + 1)))
    OBVIOUS
  <2> DEFINE S == next.j..(next.j + k)
             z == next.j + (k + 1)
  <2>2. next.j..(next.j + (k + 1)) = S \union {z} /\ S \subseteq M /\ z \in M
    BY <1>1, <2>1
  <2>3. next.j + k < next.i
    BY <1>1, <2>1
  <2> HIDE DEF S, z, M
  <2>4. PICK m : Best(m, S)
    BY <2>3 DEF S
  <2>5. m \in M /\ \A o \in S : ~Better(next, o, m)
    BY <2>2, <2>4
  <2>6. CASE Better(next, z, m)
    <3>1. \A o \in S \union {z} : ~Better(next, o, z)
      BY <1>2, <1>3, <2>2, <2>5, <2>6
    <3>2. Best(z, S \union {z})
      BY <3>1
    <3>3. QED BY <2>2, <3>2
  <2>7. CASE ~Better(next, z, m)
    <3>1. Best(m, S \union {z})
      BY <2>4, <2>7
    <3>2. QED BY <2>2, <3>1
  <2>8. QED BY <2>6, <2>7
<1>6. T = Nat
  <2>1. T \in SUBSET Nat
    OBVIOUS
  <2> HIDE DEF T
  <2>2. QED BY <1>4, <1>5, <2>1, StepByStep
<1>7. PICK m : Best(m, M)
  <2> DEFINE k == next.i - 1 - next.j
  <2>1. k \in Nat /\ next.j + k < next.i /\ M = next.j..(next.j + k)
    BY <1>1
  <2> HIDE DEF k, Best, M
  <2>2. k \in T
    BY <1>6, <2>1
  <2>3. QED BY <2>1, <2>2
<1>8. best # {} /\ best \subseteq M
  BY <1>7
<1>9. \E x \in best : \A y \in best : x <= y
  <2> DEFINE D == {d \in Nat : next.j + d \in best}
  <2>1. D \in SUBSET Nat
    OBVIOUS
  <2>2. D # {}
    <3>1. PICK x \in best : TRUE
      BY <1>8
    <3>2. x \in M
      BY <1>8
    <3>3. x - next.j \in Nat /\ next.j + (x - next.j) = x
      BY <1>1, <3>2
    <3>4. x - next.j \in D
      BY <3>1, <3>3
    <3>5. QED BY <3>4
  <2>3. PICK d \in D : \A e \in D : d <= e
    BY <2>1, <2>2, Least
  <2>4. ASSUME NEW y \in best PROVE next.j + d <= y
    <3>1. y \in M
      BY <1>8
    <3>2. y - next.j \in Nat /\ next.j + (y - next.j) = y
      BY <1>1, <3>1
    <3>3. y - next.j \in D
      BY <3>2
    <3>4. d <= y - next.j
      BY <2>3, <3>3
    <3>5. QED BY <1>1, <3>1, <3>4
  <2>5. QED BY <2>3, <2>4
<1>10. Middle(next) = IF defaultMiddle(next) \in best THEN defaultMiddle(next)
                      ELSE CHOOSE x \in best : \A y \in best : x <= y
  BY DEF Middle
<1> HIDE DEF best
<1>11. Middle(next) \in best
  BY <1>9, <1>10
<1>12. QED BY <1>8, <1>11

\* The parents of a node of the plan.
LEMMA NodeParents ==
  ASSUME Operands, Planned, NEW c \in Nodes, ~IsSource(c)
  PROVE  /\ c \in AllNodes /\ c.j < c.i /\ middle[c] \in c.j..(c.i - 1)
         /\ Parent1(c) = [kind |-> c.kind, i |-> middle[c], j |-> c.j]
         /\ Parent2(c) = [kind |-> "p", i |-> c.i, j |-> middle[c] + 1]
         /\ Parent1(c) \in Nodes /\ Parent2(c) \in Nodes
         /\ Parent1(c) # Parent2(c) /\ c # Parent1(c) /\ c # Parent2(c)
<1>1. c \in AllNodes /\ Made(c)
  BY DEF Planned
<1>2. c.i \in Nat /\ c.j \in Nat /\ c.kind \in Kinds /\ c.j <= c.i
  BY <1>1, Fields
<1>3. middle[c] \in c.j..(c.i - 1) /\ c.i # c.j
  BY DEF Planned, Divided, IsSource
<1>4. /\ Parent1(c) = [kind |-> c.kind, i |-> middle[c], j |-> c.j] /\ Parent1(c) \in AllNodes
      /\ Parent2(c) = [kind |-> "p", i |-> c.i, j |-> middle[c] + 1] /\ Parent2(c) \in AllNodes
      /\ Parent1(c) # Parent2(c) /\ c # Parent1(c) /\ c # Parent2(c)
  BY <1>1, <1>3, ParentFields DEF Parent1, Parent2
<1>5. next.kind \in Kinds /\ next.i \in Int /\ next.j \in Int
  BY DEF Planned, NextOne
<1>6. Made(Parent1(c))
  BY <1>1, <1>2, <1>3, <1>4, <1>5 DEF Made, Before
<1>7. Made(Parent2(c))
  BY <1>1, <1>2, <1>3, <1>4, <1>5 DEF Made, Before, Kinds
<1>8. QED BY <1>1, <1>2, <1>3, <1>4, <1>6, <1>7 DEF Planned

\* The nodes that are made are those before next in the order of the loops.
LEMMA NextFollows ==
  ASSUME Operands, NextOne, next.j >= 0, next' = Following(next), add' = add
  PROVE  NextOne' /\ \A n \in AllNodes : Made(n)' <=> Made(n) \/ n = next
<1>1. /\ next.kind \in Kinds /\ next.i \in Int /\ next.j \in Int /\ next.j < next.i /\ next.i < bSize
      /\ next = [kind |-> next.kind, i |-> next.i, j |-> next.j]
  BY DEF NextOne
<1>2. bSize \in Nat /\ bSize' = bSize
  BY Sizes DEF bSize
<1>3. ASSUME NEW n \in AllNodes PROVE n = next <=> n.kind = next.kind /\ n.i = next.i /\ n.j = next.j
  BY <1>1, <1>3, Fields
<1>4. CASE next.j > 0
  <2>1. next' = [kind |-> next.kind, i |-> next.i - 1, j |-> next.j - 1]
    BY <1>1, <1>4 DEF Following
  <2>2. NextOne'
    BY <1>1, <1>2, <1>4, <2>1 DEF NextOne
  <2>3. ASSUME NEW n \in AllNodes PROVE Made(n)' <=> Made(n) \/ n = next
    <3>1. n.kind \in Kinds /\ n.i \in Nat /\ n.j \in Nat
      BY Fields
    <3>2. Before(n, next') <=> Before(n, next) \/ (n.i = next.i /\ n.j = next.j)
      BY <1>1, <2>1, <3>1 DEF Before
    <3>3. QED BY <1>3, <2>1, <3>2 DEF Made, Before
  <2>4. QED BY <2>2, <2>3
<1>5. CASE next.j = 0
  <2>1. next' = [kind |-> next.kind, i |-> bSize - 1, j |-> bSize - 2 - next.i]
    BY <1>1, <1>5 DEF Following
  <2>2. NextOne'
    BY <1>1, <1>2, <1>5, <2>1 DEF NextOne
  <2>3. ASSUME NEW n \in AllNodes PROVE Made(n)' <=> Made(n) \/ n = next
    <3>1. n.kind \in Kinds /\ n.i \in Nat /\ n.j \in Nat /\ n.j <= n.i /\ n.i < bSize
      BY Fields
    <3>2. Before(n, next') <=> Before(n, next) \/ (n.i = next.i /\ n.j = next.j)
      BY <1>1, <1>2, <1>5, <2>1, <3>1 DEF Before
    <3>3. QED BY <1>3, <2>1, <3>2 DEF Made, Before
  <2>4. QED BY <2>2, <2>3
<1>6. QED BY <1>1, <1>4, <1>5

\* The nodes that can be planned depend on the operands only.
LEMMA AllNodesStay ==
  ASSUME add' = add
  PROVE  AllNodes' = AllNodes /\ (Operands => Operands') /\ aSize' = aSize /\ bSize' = bSize
BY DEF AllNodes, Operands, aSize, bSize

\* Product keeps the plan and counts every user of a node (binaryArith.cpp:272-276).
LEMMA ProductPlans ==
  ASSUME Operands, Planned, CountsUsers, Product
  PROVE  Operands' /\ Planned' /\ CountsUsers'
<1>1. /\ add' = add /\ next' = Following(next) /\ next.j >= 0
  BY DEF Product
<1>2. Operands' /\ AllNodes' = AllNodes /\ aSize' = aSize
  BY <1>1, AllNodesStay
<1>3. NextOne' /\ \A n \in AllNodes : Made(n)' <=> Made(n) \/ n = next
  BY <1>1, NextFollows DEF Planned
<1>4. Nodes = {n \in AllNodes : Made(n)}
  BY DEF Planned
<1>5. CASE next.kind = "q" /\ next.j >= aSize /\ UNCHANGED <<level, middle, left>>
  <2>1. next \notin AllNodes
    BY <1>5, Sizes, Fields DEF Planned, NextOne
  <2>2. Nodes' = Nodes
    BY <1>5 DEF Nodes
  <2>3. Nodes' = {n \in AllNodes : Made(n)'}
    BY <1>3, <1>4, <2>1, <2>2
  <2>4. Planned'
    BY <1>2, <1>3, <1>5, <2>2, <2>3 DEF Planned, Divided
  <2>5. \A n : Users(n)' = Users(n)
    BY <1>5, <2>2 DEF Users, Parents, Parent1, Parent2, IsSource, InSum
  <2>6. CountsUsers'
    BY <1>5, <2>2, <2>5 DEF CountsUsers
  <2>7. QED BY <1>2, <2>4, <2>6
<1>6. CASE next.kind = "p" \/ next.j < aSize
  <2> DEFINE m == Middle(next)
             low == LowParent(next, m)
             high == HighParent(next, m)
             L == [left EXCEPT ![low] = @ + 1, ![high] = @ + 1]
             own == IF next.kind = "q" THEN 1 ELSE 0
             level2 == ProductLevel(next, m)
  <2>0. AddNode(next, m)
    BY <1>6, Sizes DEF Product, Planned, NextOne
  <2>1. next \in AllNodes /\ next \notin Nodes /\ next.i # next.j
    BY <1>1, <1>6, NextNode
  <2>2. m \in next.j..(next.i - 1)
    BY <1>1, <1>6, NextMiddle
  <2>3. low \in Nodes /\ high \in Nodes
    BY <1>1, <1>6, <2>2, NextNode
  <2>4. low # high /\ next.j \in Nat /\ next.i \in Nat
    BY <2>1, <2>2, ParentFields, Fields
  <2>5. level[low] \in Int /\ level[high] \in Int
    BY <2>3 DEF Planned
  <2>6. level2 \in Int
    BY <2>5, DagAssumption, Unlimited DEF ProductLevel, Smaller
  <2> HIDE DEF level2, m, low, high
  <2>7. /\ level' = WithNode(level, next, level2)
        /\ middle' = WithNode(middle, next, m)
        /\ left' = WithNode(L, next, own)
    BY <2>0 DEF AddNode, level2, m, low, high
  <2>8. Nodes' = Nodes \union {next}
    BY <2>7 DEF WithNode, Nodes
  <2>9. Nodes' = {n \in AllNodes : Made(n)'}
    BY <1>3, <1>4, <2>1, <2>8
  <2>10. L \in [Nodes -> Int] /\ \A n \in Nodes : L[n] = left[n] + (IF n \in {low, high} THEN 1 ELSE 0)
    BY <2>3, <2>4 DEF Planned
  <2> HIDE DEF L
  <2>11. level' \in [Nodes' -> Int] /\ middle' \in [Nodes' -> Int] /\ left' \in [Nodes' -> Int]
    <3>1. level2 \in Int /\ m \in Int /\ own \in Int
      BY <2>2, <2>6, <1>3, <2>4
    <3> HIDE DEF own
    <3>2. level \in [Nodes -> Int] /\ middle \in [Nodes -> Int]
      BY DEF Planned
    <3>3. \A f \in [Nodes -> Int], x \in Int : WithNode(f, next, x) \in [Nodes' -> Int]
      BY <2>8 DEF WithNode
    <3>4. QED BY <2>7, <2>10, <3>1, <3>2, <3>3
  <2>12. /\ middle'[next] = m /\ left'[next] = own
         /\ \A n \in Nodes : middle'[n] = middle[n] /\ left'[n] = L[n]
    BY <2>1, <2>7 DEF WithNode
  <2>13. Divided'
    <3>1. SUFFICES ASSUME NEW n \in Nodes'
                   PROVE  IF n.i = n.j THEN middle'[n] = -1 ELSE middle'[n] \in n.j..(n.i - 1)
      BY DEF Divided
    <3>2. CASE n = next
      BY <2>1, <2>2, <2>12, <3>2
    <3>3. CASE n \in Nodes
      BY <2>12, <3>3 DEF Planned, Divided
    <3>4. QED BY <2>8, <3>2, <3>3
  <2>14. Planned'
    BY <1>2, <1>3, <2>9, <2>11, <2>13 DEF Planned
  <2>15. \A c \in Nodes : Parents(c)' = Parents(c)
    BY <2>12 DEF Parents, Parent1, Parent2, IsSource
  <2>24. PICK x : x = next
    OBVIOUS
  <2>16. Parents(x)' = {low, high}
    <3>1. middle'[next] = m /\ m # -1
      BY <2>2, <2>4, <2>12
    <3>2. QED BY <2>24, <3>1 DEF Parents, Parent1, Parent2, IsSource, low, high
  <2>17. \A c \in Nodes : Parents(c) \subseteq Nodes
    BY NodeParents DEF Parents
  <2>18. ASSUME NEW n \in Nodes PROVE Users(n)' = IF n \in {low, high} THEN Users(n) \union {x} ELSE Users(n)
    BY <2>1, <2>8, <2>15, <2>16, <2>24 DEF Users, InSum
  <2>19. Users(x)' = IF next.kind = "q" THEN {x} ELSE {}
    <3>1. x \notin Parents(x)'
      BY <2>1, <2>3, <2>16, <2>24
    <3>2. \A c \in Nodes : x \notin Parents(c)'
      BY <2>1, <2>15, <2>17, <2>24
    <3>3. QED BY <2>1, <2>8, <2>24, <3>1, <3>2 DEF Users, InSum
  <2>20. ASSUME NEW n \in Nodes' PROVE Cardinality(Users(n)') <= left'[n]
    <3>1. CASE n = next
      <4>1. Cardinality(Users(n)') = own
        BY <2>19, <2>24, <3>1, FS_EmptySet, FS_Singleton
      <4>2. QED BY <2>12, <3>1, <4>1
    <3>2. CASE n \in Nodes
      <4>1. IsFiniteSet(Users(n))
        <5>1. Users(n) \in SUBSET AllNodes
          BY <1>4 DEF Users
        <5>2. QED BY <5>1, FinitelyMany, FS_Subset
      <4>2. Cardinality(Users(n)) \in Nat /\ Cardinality(Users(n)) <= left[n] /\ left[n] \in Int
        BY <3>2, <4>1, FS_CardinalityType DEF CountsUsers, Planned
      <4>3. CASE n \in {low, high}
        <5>1. x \notin Users(n)
          BY <2>1, <2>24 DEF Users
        <5>2. Cardinality(Users(n) \union {x}) = Cardinality(Users(n)) + 1
          BY <4>1, <5>1, FS_AddElement
        <5>3. Users(n)' = Users(n) \union {x} /\ left'[n] = left[n] + 1
          BY <2>10, <2>12, <2>18, <3>2, <4>3
        <5>4. QED BY <4>2, <5>2, <5>3
      <4>4. CASE n \notin {low, high}
        <5>1. Users(n)' = Users(n) /\ left'[n] = left[n] + 0
          BY <2>10, <2>12, <2>18, <3>2, <4>4
        <5>2. QED BY <4>2, <5>1
      <4>5. QED BY <4>3, <4>4
    <3>3. QED BY <2>8, <3>1, <3>2
  <2>21. CountsUsers'
    BY <2>20 DEF CountsUsers
  <2>22. QED BY <1>2, <2>14, <2>21
<1>7. QED
  BY <1>5, <1>6 DEF Product

\* The q follow when every p is made.
LEMMA LastPPlans ==
  ASSUME Operands, Planned, CountsUsers, LastP
  PROVE  Operands' /\ Planned' /\ CountsUsers'
<1>1. /\ add' = add /\ next' = FirstProduct("q", bSize) /\ next.kind = "p" /\ next.j < 0
      /\ UNCHANGED <<level, middle, left>>
  BY DEF LastP
<1>2. Operands' /\ AllNodes' = AllNodes /\ bSize' = bSize /\ Nodes' = Nodes
  BY <1>1, AllNodesStay DEF Nodes
<1>3. bSize \in Nat \ {0}
  BY Sizes
<1>4. next' = [kind |-> "q", i |-> bSize - 1, j |-> bSize - 2]
  BY <1>1 DEF FirstProduct
<1>5. NextOne'
  BY <1>2, <1>3, <1>4 DEF NextOne, Kinds
<1>6. next.i = bSize - 1 /\ next.j = -1
  BY <1>1 DEF Planned, NextOne
<1>7. ASSUME NEW n \in AllNodes PROVE Made(n)' <=> Made(n)
  <2>1. n.kind \in Kinds /\ n.i \in Nat /\ n.j \in Nat /\ n.j <= n.i /\ n.i < bSize
    BY Fields
  <2>2. Before(n, next)
    BY <1>3, <1>6, <2>1 DEF Before
  <2>3. n.i # n.j => ~Before(n, next')
    BY <1>3, <1>4, <2>1 DEF Before
  <2>4. QED BY <1>1, <1>4, <2>1, <2>2, <2>3 DEF Made, Before, Kinds
<1>8. Planned'
  BY <1>1, <1>2, <1>5, <1>7 DEF Planned, Divided
<1>9. \A n : Users(n)' = Users(n)
  BY <1>1, <1>2 DEF Users, Parents, Parent1, Parent2, IsSource, InSum
<1>10. CountsUsers'
  BY <1>1, <1>2, <1>9 DEF CountsUsers
<1>11. QED BY <1>2, <1>8, <1>10

\* addTwoNumbers begins with the nodes for single bits and nothing computed.
LEMMA InitPlans ==
  ASSUME DagInit
  PROVE  /\ Operands /\ Planned /\ CountsUsers /\ stack = <<>>
         /\ ct = <<>> /\ owner = <<>> /\ cells = <<>> /\ growing = 0 /\ raced = FALSE
<1> DEFINE a(c) == IF Len(c.b) >= Len(c.a) THEN c.a ELSE c.b
           b(c) == IF Len(c.b) >= Len(c.a) THEN c.b ELSE c.a
<1>1. PICK c \in Additions :
        /\ add = [a |-> a(c), b |-> b(c), nthreads |-> c.nthreads,
                  sizeLimit |-> IF c.sizeLimit = 0 THEN Len(b(c)) + 1 ELSE c.sizeLimit]
        /\ next = FirstProduct("p", Len(b(c)))
        /\ level = [n \in Sources(a(c), b(c)) |-> SourceLevel(a(c), b(c), n)]
        /\ middle = [n \in Sources(a(c), b(c)) |-> -1]
        /\ left = [n \in Sources(a(c), b(c)) |-> 1]
        /\ ct = <<>> /\ owner = <<>> /\ cells = <<>> /\ growing = 0 /\ raced = FALSE
        /\ sum = <<>> /\ work = <<>> /\ stack = <<>>
  BY DEF DagInit
<1>2. /\ c.a \in Seq(Bit) /\ c.b \in Seq(Bit) /\ c.a # <<>> /\ c.b # <<>>
      /\ c.sizeLimit \in Nat /\ c.nthreads \in Nat \ {0}
  BY DagAssumption
<1>3. Len(c.a) \in Nat \ {0} /\ Len(c.b) \in Nat \ {0}
  BY <1>2
<1>4. /\ a(c) \in Seq(Bit) /\ b(c) \in Seq(Bit)
      /\ Len(a(c)) \in Nat \ {0} /\ Len(b(c)) \in Nat \ {0} /\ Len(a(c)) <= Len(b(c))
  BY <1>2, <1>3
<1> HIDE DEF a, b
<1>5. add.a = a(c) /\ add.b = b(c) /\ aSize = Len(a(c)) /\ bSize = Len(b(c))
  BY <1>1 DEF aSize, bSize
<1>6. Operands
  BY <1>1, <1>2, <1>4, <1>5 DEF Operands
<1>7. Nodes = Sources(add.a, add.b)
  BY <1>1, <1>5 DEF Nodes
<1>8. next = [kind |-> "p", i |-> bSize - 1, j |-> bSize - 2] /\ aSize \in Nat /\ bSize \in Nat \ {0} /\ aSize <= bSize
  BY <1>1, <1>4, <1>5 DEF FirstProduct
<1>9. NextOne
  BY <1>8 DEF NextOne, Kinds
<1>10. \A n \in AllNodes : Made(n) <=> n.i = n.j
  <2>1. SUFFICES ASSUME NEW n \in AllNodes PROVE Made(n) <=> n.i = n.j
    OBVIOUS
  <2>2. n.kind \in Kinds /\ n.i \in Nat /\ n.j \in Nat /\ n.j <= n.i /\ n.i < bSize
    BY <1>6, Fields
  <2>3. QED BY <1>8, <2>2 DEF Made, Before, Kinds
<1>11. Nodes = {n \in AllNodes : Made(n)}
  <2>1. ASSUME NEW n \in AllNodes, n.i = n.j PROVE n \in Sources(add.a, add.b)
    <3>1. /\ n.kind \in Kinds /\ n.i \in Nat /\ n.j \in Nat /\ n.i < bSize /\ (n.kind = "q" => n.j < aSize)
          /\ (n.kind = "p" => n = PNode(n.i, n.j)) /\ (n.kind = "q" => n = QNode(n.i, n.j))
      BY <1>6, Fields
    <3>2. CASE n.kind = "p"
      <4>1. n.i \in 0..(Len(add.b) - 1) /\ n = PNode(n.i, n.i)
        BY <1>8, <2>1, <3>1, <3>2 DEF bSize
      <4>2. QED BY <4>1 DEF Sources
    <3>3. CASE n.kind = "q"
      <4>1. n.i \in 0..(Len(add.a) - 1) /\ n = QNode(n.i, n.i)
        BY <1>8, <2>1, <3>1, <3>3 DEF aSize
      <4>2. QED BY <4>1 DEF Sources
    <3>4. QED BY <3>1, <3>2, <3>3 DEF Kinds
  <2>2. ASSUME NEW n \in Sources(add.a, add.b) PROVE n \in AllNodes /\ n.i = n.j
    <3>1. CASE \E i \in 0..(bSize - 1) : n = PNode(i, i)
      BY <1>8, <3>1 DEF AllNodes, PNode, Kinds
    <3>2. CASE \E i \in 0..(aSize - 1) : n = QNode(i, i)
      BY <1>8, <3>2 DEF AllNodes, QNode, Kinds
    <3>3. QED BY <3>1, <3>2 DEF Sources, aSize, bSize
  <2>3. QED BY <1>7, <1>10, <2>1, <2>2
<1>12. \A n \in Nodes : n.i = n.j /\ n \in AllNodes
  BY <1>10, <1>11
<1>13. \A n \in Nodes : middle[n] = -1 /\ left[n] = 1
  BY <1>1, <1>5, <1>7
<1>14. level \in [Nodes -> Int]
  <2>1. SUFFICES ASSUME NEW n \in Nodes PROVE level[n] \in Int
    BY <1>1, <1>5, <1>7
  <2>2. \A bits \in Seq(Bit), i \in Nat : Capacity(bits, i) \in Int
    <3>1. SUFFICES ASSUME NEW bits \in Seq(Bit), NEW i \in Nat PROVE Capacity(bits, i) \in Int
      OBVIOUS
    <3>2. CASE i < Len(bits)
      <4>1. i + 1 \in 1..Len(bits)
        BY <3>2
      <4>2. bits[i + 1] \in Bit
        BY <4>1
      <4>3. QED BY <4>2, Unlimited DEF Capacity, Bit
    <3>3. CASE ~(i < Len(bits))
      BY <3>3, Unlimited DEF Capacity
    <3>4. QED BY <3>2, <3>3
  <2>3. n.i \in Nat
    BY <1>6, <1>12, Fields
  <2>4. SourceLevel(a(c), b(c), n) \in Int
    <3>1. Capacity(a(c), n.i) \in Int /\ Capacity(b(c), n.i) \in Int
      BY <1>4, <2>2, <2>3
    <3>2. QED BY <3>1, Unlimited DEF SourceLevel, Smaller
  <2>5. QED BY <1>1, <1>5, <1>7, <2>4
<1>15. middle \in [Nodes -> Int] /\ left \in [Nodes -> Int]
  BY <1>1, <1>5, <1>7
<1>16. Planned
  BY <1>9, <1>11, <1>12, <1>13, <1>14, <1>15 DEF Planned, Divided
<1>17. CountsUsers
  <2>1. SUFFICES ASSUME NEW n \in Nodes PROVE Cardinality(Users(n)) <= left[n]
    BY DEF CountsUsers
  <2>2. Users(n) \in SUBSET {n}
    BY <1>13 DEF Users, Parents, IsSource
  <2>3. IsFiniteSet({n}) /\ Cardinality({n}) = 1
    BY FS_Singleton
  <2>4. Cardinality(Users(n)) <= 1
    BY <2>2, <2>3, Within
  <2>5. QED BY <1>13, <2>4
<1>18. QED BY <1>1, <1>6, <1>16, <1>17

--------------------------------------------------------------------------------
(***************************************************************************)
(* The inductive invariant of the computation.                             *)
(***************************************************************************)
Stages == {"lock", "first", "second", "multiply", "scan", "grow", "move", "fill", "done"}
Waiting == {"first", "second"}
Computing == {"first", "second", "multiply", "scan", "grow", "move", "fill"}
AFrame == [node : Nodes, stage : Stages, cell : Nat \ {0}]
Cell == [used : BOOLEAN, ctxt : Ciphertexts]

RunTypes ==
  /\ Threads = 1..NrThreads
  /\ ct \in [Nodes -> Nat] /\ owner \in [Nodes -> 0..NrThreads]
  /\ cells \in Seq(Cell) /\ growing \in 0..NrThreads
  /\ sum \in [0..(add.sizeLimit - 1) -> Ciphertexts]
  /\ work \in [Threads -> [bit : Nat, place : Int]]
  /\ stack \in [Threads -> Seq(AFrame)]

\* A thread has a call as long as it has work, first for the node that it adds next.
Busy(t) == work[t].bit \in BitsOf(t) /\ work[t].bit <= bSize
AtWork ==
  \A t \in Threads :
    /\ work[t].bit >= FirstBit(t) /\ work[t].place < Places(work[t].bit)
    /\ Busy(t) => work[t].place >= 0 /\ stack[t] # <<>> /\ stack[t][1].node = NodeAt(work[t])
    /\ ~Busy(t) => stack[t] = <<>>

\* Every other call is for the parent that its caller waits for, an interval within it.
Callee(f) == IF f.stage = "first" THEN Parent1(f.node) ELSE Parent2(f.node)
Inside(n, m) == m.j <= n.j /\ n.i <= m.i
Nested ==
  \A t \in Threads : \A k \in DOMAIN stack[t] :
    /\ k < Len(stack[t]) =>
         /\ stack[t][k].stage \in Waiting /\ ~IsSource(stack[t][k].node)
         /\ stack[t][k + 1].node = Callee(stack[t][k])
    /\ k = Len(stack[t]) => stack[t][k].stage \notin Waiting
    /\ \A l \in DOMAIN stack[t] : k < l => Inside(stack[t][l].node, Callee(stack[t][k]))

\* A call holds its node, and the parents that are there until the node is.
Holds(f, n) ==
  \/ f.stage # "lock" /\ n = f.node
  \/ ~IsSource(f.node) /\ f.stage \in Computing \ {"first"} /\ n = Parent1(f.node)
  \/ ~IsSource(f.node) /\ f.stage \in Computing \ Waiting /\ n = Parent2(f.node)
Held(t, n) == \E k \in DOMAIN stack[t] : Holds(stack[t][k], n)
Locked == \A t \in Threads, n \in Nodes : owner[n] = t <=> Held(t, n)

InStage(t, stage) == stack[t] # <<>> /\ Last(t).stage = stage
Growing == \A t \in Threads : growing = t <=> InStage(t, "move")

Ready(f) ==
  /\ f.stage \in Computing => ct[f.node] = 0
  /\ f.stage = "done" => ct[f.node] # 0
  /\ f.stage = "multiply" => ~IsSource(f.node)
  /\ \A n \in Parents(f.node) : Holds(f, n) => ct[n] # 0
Staged == \A t \in Threads : \A k \in DOMAIN stack[t] : Ready(stack[t][k])

CellsApart ==
  \A n \in Nodes :
    ct[n] # 0 => /\ ct[n] \in DOMAIN cells /\ cells[ct[n]].used
                 /\ \A m \in Nodes \ {n} : ct[m] # ct[n]
Contents == \A n \in Nodes : ct[n] # 0 => Number(Content(n)) = Meaning(n)
\* The cell a thread has taken is nobody else's.
Filling ==
  \A t \in Threads :
    InStage(t, "fill") =>
      /\ Last(t).cell \in DOMAIN cells /\ cells[Last(t).cell].used
      /\ \A n \in Nodes : ct[n] # Last(t).cell
      /\ \A u \in Threads \ {t} : InStage(u, "fill") => Last(u).cell # Last(t).cell

\* Who will still count a reader of n down: n itself when it is added, and its children.
Ahead(t, i, k) == i > work[t].bit \/ (i = work[t].bit /\ k <= work[t].place)
InWork(n) ==
  \E t \in Threads : \E i \in BitsOf(t) : \E k \in 0..(Places(i) - 1) :
    Ahead(t, i, k) /\ n = NodeAt([bit |-> i, place |-> k])
Past(c, n) ==
  \E t \in Threads : \E k \in DOMAIN stack[t] : stack[t][k].node = c /\ Holds(stack[t][k], n)
Pending(n) ==
  {c \in Nodes : \/ c = n /\ InWork(n)
                 \/ n \in Parents(c) /\ ct[c] = 0 /\ left[c] > 0 /\ ~Past(c, n)}
Counted == \A n \in Nodes : Cardinality(Pending(n)) <= left[n]

Summed ==
  \A t \in Threads : \A i \in BitsOf(t) :
    /\ i < work[t].bit => Number(sum[i]) = SumBit(i)
    /\ i > work[t].bit \/ i > bSize => sum[i] = Empty
    /\ i = work[t].bit /\ i <= bSize =>
         IF work[t].place = Carries(i) THEN sum[i] = Empty
         ELSE (Number(sum[i]) + CarriesBelow(i)[work[t].place + 1]) % RING = SumBit(i)

Run ==
  /\ RunTypes /\ AtWork /\ Nested /\ Locked /\ Growing /\ Staged
  /\ CellsApart /\ Contents /\ Filling /\ Counted /\ Summed
Planning ==
  /\ ct = <<>> /\ owner = <<>> /\ cells = <<>> /\ growing = 0 /\ raced = FALSE /\ sum = <<>>
  /\ CountsUsers
IInv ==
  /\ Operands /\ Planned
  /\ stack = <<>> => Planning
  /\ stack # <<>> => next.kind = "q" /\ next.j < 0 /\ (~raced => Run)

--------------------------------------------------------------------------------
(* The bits of a thread, and the nodes of a bit. *)

\* There is a thread, and none without a bit of the sum.
LEMMA SomeThreads ==
  ASSUME Operands
  PROVE  NrThreads \in Nat \ {0} /\ NrThreads <= add.sizeLimit
BY DEF Operands, NrThreads, Smaller

\* The intervals of the threads begin in their order, from 0 to the end of the sum.
LEMMA Intervals ==
  ASSUME Operands
  PROVE  /\ \A t \in Nat \ {0} : FirstBit(t) \in Nat
         /\ FirstBit(1) = 0 /\ FirstBit(NrThreads + 1) = add.sizeLimit
         /\ \A t, u \in Nat \ {0} : t <= u => FirstBit(t) <= FirstBit(u)
<1> DEFINE N == NrThreads
           L == add.sizeLimit
           q == L \div N
           r == L % N
<1>1. N \in Nat \ {0} /\ L \in Nat
  BY SomeThreads DEF Operands
<1>2. q \in Nat /\ r \in 0..(N - 1) /\ L = N * q + r
  BY <1>1, NatQuotients
<1>3. \A t \in Nat \ {0} : FirstBit(t) = (t - 1) * q + Smaller(t - 1, r)
  BY DEF FirstBit
<1> HIDE DEF N, L, q, r
<1>4. \A t \in Nat \ {0} : (t - 1) * q \in Nat /\ Smaller(t - 1, r) \in Nat
  BY <1>1, <1>2 DEF Smaller
<1>5. \A t \in Nat \ {0} : FirstBit(t) \in Nat
  BY <1>3, <1>4
<1>6. FirstBit(1) = 0
  <2>1. FirstBit(1) = 0 * q + Smaller(0, r)
    BY <1>3
  <2>2. 0 * q = 0 /\ Smaller(0, r) = 0
    BY <1>1, <1>2 DEF Smaller
  <2>3. QED BY <2>1, <2>2
<1>7. FirstBit(N + 1) = L
  <2>1. N + 1 \in Nat \ {0} /\ (N + 1) - 1 = N
    BY <1>1
  <2>2. FirstBit(N + 1) = N * q + Smaller(N, r)
    BY <1>3, <2>1
  <2>3. Smaller(N, r) = r
    BY <1>1, <1>2 DEF Smaller
  <2>4. QED BY <1>2, <2>2, <2>3
<1>8. ASSUME NEW t \in Nat \ {0}, NEW u \in Nat \ {0}, t <= u PROVE FirstBit(t) <= FirstBit(u)
  <2> DEFINE x == t - 1
             d == u - t
  <2>1. x \in Nat /\ d \in Nat /\ u - 1 = x + d
    BY <1>8
  <2>2. FirstBit(t) = x * q + Smaller(x, r) /\ FirstBit(u) = (x + d) * q + Smaller(x + d, r)
    BY <1>3, <2>1
  <2> HIDE DEF x, d
  <2>3. (x + d) * q = x * q + d * q /\ x * q \in Nat /\ d * q \in Nat
    BY <1>2, <2>1
  <2>4. Smaller(x, r) <= Smaller(x + d, r) /\ Smaller(x, r) \in Nat /\ Smaller(x + d, r) \in Nat
    BY <1>1, <1>2, <2>1 DEF Smaller
  <2>5. QED BY <2>2, <2>3, <2>4
<1>9. QED BY <1>5, <1>6, <1>7, <1>8 DEF N, L

\* Each bit of the sum is one thread's.
LEMMA BitsApart ==
  ASSUME Operands
  PROVE  /\ \A t \in 1..NrThreads : BitsOf(t) \subseteq 0..(add.sizeLimit - 1) /\ FirstBit(t) \in Nat
         /\ \A t, u \in 1..NrThreads : t # u => BitsOf(t) \intersect BitsOf(u) = {}
         /\ \A i \in 0..(add.sizeLimit - 1) : \E t \in 1..NrThreads : i \in BitsOf(t)
<1> DEFINE N == NrThreads
           F(t) == FirstBit(t)
<1>1. N \in Nat \ {0} /\ add.sizeLimit \in Nat
  BY SomeThreads DEF Operands
<1>2. \A t \in Nat \ {0} : F(t) \in Nat
  BY Intervals
<1>3. F(1) = 0 /\ F(N + 1) = add.sizeLimit
  BY Intervals
<1>4. \A t, u \in Nat \ {0} : t <= u => F(t) <= F(u)
  BY Intervals
<1>5. \A t : BitsOf(t) = F(t)..(F(t + 1) - 1)
  BY DEF BitsOf
<1> HIDE DEF N, F
<1>6. ASSUME NEW t \in 1..N PROVE BitsOf(t) \subseteq 0..(add.sizeLimit - 1) /\ F(t) \in Nat
  <2>1. t \in Nat \ {0} /\ t + 1 \in Nat \ {0} /\ N + 1 \in Nat \ {0} /\ t + 1 <= N + 1
    BY <1>1
  <2>2. F(t) \in Nat /\ F(t + 1) \in Nat /\ F(t + 1) <= add.sizeLimit
    BY <1>2, <1>3, <1>4, <2>1
  <2>3. QED BY <1>1, <1>5, <2>2
<1>7. ASSUME NEW t \in 1..N, NEW u \in 1..N, t < u PROVE BitsOf(t) \intersect BitsOf(u) = {}
  <2>1. t + 1 \in Nat \ {0} /\ u \in Nat \ {0} /\ u + 1 \in Nat \ {0} /\ t + 1 <= u /\ t \in Nat \ {0}
    BY <1>1, <1>7
  <2>2. F(t + 1) <= F(u) /\ F(t) \in Nat /\ F(u) \in Nat /\ F(t + 1) \in Nat /\ F(u + 1) \in Nat
    BY <1>2, <1>4, <2>1
  <2>3. QED BY <1>5, <2>2
<1>8. ASSUME NEW t \in 1..N, NEW u \in 1..N, t # u PROVE BitsOf(t) \intersect BitsOf(u) = {}
  <2>1. t < u \/ u < t
    BY <1>1, <1>8
  <2>2. QED BY <1>7, <2>1
<1>9. ASSUME NEW i \in 0..(add.sizeLimit - 1) PROVE \E t \in 1..N : i \in BitsOf(t)
  <2> DEFINE S == {t \in 1..N : i < F(t + 1)}
  <2>1. N \in S /\ S \in SUBSET Nat
    BY <1>1, <1>3
  <2> HIDE DEF S
  <2>2. PICK t \in S : \A u \in S : t <= u
    BY <2>1, Least
  <2>3. t \in 1..N /\ i < F(t + 1)
    BY DEF S
  <2>4. F(t) <= i
    <3>1. CASE t = 1
      BY <1>3, <3>1
    <3>2. CASE t # 1
      <4>1. t - 1 \in 1..N /\ (t - 1) + 1 = t /\ ~(t <= t - 1)
        BY <1>1, <2>3, <3>2
      <4>2. ~(i < F((t - 1) + 1))
        BY <2>2, <4>1 DEF S
      <4>3. F(t) \in Nat
        BY <1>2, <2>3
      <4>4. QED BY <4>1, <4>2, <4>3
    <3>3. QED BY <3>1, <3>2
  <2>5. F(t) \in Nat /\ F(t + 1) \in Nat
    <3>1. t \in Nat \ {0} /\ t + 1 \in Nat \ {0}
      BY <2>3
    <3>2. QED BY <1>2, <3>1
  <2>6. QED BY <1>5, <2>3, <2>4, <2>5
<1>10. QED BY <1>6, <1>8, <1>9 DEF N, F

\* How many nodes are added to a bit.
LEMMA PlacesOfBits ==
  ASSUME Operands, NEW i \in Nat
  PROVE  /\ Carries(i) \in 0..i /\ Carries(i) <= aSize /\ Places(i) \in Nat
         /\ (i < bSize => Places(i) = Carries(i) + 1)
         /\ (i = bSize => Places(i) = Carries(i) /\ Carries(i) = aSize)
         /\ (i > bSize => Places(i) = 0)
         /\ (i <= bSize => Places(i) > 0)
BY Sizes DEF Carries, Places, Smaller

\* The nodes that are added to a bit are nodes of the plan that count the sum as a user.
LEMMA NodesOfBits ==
  ASSUME Operands, NEW i \in Nat, NEW k \in 0..(Places(i) - 1)
  PROVE  /\ i <= bSize /\ k <= Carries(i)
         /\ (k = Carries(i) => i < bSize /\ NodeAt([bit |-> i, place |-> k]) = [kind |-> "p", i |-> i, j |-> i])
         /\ (k # Carries(i) => k < i /\ k < aSize /\ NodeAt([bit |-> i, place |-> k]) = [kind |-> "q", i |-> i - 1, j |-> k])
         /\ NodeAt([bit |-> i, place |-> k]) \in AllNodes /\ InSum(NodeAt([bit |-> i, place |-> k]))
<1>1. /\ Carries(i) \in 0..i /\ Carries(i) <= aSize /\ Places(i) \in Nat
      /\ (i < bSize => Places(i) = Carries(i) + 1)
      /\ (i = bSize => Places(i) = Carries(i) /\ Carries(i) = aSize)
      /\ (i > bSize => Places(i) = 0)
  BY PlacesOfBits
<1>2. aSize \in Nat /\ bSize \in Nat /\ aSize <= bSize
  BY Sizes
<1>3. i <= bSize /\ k <= Carries(i) /\ (k = Carries(i) => i < bSize) /\ (k # Carries(i) => k < i /\ k < aSize)
  BY <1>1, <1>2
<1>4. k = Carries(i) => NodeAt([bit |-> i, place |-> k]) = [kind |-> "p", i |-> i, j |-> i]
  BY DEF NodeAt, PNode
<1>5. k # Carries(i) => NodeAt([bit |-> i, place |-> k]) = [kind |-> "q", i |-> i - 1, j |-> k]
  BY DEF NodeAt, QNode
<1>6. k = Carries(i) => [kind |-> "p", i |-> i, j |-> i] \in AllNodes
  BY <1>2, <1>3 DEF AllNodes, Kinds
<1>7. k # Carries(i) => [kind |-> "q", i |-> i - 1, j |-> k] \in AllNodes
  BY <1>2, <1>3 DEF AllNodes, Kinds
<1>8. InSum([kind |-> "p", i |-> i, j |-> i]) /\ InSum([kind |-> "q", i |-> i - 1, j |-> k])
  BY DEF InSum
<1>9. QED BY <1>3, <1>4, <1>5, <1>6, <1>7, <1>8

\* No node is added at two places.
LEMMA NodesApart ==
  ASSUME Operands, NEW i \in Nat, NEW k \in 0..(Places(i) - 1), NEW h \in Nat, NEW l \in 0..(Places(h) - 1),
         NodeAt([bit |-> i, place |-> k]) = NodeAt([bit |-> h, place |-> l])
  PROVE  i = h /\ k = l
<1> DEFINE n == NodeAt([bit |-> i, place |-> k])
           m == NodeAt([bit |-> h, place |-> l])
<1>1. /\ (k = Carries(i) => n = [kind |-> "p", i |-> i, j |-> i])
      /\ (k # Carries(i) => n = [kind |-> "q", i |-> i - 1, j |-> k])
  BY NodesOfBits
<1>2. /\ (l = Carries(h) => m = [kind |-> "p", i |-> h, j |-> h])
      /\ (l # Carries(h) => m = [kind |-> "q", i |-> h - 1, j |-> l])
  BY NodesOfBits
<1>3. n.kind = m.kind /\ n.i = m.i /\ n.j = m.j
  OBVIOUS
<1> HIDE DEF n, m
<1>4. (k = Carries(i) /\ n.kind = "p" /\ n.i = i) \/ (k # Carries(i) /\ n.kind = "q" /\ n.i = i - 1 /\ n.j = k)
  BY <1>1
<1>5. (l = Carries(h) /\ m.kind = "p" /\ m.i = h) \/ (l # Carries(h) /\ m.kind = "q" /\ m.i = h - 1 /\ m.j = l)
  BY <1>2
<1>6. QED BY <1>3, <1>4, <1>5

--------------------------------------------------------------------------------
(* What does not change once the operands, and then the plan, are there. *)

\* The bits of the threads and their nodes depend on the addition only.
LEMMA AdditionStays ==
  ASSUME add' = add
  PROVE  /\ NrThreads' = NrThreads
         /\ \A t : FirstBit(t)' = FirstBit(t) /\ BitsOf(t)' = BitsOf(t)
         /\ \A i : /\ Carries(i)' = Carries(i) /\ Places(i)' = Places(i)
                   /\ BeginBit(i)' = BeginBit(i)
         /\ \A w : NodeAt(w)' = NodeAt(w) /\ Continued(w)' = Continued(w)
<1>1. /\ NrThreads' = NrThreads
      /\ \A t : FirstBit(t)' = FirstBit(t) /\ BitsOf(t)' = BitsOf(t)
  BY DEF FirstBit, BitsOf, NrThreads
<1>2. \A i : Carries(i)' = Carries(i) /\ Places(i)' = Places(i) /\ BeginBit(i)' = BeginBit(i)
  BY DEF Carries, Places, BeginBit, aSize, bSize
<1>3. \A w : NodeAt(w)' = NodeAt(w) /\ Continued(w)' = Continued(w)
  BY DEF NodeAt, Continued, Carries, Places, BeginBit, aSize, bSize
<1>4. QED BY <1>1, <1>2, <1>3

\* So does the meaning of a node.
LEMMA MeaningStays ==
  ASSUME add' = add
  PROVE  \A n : Meaning(n)' = Meaning(n)
BY DEF Meaning, ProductFrom, X, Value, Number

\* So do the bits of the sum.
LEMMA SumsStay ==
  ASSUME add' = add
  PROVE  \A i : SumBit(i)' = SumBit(i) /\ CarriesBelow(i)' = CarriesBelow(i) /\ X(i)' = X(i)
<1>1. \A i : SumBit(i)' = SumBit(i)
  BY DEF Meaning, ProductFrom, X, Value, Number, SumBit, CarriesBelow, Smaller, aSize
<1>2. \A i : CarriesBelow(i)' = CarriesBelow(i)
  BY DEF Meaning, ProductFrom, X, Value, Number, CarriesBelow
<1>3. \A i : X(i)' = X(i)
  BY DEF X, Value, Number
<1>4. QED BY <1>1, <1>2, <1>3

\* Once the plan is made, parents, locks and types of frames do not change.
LEMMA PlanStays ==
  ASSUME UNCHANGED <<add, plan>>, Nodes' = Nodes
  PROVE  /\ \A n : IsSource(n)' = IsSource(n) /\ Parents(n)' = Parents(n)
         /\ \A n : Parent1(n)' = Parent1(n) /\ Parent2(n)' = Parent2(n)
         /\ \A f, n : Holds(f, n)' = Holds(f, n) /\ Callee(f)' = Callee(f)
         /\ AllNodes' = AllNodes /\ AFrame' = AFrame
         /\ (Operands => Operands')
         /\ (Planned /\ left' \in [Nodes -> Int] => Planned')
<1>1. middle' = middle /\ level' = level /\ next' = next /\ add' = add
  BY DEF plan
<1>2. AllNodes' = AllNodes /\ (Operands => Operands') /\ bSize' = bSize
  BY <1>1, AllNodesStay
<1>3. \A n : IsSource(n)' = IsSource(n)
  BY <1>1 DEF IsSource
<1>4. \A n : Parent1(n)' = Parent1(n) /\ Parent2(n)' = Parent2(n)
  BY <1>1 DEF Parent1, Parent2
<1>5. \A n : Parents(n)' = Parents(n)
  BY <1>3, <1>4 DEF Parents
<1>6. \A f, n : Holds(f, n)' = Holds(f, n)
  BY <1>3, <1>4 DEF Holds
<1>7. \A f : Callee(f)' = Callee(f)
  BY <1>4 DEF Callee
<1>8. AFrame' = AFrame
  BY DEF AFrame
<1>9. NextOne' = NextOne
  BY <1>1, <1>2 DEF NextOne
<1>10. \A n : Made(n)' = Made(n)
  BY <1>1 DEF Made, Before
<1>11. ASSUME Planned, left' \in [Nodes -> Int] PROVE Planned'
  <2>1. Divided' = Divided
    BY <1>1 DEF Divided
  <2>2. Nodes' = {n \in AllNodes : Made(n)'}
    BY <1>10, <1>11 DEF Planned
  <2>3. QED BY <1>1, <1>2, <1>9, <1>11, <2>1, <2>2 DEF Planned
<1>12. QED BY <1>2, <1>3, <1>4, <1>5, <1>6, <1>7, <1>8, <1>11

\* The threads begin when every node of the plan is made.
LEMMA AllMade ==
  ASSUME Operands, Planned, next.kind = "q", next.j < 0
  PROVE  Nodes = AllNodes
<1>1. next.i = bSize - 1 /\ next.j = -1
  BY DEF Planned, NextOne
<1>2. ASSUME NEW n \in AllNodes PROVE Made(n)
  <2>1. n.kind \in Kinds /\ n.i \in Nat /\ n.j \in Nat /\ n.j <= n.i /\ n.i < bSize
    BY Fields
  <2>2. Before(n, next)
    BY <1>1, <2>1, Sizes DEF Before
  <2>3. QED BY <2>1, <2>2 DEF Made, Kinds
<1>3. QED BY <1>2 DEF Planned

--------------------------------------------------------------------------------
(* The threads begin. *)

\* The work and the call of a thread that goes on at place k of bit i.
LEMMA Called ==
  ASSUME Operands, Planned, next.kind = "q", next.j < 0,
         NEW t \in 1..NrThreads, NEW w \in [bit : Nat, place : Int],
         w.place < Places(w.bit), w.bit <= bSize => w.place >= 0
  PROVE  /\ CallFor(t, w) \in Seq(AFrame)
         /\ w.bit \in BitsOf(t) /\ w.bit <= bSize =>
              /\ CallFor(t, w) = <<Frame(NodeAt(w), "lock")>>
              /\ Len(CallFor(t, w)) = 1 /\ CallFor(t, w)[1] = Frame(NodeAt(w), "lock")
              /\ NodeAt(w) \in Nodes /\ InSum(NodeAt(w))
              /\ w.place \in 0..(Places(w.bit) - 1)
         /\ ~(w.bit \in BitsOf(t) /\ w.bit <= bSize) => CallFor(t, w) = <<>>
         /\ w = [bit |-> w.bit, place |-> w.place]
<1>1. ~(w.bit \in BitsOf(t) /\ w.bit <= bSize) => CallFor(t, w) = <<>>
  BY DEF CallFor
<1>2. w = [bit |-> w.bit, place |-> w.place]
  OBVIOUS
<1>3. CASE w.bit \in BitsOf(t) /\ w.bit <= bSize
  <2>1. w.bit \in Nat /\ w.place \in 0..(Places(w.bit) - 1)
    <3>1. w.bit \in Nat
      OBVIOUS
    <3>2. Places(w.bit) \in Nat
      BY <3>1, PlacesOfBits
    <3>3. QED BY <1>3, <3>2
  <2>2. NodeAt(w) \in AllNodes /\ InSum(NodeAt(w))
    <3> DEFINE i == w.bit
               k == w.place
    <3>1. i \in Nat /\ k \in 0..(Places(i) - 1) /\ w = [bit |-> i, place |-> k]
      BY <1>2, <2>1
    <3> HIDE DEF i, k
    <3>2. NodeAt([bit |-> i, place |-> k]) \in AllNodes /\ InSum(NodeAt([bit |-> i, place |-> k]))
      BY <3>1, NodesOfBits
    <3>3. QED BY <3>1, <3>2
  <2>3. NodeAt(w) \in Nodes
    BY <2>2, AllMade
  <2>4. CallFor(t, w) = <<Frame(NodeAt(w), "lock")>>
    BY <1>3 DEF CallFor
  <2>5. Frame(NodeAt(w), "lock") \in AFrame
    BY <2>3 DEF Frame, AFrame, Stages
  <2>6. CallFor(t, w) \in Seq(AFrame)
    BY <2>4, <2>5
  <2>7. QED BY <1>1, <1>2, <1>3, <2>1, <2>2, <2>3, <2>4, <2>6
<1>4. CASE ~(w.bit \in BitsOf(t) /\ w.bit <= bSize)
  BY <1>1, <1>2, <1>4
<1>5. QED BY <1>3, <1>4

\* Where the work on a bit begins.
LEMMA Begun ==
  ASSUME Operands, NEW i \in Nat
  PROVE  /\ BeginBit(i) \in [bit : Nat, place : Int]
         /\ BeginBit(i).bit = i /\ BeginBit(i).place = Places(i) - 1
         /\ BeginBit(i).place < Places(i) /\ (i <= bSize => BeginBit(i).place >= 0)
BY PlacesOfBits DEF BeginBit

\* The bit for the last carry has no bits of the operands.
LEMMA BitBegins ==
  ASSUME Operands, NEW i \in Nat, i <= bSize, Places(i) - 1 # Carries(i)
  PROVE  (Number(Empty) + CarriesBelow(i)[(Places(i) - 1) + 1]) % RING = SumBit(i)
<1>1. i = bSize /\ Places(i) = Carries(i) /\ Places(i) \in Nat
  <2>1. /\ Places(i) \in Nat /\ Carries(i) \in Nat /\ bSize \in Nat
        /\ (i < bSize => Places(i) = Carries(i) + 1) /\ (i = bSize => Places(i) = Carries(i))
    BY PlacesOfBits, Sizes
  <2>2. ~(i < bSize)
    BY <2>1
  <2>3. QED BY <2>1, <2>2
<1>2. (Places(i) - 1) + 1 = Smaller(i, aSize) /\ X(i) = 0
  BY <1>1, SumsOfBits DEF Carries
<1>3. QED BY <1>2 DEF SumBit, Number

\* Begin establishes the invariant of the threads (binaryArith.cpp:322-352).
LEMMA BeginRuns ==
  ASSUME Operands, Planned, Planning, Begin
  PROVE  Operands' /\ Planned' /\ Run' /\ stack' # <<>>
<1> DEFINE w0 == [t \in 1..NrThreads |-> BeginBit(FirstBit(t))]
<1>1. /\ next.kind = "q" /\ next.j < 0 /\ UNCHANGED <<add, plan, left, cells, growing, raced>>
      /\ ct' = [n \in Nodes |-> 0] /\ owner' = [n \in Nodes |-> 0]
      /\ sum' = [i \in 0..(add.sizeLimit - 1) |-> Empty]
      /\ work' = w0
      /\ stack' = [t \in 1..NrThreads |-> CallFor(t, w0[t])]
  BY DEF Begin
<1>2. Nodes' = Nodes /\ Nodes = AllNodes
  BY <1>1, AllMade DEF Nodes
<1>3. Operands' /\ Planned'
  BY <1>1, <1>2, PlanStays DEF Planned
<1>4. /\ NrThreads \in Nat \ {0} /\ add.sizeLimit \in Nat \ {0} /\ bSize \in Nat
      /\ \A t \in 1..NrThreads : FirstBit(t) \in Nat
  BY SomeThreads, Sizes, BitsApart DEF Operands
<1>5. ASSUME NEW t \in 1..NrThreads
      PROVE  /\ w0[t] = BeginBit(FirstBit(t)) /\ w0[t] \in [bit : Nat, place : Int]
             /\ w0[t].bit = FirstBit(t) /\ w0[t].place = Places(FirstBit(t)) - 1
             /\ w0[t].place < Places(w0[t].bit) /\ (w0[t].bit <= bSize => w0[t].place >= 0)
  BY <1>4, Begun
<1> HIDE DEF w0
<1>6. /\ Threads' = 1..NrThreads /\ NrThreads' = NrThreads /\ AFrame' = AFrame
      /\ \A t \in 1..NrThreads : stack'[t] = CallFor(t, w0[t])
  BY <1>1, <1>2, AdditionStays, PlanStays DEF Threads
<1>7. stack' # <<>>
  BY <1>4, <1>6 DEF Threads
<1>8. ASSUME NEW t \in 1..NrThreads, NEW k \in DOMAIN stack'[t]
      PROVE  /\ Len(stack'[t]) = 1 /\ k = 1 /\ stack'[t][k].stage = "lock"
             /\ stack'[t][k].node \in Nodes /\ InSum(stack'[t][k].node)
  <2> DEFINE c == CallFor(t, w0[t])
             w == w0[t]
  <2>1. stack'[t] = c /\ c \in Seq(AFrame)
    BY <1>1, <1>5, <1>6, Called
  <2>2. c # <<>>
    BY <2>1
  <2>3. w.bit \in BitsOf(t) /\ w.bit <= bSize
    BY <2>2 DEF CallFor
  <2>4. Len(c) = 1 /\ c[1] = Frame(NodeAt(w), "lock") /\ NodeAt(w) \in Nodes /\ InSum(NodeAt(w))
    BY <1>1, <1>5, <2>3, Called
  <2>5. k \in 1..Len(c)
    BY <2>1
  <2> HIDE DEF c
  <2>6. k = 1
    BY <2>4, <2>5
  <2>7. stack'[t][k] = [node |-> NodeAt(w), stage |-> "lock", cell |-> 1]
    BY <2>1, <2>4, <2>6 DEF Frame
  <2> HIDE DEF w
  <2>8. stack'[t][k].stage = "lock" /\ stack'[t][k].node = NodeAt(w)
    BY <2>7
  <2>9. QED BY <2>1, <2>4, <2>6, <2>8
<1>9. RunTypes'
  <2>1. stack' \in [Threads' -> Seq(AFrame)]
    BY <1>1, <1>5, <1>6, Called
  <2>2. work' \in [Threads' -> [bit : Nat, place : Int]]
    <3>1. work' = [t \in Threads' |-> w0[t]]
      BY <1>1, <1>6 DEF w0
    <3>2. QED BY <1>5, <1>6, <3>1
  <2>3. ct' \in [Nodes' -> Nat] /\ owner' \in [Nodes' -> 0..NrThreads']
    BY <1>1, <1>2, <1>4, <1>6
  <2>4. cells' = <<>> /\ growing' = 0
    BY <1>1 DEF Planning
  <2>5. sum' \in [0..(add'.sizeLimit - 1) -> Ciphertexts]
    BY <1>1 DEF Ciphertexts
  <2>6. cells' \in Seq(Cell) /\ growing' \in 0..NrThreads'
    BY <1>4, <1>6, <2>4
  <2>7. QED BY <1>6, <2>1, <2>2, <2>3, <2>5, <2>6 DEF RunTypes, Cell
<1>10. /\ \A t : BitsOf(t)' = BitsOf(t) /\ FirstBit(t)' = FirstBit(t)
       /\ \A i : Places(i)' = Places(i) /\ Carries(i)' = Carries(i)
       /\ \A w : NodeAt(w)' = NodeAt(w)
       /\ bSize' = bSize
  BY <1>1, AdditionStays DEF bSize
<1>11. AtWork'
  <2>1. SUFFICES ASSUME NEW t \in 1..NrThreads
        PROVE  /\ work'[t].bit >= FirstBit(t) /\ work'[t].place < Places(work'[t].bit)
               /\ work'[t].bit \in BitsOf(t) /\ work'[t].bit <= bSize =>
                    work'[t].place >= 0 /\ stack'[t] # <<>> /\ stack'[t][1].node = NodeAt(work'[t])
               /\ ~(work'[t].bit \in BitsOf(t) /\ work'[t].bit <= bSize) => stack'[t] = <<>>
    BY <1>6, <1>10 DEF AtWork, Busy
  <2>2. work'[t] = w0[t] /\ w0[t].bit = FirstBit(t) /\ FirstBit(t) \in Nat
    BY <1>1, <1>4, <1>5
  <2>3. /\ w0[t] \in [bit : Nat, place : Int] /\ w0[t].place < Places(w0[t].bit)
        /\ (w0[t].bit <= bSize => w0[t].place >= 0)
    BY <1>5
  <2>4. CASE w0[t].bit \in BitsOf(t) /\ w0[t].bit <= bSize
    <3>1. Len(CallFor(t, w0[t])) = 1 /\ CallFor(t, w0[t])[1] = Frame(NodeAt(w0[t]), "lock")
      BY <1>1, <2>3, <2>4, Called
    <3>2. CallFor(t, w0[t]) # <<>>
      BY <3>1
    <3>3. QED BY <1>6, <2>2, <2>3, <2>4, <3>1, <3>2 DEF Frame
  <2>5. CASE ~(w0[t].bit \in BitsOf(t) /\ w0[t].bit <= bSize)
    <3>1. CallFor(t, w0[t]) = <<>>
      BY <1>1, <2>3, <2>5, Called
    <3>2. QED BY <1>6, <2>2, <2>3, <2>5, <3>1
  <2>6. QED BY <2>4, <2>5
<1>12. ASSUME NEW t \in 1..NrThreads PROVE DOMAIN stack'[t] = 1..Len(stack'[t]) /\ Len(stack'[t]) \in Nat
  BY <1>6, <1>9 DEF RunTypes
<1>13. Nested'
  <2>1. ASSUME NEW t \in Threads', NEW k \in DOMAIN stack'[t]
        PROVE  Len(stack'[t]) = 1 /\ k = 1 /\ stack'[t][k].stage \notin Waiting
    BY <1>6, <1>8 DEF Frame, Waiting
  <2>2. ASSUME NEW t \in Threads', NEW k \in DOMAIN stack'[t], NEW l \in DOMAIN stack'[t]
        PROVE  ~(k < l) /\ ~(k < Len(stack'[t]))
    <3>1. k = 1 /\ l = 1 /\ Len(stack'[t]) = 1
      BY <2>1
    <3>2. QED BY <3>1
  <2>3. QED BY <2>1, <2>2 DEF Nested
<1>14. Locked'
  <2>1. SUFFICES ASSUME NEW t \in 1..NrThreads, NEW n \in Nodes PROVE owner'[n] # t /\ ~Held(t, n)'
    BY <1>2, <1>6 DEF Locked
  <2>2. owner'[n] # t
    BY <1>1, <1>4
  <2>3. \A k \in DOMAIN stack'[t] : stack'[t][k].stage = "lock"
    BY <1>8 DEF Frame
  <2>4. QED BY <2>2, <2>3 DEF Held, Holds, Computing
<1>15. \A t \in 1..NrThreads, s \in Stages \ {"lock"} : ~InStage(t, s)'
  <2>1. SUFFICES ASSUME NEW t \in 1..NrThreads, stack'[t] # <<>> PROVE stack'[t][Len(stack'[t])].stage = "lock"
    BY DEF InStage, Last
  <2>2. stack'[t] \in Seq(AFrame)
    BY <1>6, <1>9 DEF RunTypes
  <2>3. Len(stack'[t]) \in DOMAIN stack'[t]
    BY <2>1, <2>2
  <2>4. QED BY <1>8, <2>3 DEF Frame
<1>16. Growing'
  <2>1. growing' = 0
    BY <1>1 DEF Planning
  <2>2. QED BY <1>4, <1>6, <1>15, <2>1 DEF Growing, Stages
<1>17. Staged'
  <2>1. SUFFICES ASSUME NEW t \in 1..NrThreads, NEW k \in DOMAIN stack'[t] PROVE Ready(stack[t][k])'
    BY <1>6 DEF Staged
  <2>2. stack'[t][k].stage = "lock"
    BY <1>8 DEF Frame
  <2>3. QED BY <2>2 DEF Ready, Holds, Computing, Parents
<1>18. ASSUME NEW n \in Nodes PROVE IsFiniteSet(Users(n)) /\ Cardinality(Users(n)) <= left[n] /\ left[n] \in Int
  <2>1. Users(n) \in SUBSET AllNodes
    BY <1>2 DEF Users
  <2>2. QED BY <2>1, FinitelyMany, FS_Subset DEF Planning, CountsUsers, Planned
<1>20. CellsApart' /\ Contents'
  BY <1>1, <1>2 DEF CellsApart, Contents
<1>21. Filling'
  BY <1>6, <1>15 DEF Filling, Stages
<1>22. Counted'
  <2>1. SUFFICES ASSUME NEW n \in Nodes PROVE Cardinality(Pending(n)') <= left'[n]
    BY <1>2 DEF Counted
  <2>2. InWork(n)' => InSum(n)
    <3>1. SUFFICES ASSUME NEW t \in 1..NrThreads, NEW i \in BitsOf(t), NEW k \in 0..(Places(i) - 1),
                          n = NodeAt([bit |-> i, place |-> k])
                   PROVE InSum(n)
      BY <1>6, <1>10 DEF InWork
    <3>2. i \in Nat
      BY BitsApart
    <3>3. QED BY <3>1, <3>2, NodesOfBits
  <2>3. \A c : Parents(c)' = Parents(c)
    BY <1>1, <1>2, PlanStays
  <2>4. Pending(n)' \in SUBSET Users(n)
    BY <1>2, <2>2, <2>3 DEF Pending, Users
  <2>5. /\ Cardinality(Pending(n)') <= Cardinality(Users(n))
        /\ Cardinality(Pending(n)') \in Nat /\ Cardinality(Users(n)) \in Nat
    BY <1>18, <2>4, Within
  <2>6. QED BY <1>1, <1>18, <2>5
<1>23. Summed'
  <2>1. \A i : SumBit(i)' = SumBit(i) /\ CarriesBelow(i)' = CarriesBelow(i)
    BY <1>1, SumsStay
  <2>2. SUFFICES ASSUME NEW t \in 1..NrThreads, NEW i \in BitsOf(t)
        PROVE  /\ i >= work'[t].bit /\ sum'[i] = Empty
               /\ i = work'[t].bit /\ i <= bSize =>
                    \/ work'[t].place = Carries(i)
                    \/ /\ work'[t].place # Carries(i)
                       /\ (Number(Empty) + CarriesBelow(i)[work'[t].place + 1]) % RING = SumBit(i)
    <3>1. ASSUME NEW t \in 1..NrThreads, NEW i \in BitsOf(t) PROVE i \in Int /\ work'[t].bit \in Int
      BY <1>1, <1>4, <1>5 DEF BitsOf
    <3> HIDE DEF w0
    <3>2. QED BY <1>6, <1>10, <2>1, <2>2, <3>1 DEF Summed
  <2>3. i \in 0..(add.sizeLimit - 1) /\ i \in Nat
    BY BitsApart
  <2>4. /\ work'[t].bit = FirstBit(t) /\ work'[t].place = Places(FirstBit(t)) - 1
        /\ FirstBit(t) \in Nat /\ i >= FirstBit(t)
    BY <1>1, <1>4, <1>5 DEF BitsOf
  <2>5. sum'[i] = Empty
    BY <1>1, <2>3
  <2>6. ASSUME i = work'[t].bit, i <= bSize, work'[t].place # Carries(i)
        PROVE  (Number(Empty) + CarriesBelow(i)[work'[t].place + 1]) % RING = SumBit(i)
    <3>1. work'[t].place = Places(i) - 1
      BY <2>4, <2>6
    <3>2. QED BY <2>3, <2>6, <3>1, BitBegins
  <2>7. QED BY <2>4, <2>5, <2>6
<1>24. QED
  BY <1>3, <1>7, <1>9, <1>11, <1>13, <1>14, <1>16, <1>17, <1>20, <1>21, <1>22, <1>23 DEF Run

--------------------------------------------------------------------------------
(* The calls of a thread. *)

Running == Operands /\ Planned /\ next.kind = "q" /\ next.j < 0 /\ ~raced /\ Run
Steady == UNCHANGED <<add, plan>> /\ Nodes' = Nodes

\* What the types say of the calls of a thread.
LEMMA Typed ==
  ASSUME Running
  PROVE  /\ Operands /\ Planned /\ Nodes = AllNodes /\ RunTypes
         /\ Threads = 1..NrThreads /\ NrThreads \in Nat \ {0}
         /\ \A t \in Threads : /\ stack[t] \in Seq(AFrame) /\ Len(stack[t]) \in Nat
                               /\ DOMAIN stack[t] = 1..Len(stack[t])
                               /\ \A k \in 1..Len(stack[t]) :
                                    /\ stack[t][k] \in AFrame
                                    /\ stack[t][k].node \in Nodes /\ stack[t][k].stage \in Stages
<1>1. Operands /\ Planned /\ RunTypes /\ Nodes = AllNodes
  BY AllMade DEF Running, Run
<1>2. Threads = 1..NrThreads /\ NrThreads \in Nat \ {0}
  BY <1>1, SomeThreads DEF RunTypes
<1>3. ASSUME NEW t \in Threads
      PROVE  /\ stack[t] \in Seq(AFrame) /\ Len(stack[t]) \in Nat /\ DOMAIN stack[t] = 1..Len(stack[t])
             /\ \A k \in 1..Len(stack[t]) :
                  stack[t][k] \in AFrame /\ stack[t][k].node \in Nodes /\ stack[t][k].stage \in Stages
  <2>1. stack[t] \in Seq(AFrame)
    BY <1>1 DEF RunTypes
  <2>2. \A k \in 1..Len(stack[t]) : stack[t][k] \in AFrame
    BY <2>1
  <2>3. \A f \in AFrame : f.node \in Nodes /\ f.stage \in Stages
    BY DEF AFrame
  <2>4. QED BY <2>1, <2>2, <2>3
<1>4. QED BY <1>1, <1>2, <1>3

\* A node of the plan, its interval and its parents.
LEMMA Nodal ==
  ASSUME Running, NEW n \in Nodes
  PROVE  /\ n \in AllNodes /\ n.i \in Nat /\ n.j \in Nat /\ n.j <= n.i /\ Inside(n, n)
         /\ ~IsSource(n) =>
              /\ middle[n] \in n.j..(n.i - 1) /\ middle[n] \in Nat
              /\ Parent1(n) = [kind |-> n.kind, i |-> middle[n], j |-> n.j]
              /\ Parent2(n) = [kind |-> "p", i |-> n.i, j |-> middle[n] + 1]
              /\ Parent1(n) \in Nodes /\ Parent2(n) \in Nodes
              /\ Parent1(n) # Parent2(n) /\ n # Parent1(n) /\ n # Parent2(n)
              /\ Inside(Parent1(n), n) /\ Inside(Parent2(n), n)
         /\ n \notin Parents(n)
<1>1. n \in AllNodes /\ n.i \in Nat /\ n.j \in Nat /\ n.j <= n.i
  BY Typed, Fields
<1>2. ASSUME ~IsSource(n)
      PROVE  /\ middle[n] \in n.j..(n.i - 1)
             /\ Parent1(n) = [kind |-> n.kind, i |-> middle[n], j |-> n.j]
             /\ Parent2(n) = [kind |-> "p", i |-> n.i, j |-> middle[n] + 1]
             /\ Parent1(n) \in Nodes /\ Parent2(n) \in Nodes
             /\ Parent1(n) # Parent2(n) /\ n # Parent1(n) /\ n # Parent2(n)
  BY <1>2, NodeParents DEF Running
<1>3. ~IsSource(n) => middle[n] \in Nat /\ Inside(Parent1(n), n) /\ Inside(Parent2(n), n)
  BY <1>1, <1>2 DEF Inside
<1>4. n \notin Parents(n)
  BY <1>2 DEF Parents
<1>5. QED BY <1>1, <1>2, <1>3, <1>4 DEF Inside

\* Inside is transitive.
LEMMA Within2 ==
  ASSUME NEW x, NEW y, NEW z, x.i \in Int, y.i \in Int, z.i \in Int, x.j \in Int, y.j \in Int, z.j \in Int,
         Inside(x, y), Inside(y, z)
  PROVE  Inside(x, z)
BY DEF Inside

\* What a call further out holds is no part of the node of a call further in.
LEMMA OuterApart ==
  ASSUME Running, NEW t \in Threads, NEW k \in 1..Len(stack[t]), NEW l \in 1..Len(stack[t]), k < l,
         NEW x \in Nodes, Inside(x, stack[t][l].node)
  PROVE  ~Holds(stack[t][k], x) /\ stack[t][k].node # x
<1> DEFINE f == stack[t][k]
           c == f.node
           n == stack[t][l].node
<1>1. /\ DOMAIN stack[t] = 1..Len(stack[t]) /\ Len(stack[t]) \in Nat /\ c \in Nodes /\ n \in Nodes
      /\ k \in Nat /\ l \in Nat
  BY Typed
<1>2. f.stage \in Waiting /\ ~IsSource(c) /\ Inside(n, Callee(f))
  <2>1. Nested
    BY DEF Running, Run
  <2>2. k < Len(stack[t])
    BY <1>1
  <2>3. QED BY <1>1, <2>1, <2>2 DEF Nested
<1> HIDE DEF c, n
<1>3. /\ c.i \in Nat /\ c.j \in Nat
      /\ middle[c] \in c.j..(c.i - 1) /\ middle[c] \in Nat
      /\ Parent1(c) = [kind |-> c.kind, i |-> middle[c], j |-> c.j]
      /\ Parent2(c) = [kind |-> "p", i |-> c.i, j |-> middle[c] + 1]
  BY <1>1, <1>2, Nodal
<1>4. n.i \in Nat /\ n.j \in Nat /\ x.i \in Nat /\ x.j \in Nat /\ x.j <= x.i
  BY <1>1, Nodal
<1>5. Inside(x, n)
  BY DEF n
<1>6. CASE f.stage = "first"
  <2>1. Callee(f) = Parent1(c)
    BY <1>6 DEF Callee, c
  <2>2. x.i <= middle[c]
    BY <1>2, <1>3, <1>4, <1>5, <2>1 DEF Inside
  <2>3. x # c
    BY <1>3, <1>4, <2>2
  <2>4. QED BY <1>6, <2>3 DEF Holds, Computing, Waiting, c
<1>7. CASE f.stage = "second"
  <2>1. Callee(f) = Parent2(c)
    BY <1>7 DEF Callee, c
  <2>2. x.j >= middle[c] + 1
    BY <1>2, <1>3, <1>4, <1>5, <2>1 DEF Inside
  <2>3. x # c
    BY <1>3, <1>4, <2>2
  <2>4. x # Parent1(c)
    <3>1. x.j # Parent1(c).j
      BY <1>3, <1>4, <2>2
    <3>2. QED BY <3>1
  <2>5. QED BY <1>7, <2>3, <2>4 DEF Holds, Computing, Waiting, c
<1>8. QED BY <1>2, <1>6, <1>7 DEF Waiting

\* The calls from b on are replaced by one for the same node, which may call for another one.
Settles(t, b, f) == stack' = [stack EXCEPT ![t] = SubSeq(stack[t], 1, b - 1) \o <<f>>]
Descends(t, b, f, g) == stack' = [stack EXCEPT ![t] = SubSeq(stack[t], 1, b - 1) \o <<f, g>>]

\* A stack whose end is replaced by one frame or two.
LEMMA Replaced ==
  ASSUME NEW s \in Seq(AFrame), NEW b \in 1..Len(s), NEW f \in AFrame, NEW g \in AFrame
  PROVE  /\ LET r == SubSeq(s, 1, b - 1) \o <<f>>
            IN r \in Seq(AFrame) /\ Len(r) = b /\ r[b] = f /\ \A k \in 1..(b - 1) : r[k] = s[k]
         /\ LET r == SubSeq(s, 1, b - 1) \o <<f, g>>
            IN /\ r \in Seq(AFrame) /\ Len(r) = b + 1 /\ r[b] = f /\ r[b + 1] = g
               /\ \A k \in 1..(b - 1) : r[k] = s[k]
<1> DEFINE h == SubSeq(s, 1, b - 1)
<1>1. Len(s) \in Nat /\ b \in Nat /\ b - 1 \in 0..Len(s)
  OBVIOUS
<1>2. h \in Seq(AFrame) /\ Len(h) = b - 1 /\ \A k \in 1..(b - 1) : h[k] = s[k]
  BY <1>1
<1>3. <<f>> \in Seq(AFrame) /\ <<f, g>> \in Seq(AFrame) /\ Len(<<f>>) = 1 /\ Len(<<f, g>>) = 2
  OBVIOUS
<1> HIDE DEF h
<1>4. h \o <<f>> \in Seq(AFrame) /\ Len(h \o <<f>>) = b
  BY <1>1, <1>2, <1>3
<1>5. h \o <<f, g>> \in Seq(AFrame) /\ Len(h \o <<f, g>>) = b + 1
  BY <1>1, <1>2, <1>3
<1>6. \A k \in 1..(b - 1) : (h \o <<f>>)[k] = s[k] /\ (h \o <<f, g>>)[k] = s[k]
  BY <1>1, <1>2, <1>3
<1>7. (h \o <<f>>)[b] = f /\ (h \o <<f, g>>)[b] = f /\ (h \o <<f, g>>)[b + 1] = g
  <2>1. b \in 1..(Len(h) + 2) /\ b + 1 \in 1..(Len(h) + 2) /\ b > Len(h) /\ b + 1 > Len(h)
        /\ b - Len(h) = 1 /\ (b + 1) - Len(h) = 2 /\ b \in 1..(Len(h) + 1)
    BY <1>1, <1>2
  <2>2. (h \o <<f>>)[b] = f
    BY <1>2, <1>3, <2>1
  <2> DEFINE p == <<f, g>>
  <2>3. p \in Seq(AFrame) /\ Len(p) = 2 /\ p[1] = f /\ p[2] = g
    OBVIOUS
  <2> HIDE DEF p
  <2>4. (h \o p)[b] = p[b - Len(h)] /\ (h \o p)[b + 1] = p[(b + 1) - Len(h)]
    <3>1. \A i \in 1..(Len(h) + Len(p)) : (h \o p)[i] = IF i <= Len(h) THEN h[i] ELSE p[i - Len(h)]
      BY <1>2, <2>3, ConcatProperties
    <3> DEFINE r == h \o p
    <3> HIDE DEF r
    <3>2. r[b] = IF b <= Len(h) THEN h[b] ELSE p[b - Len(h)]
      BY <2>1, <2>3, <3>1 DEF r
    <3>3. r[b + 1] = IF b + 1 <= Len(h) THEN h[b + 1] ELSE p[(b + 1) - Len(h)]
      BY <2>1, <2>3, <3>1 DEF r
    <3>4. QED BY <1>1, <1>2, <3>2, <3>3 DEF r
  <2>5. QED BY <2>1, <2>2, <2>3, <2>4 DEF p
<1>8. QED BY <1>4, <1>5, <1>6, <1>7 DEF h

\* After such a change of a thread's calls, with h of them.
Changes(t, b, h) ==
  /\ Threads' = Threads /\ stack' \in [Threads -> Seq(AFrame)]
  /\ \A u \in Threads \ {t} : stack'[u] = stack[u]
  /\ Len(stack'[t]) = h /\ \A k \in 1..(b - 1) : stack'[t][k] = stack[t][k]
  /\ stack'[t][b].node = stack[t][b].node

\* Calls stay nested when the end of one stack is replaced.
LEMMA StaysNested ==
  ASSUME Running, Steady, work' = work,
         NEW t \in Threads, NEW b \in 1..Len(stack[t]), NEW h \in {b, b + 1}, Changes(t, b, h),
         h = b => stack'[t][b].stage \notin Waiting,
         h = b + 1 => /\ stack'[t][b].stage \in Waiting /\ ~IsSource(stack'[t][b].node)
                      /\ stack'[t][b + 1].node = Callee(stack'[t][b])
                      /\ stack'[t][b + 1].stage \notin Waiting
  PROVE  Nested' /\ AtWork'
<1> DEFINE r == stack'[t]
           s == stack[t]
<1>1. /\ \A f : Callee(f)' = Callee(f)
      /\ \A n : IsSource(n)' = IsSource(n)
  BY PlanStays DEF Steady
<1>2. /\ Len(s) \in Nat /\ DOMAIN s = 1..Len(s) /\ b \in Nat /\ b \in 1..h /\ h \in Nat
      /\ b \in 1..Len(s) /\ h \in {b, b + 1}
      /\ \A k \in 1..Len(s) : s[k] \in AFrame /\ s[k].node \in Nodes
  BY Typed
<1>3. r \in Seq(AFrame) /\ Len(r) = h /\ DOMAIN r = 1..h
  BY <1>2 DEF Changes
<1>4. \A k \in 1..(b - 1) : r[k] = s[k]
  BY DEF Changes
<1>5. r[b].node = s[b].node
  BY DEF Changes
<1>6. Nested /\ AtWork
  BY DEF Running, Run
<1>7. /\ \A k \in 1..Len(s) : k < Len(s) =>
           s[k].stage \in Waiting /\ ~IsSource(s[k].node) /\ s[k + 1].node = Callee(s[k])
      /\ \A k, l \in 1..Len(s) : k < l => Inside(s[l].node, Callee(s[k]))
  BY <1>2, <1>6 DEF Nested
<1>8. h = b => r[b].stage \notin Waiting
  OBVIOUS
<1>9. h = b + 1 => /\ r[b].stage \in Waiting /\ ~IsSource(r[b].node)
                   /\ r[b + 1].node = Callee(r[b]) /\ r[b + 1].stage \notin Waiting
  OBVIOUS
<1>10. \A k \in 1..h : r[k] \in AFrame /\ r[k].node \in Nodes
  <2>1. \A k \in 1..h : r[k] \in AFrame
    BY <1>3
  <2>2. QED BY <2>1 DEF AFrame
<1> HIDE DEF r, s
<1>11. ASSUME NEW k \in 1..h
       PROVE  /\ k < h => r[k].stage \in Waiting /\ ~IsSource(r[k].node) /\ r[k + 1].node = Callee(r[k])
              /\ k = h => r[k].stage \notin Waiting
  <2>1. CASE k < b
    <3>1. k \in 1..(b - 1) /\ k \in 1..Len(s) /\ k < Len(s) /\ k # h
      BY <1>2, <2>1
    <3>2. r[k] = s[k] /\ s[k].stage \in Waiting /\ ~IsSource(s[k].node) /\ s[k + 1].node = Callee(s[k])
      BY <1>4, <1>7, <3>1
    <3>3. r[k + 1].node = s[k + 1].node
      <4>1. CASE k + 1 < b
        <5>1. k + 1 \in 1..(b - 1)
          BY <1>2, <4>1
        <5>2. QED BY <1>4, <5>1
      <4>2. CASE k + 1 = b
        BY <1>5, <4>2
      <4>3. QED BY <1>2, <2>1, <4>1, <4>2
    <3>4. QED BY <3>1, <3>2, <3>3
  <2>2. CASE k = b
    BY <1>8, <1>9, <2>2
  <2>3. CASE k = b + 1
    BY <1>8, <1>9, <1>2, <2>3
  <2>4. QED BY <1>2, <2>1, <2>2, <2>3
<1>12. ASSUME NEW k \in 1..h, NEW l \in 1..h, k < l PROVE Inside(r[l].node, Callee(r[k]))
  <2>1. \A n \in Nodes : n.i \in Nat /\ n.j \in Nat /\ Inside(n, n)
    BY Nodal
  <2>2. ASSUME NEW f, f.node \in Nodes, ~IsSource(f.node)
        PROVE  Callee(f) \in Nodes /\ Inside(Callee(f), f.node)
    BY <2>2, Nodal DEF Callee
  <2>3. CASE l < b
    <3>1. k \in 1..(b - 1) /\ l \in 1..(b - 1) /\ k \in 1..Len(s) /\ l \in 1..Len(s)
      BY <1>2, <1>12, <2>3
    <3>2. QED BY <1>4, <1>7, <1>12, <3>1
  <2>4. CASE l = b
    <3>1. k \in 1..(b - 1) /\ k \in 1..Len(s) /\ b \in 1..Len(s)
      BY <1>2, <1>12, <2>4
    <3>2. QED BY <1>4, <1>5, <1>7, <1>12, <2>4, <3>1
  <2>5. CASE l = b + 1 /\ k = b
    <3>1. r[l].node = Callee(r[k]) /\ r[l].node \in Nodes
      BY <1>9, <1>10, <1>12, <1>2, <2>5
    <3>2. QED BY <2>1, <3>1
  <2>6. CASE l = b + 1 /\ k < b
    <3>1. k \in 1..(b - 1) /\ k \in 1..Len(s) /\ b \in 1..Len(s) /\ h = b + 1 /\ k < Len(s)
      BY <1>2, <1>12, <2>6
    <3>2. Inside(r[b].node, Callee(r[k]))
      BY <1>4, <1>5, <1>7, <2>6, <3>1
    <3>3. r[l].node = Callee(r[b]) /\ ~IsSource(r[b].node) /\ r[b].node \in Nodes
      BY <1>2, <1>9, <1>10, <2>6, <3>1
    <3>4. Inside(r[l].node, r[b].node) /\ r[l].node \in Nodes
      BY <2>2, <3>3
    <3>5. Callee(r[k]) \in Nodes
      <4>1. r[k].node \in Nodes /\ ~IsSource(r[k].node)
        BY <1>4, <1>7, <1>10, <3>1
      <4>2. QED BY <2>2, <4>1
    <3>6. QED BY <2>1, <3>2, <3>3, <3>4, <3>5, Within2
  <2>7. QED BY <1>2, <1>12, <2>3, <2>4, <2>5, <2>6
<1>13. Nested'
  <2>1. SUFFICES ASSUME NEW u \in Threads, NEW k \in DOMAIN stack'[u]
        PROVE  /\ k < Len(stack'[u]) =>
                    /\ stack'[u][k].stage \in Waiting /\ ~IsSource(stack'[u][k].node)
                    /\ stack'[u][k + 1].node = Callee(stack'[u][k])
               /\ k = Len(stack'[u]) => stack'[u][k].stage \notin Waiting
               /\ \A l \in DOMAIN stack'[u] : k < l => Inside(stack'[u][l].node, Callee(stack'[u][k]))
    BY <1>1 DEF Nested, Changes, Inside
  <2>2. CASE u = t
    BY <1>3, <1>11, <1>12, <2>2 DEF r
  <2>3. CASE u # t
    <3>1. stack'[u] = stack[u]
      BY <2>3 DEF Changes
    <3>2. QED BY <1>6, <3>1 DEF Nested
  <2>4. QED BY <2>2, <2>3
<1>14. AtWork'
  <2>1. add' = add /\ bSize' = bSize
    BY DEF Steady, bSize
  <2>2. SUFFICES ASSUME NEW u \in Threads
        PROVE  /\ work[u].bit >= FirstBit(u) /\ work[u].place < Places(work[u].bit)
               /\ Busy(u) => work[u].place >= 0 /\ stack'[u] # <<>> /\ stack'[u][1].node = NodeAt(work[u])
               /\ ~Busy(u) => stack'[u] = <<>>
    BY <2>1, AdditionStays DEF AtWork, Busy, Changes
  <2>3. CASE u = t
    <3>1. stack'[t] = r
      BY DEF r
    <3>2. r # <<>> /\ s # <<>>
      <4>1. Len(r) # 0 /\ Len(s) # 0 /\ Len(<<>>) = 0
        BY <1>2, <1>3
      <4>2. QED BY <4>1
    <3>3. r[1].node = s[1].node
      <4>1. CASE b = 1
        BY <1>5, <4>1
      <4>2. CASE b # 1
        <5>1. 1 \in 1..(b - 1)
          BY <1>2, <4>2
        <5>2. QED BY <1>4, <5>1
      <4>3. QED BY <4>1, <4>2
    <3>4. QED BY <1>6, <2>3, <3>1, <3>2, <3>3 DEF AtWork, s
  <2>4. CASE u # t
    <3>1. stack'[u] = stack[u]
      BY <2>4 DEF Changes
    <3>2. QED BY <1>6, <3>1 DEF AtWork
  <2>5. QED BY <2>3, <2>4
<1>15. QED BY <1>13, <1>14

\* A call goes on to a stage in which it waits for no other call.
LEMMA Settled ==
  ASSUME Running, Steady, work' = work,
         NEW t \in Threads, NEW b \in 1..Len(stack[t]), NEW f \in AFrame,
         f.node = stack[t][b].node, f.stage \notin Waiting, Settles(t, b, f)
  PROVE  /\ Changes(t, b, b) /\ stack'[t][b] = f /\ stack'[t] # <<>> /\ Last(t)' = f
         /\ DOMAIN stack'[t] = 1..b /\ Nested' /\ AtWork'
<1>1. /\ Len(stack[t]) \in Nat /\ stack[t] \in Seq(AFrame) /\ b \in Nat
      /\ stack \in [Threads -> Seq(AFrame)]
  BY Typed DEF RunTypes
<1> DEFINE r == SubSeq(stack[t], 1, b - 1) \o <<f>>
<1>2. r \in Seq(AFrame) /\ Len(r) = b /\ r[b] = f /\ \A k \in 1..(b - 1) : r[k] = stack[t][k]
  BY <1>1, Replaced
<1>3. stack' = [stack EXCEPT ![t] = r]
  BY DEF Settles
<1> HIDE DEF r
<1>4. /\ Threads' = Threads /\ stack' \in [Threads -> Seq(AFrame)] /\ stack'[t] = r
      /\ \A u \in Threads \ {t} : stack'[u] = stack[u]
  BY <1>1, <1>2, <1>3 DEF Threads
<1>5. Changes(t, b, b)
  BY <1>2, <1>4 DEF Changes
<1>6. Nested' /\ AtWork'
  BY <1>2, <1>4, <1>5, StaysNested
<1>7. stack'[t] # <<>> /\ DOMAIN stack'[t] = 1..b
  BY <1>1, <1>2, <1>4
<1>8. Last(t)' = f
  BY <1>2, <1>4 DEF Last
<1>9. QED BY <1>2, <1>4, <1>5, <1>6, <1>7, <1>8

\* A call calls getCtxt for one of its parents.
LEMMA Descended ==
  ASSUME Running, Steady, work' = work,
         NEW t \in Threads, NEW b \in 1..Len(stack[t]), NEW f \in AFrame, NEW g \in AFrame,
         f.node = stack[t][b].node, f.stage \in Waiting, ~IsSource(f.node),
         g.node = Callee(f), g.stage \notin Waiting, Descends(t, b, f, g)
  PROVE  /\ Changes(t, b, b + 1) /\ stack'[t][b] = f /\ stack'[t][b + 1] = g /\ stack'[t] # <<>> /\ Last(t)' = g
         /\ DOMAIN stack'[t] = 1..(b + 1) /\ Nested' /\ AtWork'
<1>1. /\ Len(stack[t]) \in Nat /\ stack[t] \in Seq(AFrame) /\ b \in Nat
      /\ stack \in [Threads -> Seq(AFrame)]
  BY Typed DEF RunTypes
<1> DEFINE r == SubSeq(stack[t], 1, b - 1) \o <<f, g>>
<1>2. /\ r \in Seq(AFrame) /\ Len(r) = b + 1 /\ r[b] = f /\ r[b + 1] = g
      /\ \A k \in 1..(b - 1) : r[k] = stack[t][k]
  BY <1>1, Replaced
<1>3. stack' = [stack EXCEPT ![t] = r]
  BY DEF Descends
<1> HIDE DEF r
<1>4. /\ Threads' = Threads /\ stack' \in [Threads -> Seq(AFrame)] /\ stack'[t] = r
      /\ \A u \in Threads \ {t} : stack'[u] = stack[u]
  BY <1>1, <1>2, <1>3 DEF Threads
<1>5. Changes(t, b, b + 1)
  BY <1>2, <1>4 DEF Changes
<1>6. Nested' /\ AtWork'
  BY <1>1, <1>2, <1>4, <1>5, StaysNested
<1>7. stack'[t] # <<>> /\ DOMAIN stack'[t] = 1..(b + 1)
  BY <1>1, <1>2, <1>4
<1>8. Last(t)' = g
  BY <1>2, <1>4 DEF Last
<1>9. QED BY <1>2, <1>4, <1>5, <1>6, <1>7, <1>8

--------------------------------------------------------------------------------
(* What a node is called for is still to be counted down. *)

\* Of two threads one holds a node.
LEMMA Alone ==
  ASSUME Running, NEW t \in Threads, NEW u \in Threads, NEW n \in Nodes, Held(t, n)
  PROVE  owner[n] = t /\ (Held(u, n) => u = t)
BY DEF Running, Run, Locked

\* Finitely many are still to read a node.
LEMMA FinitelyPending ==
  ASSUME Running, NEW n
  PROVE  IsFiniteSet(Pending(n)) /\ Cardinality(Pending(n)) \in Nat
<1>1. Pending(n) \in SUBSET AllNodes
  BY Typed DEF Pending
<1>2. IsFiniteSet(AllNodes)
  BY FinitelyMany DEF Running
<1>3. QED BY <1>1, <1>2, FS_Subset, FS_CardinalityType

\* A node that somebody is to read has children left.
LEMMA Reader ==
  ASSUME Running, NEW n \in Nodes, NEW c \in Pending(n)
  PROVE  left[n] > 0
<1>1. {c} \in SUBSET Pending(n)
  OBVIOUS
<1>2. Cardinality({c}) = 1
  BY FS_Singleton
<1>3. Cardinality({c}) <= Cardinality(Pending(n)) /\ Cardinality(Pending(n)) \in Nat
  BY <1>1, FinitelyPending, Within
<1>4. Cardinality(Pending(n)) <= left[n] /\ left[n] \in Int
  BY DEF Running, Run, Counted, Planned
<1>5. QED BY <1>2, <1>3, <1>4

\* The node that a thread adds next is counted for the addition.
LEMMA AddedNext ==
  ASSUME Running, NEW t \in Threads, stack[t] # <<>>
  PROVE  /\ work[t].bit \in BitsOf(t) /\ work[t].bit <= bSize /\ work[t].bit \in Nat
         /\ work[t].place \in 0..(Places(work[t].bit) - 1)
         /\ work[t] = [bit |-> work[t].bit, place |-> work[t].place]
         /\ stack[t][1].node = NodeAt(work[t]) /\ stack[t][1].node \in Nodes
         /\ stack[t][1].node \in Pending(stack[t][1].node)
<1> DEFINE n == stack[t][1].node
           i == work[t].bit
           k == work[t].place
<1>1. work[t] \in [bit : Nat, place : Int]
  BY Typed DEF RunTypes
<1>2. i \in Nat /\ k \in Int /\ work[t] = [bit |-> i, place |-> k]
  BY <1>1
<1>3. i \in BitsOf(t) /\ i <= bSize /\ k >= 0 /\ k < Places(i) /\ n = NodeAt(work[t])
  BY DEF Running, Run, AtWork, Busy
<1>4. Places(i) \in Nat
  BY <1>2, PlacesOfBits DEF Running
<1>5. k \in 0..(Places(i) - 1)
  BY <1>2, <1>3, <1>4
<1>6. n \in Nodes
  <2>1. stack[t] \in Seq(AFrame) /\ 1 \in 1..Len(stack[t])
    BY Typed
  <2>2. QED BY <2>1, Typed
<1>7. Ahead(t, i, k)
  BY <1>2 DEF Ahead
<1>8. n = NodeAt([bit |-> i, place |-> k])
  BY <1>2, <1>3
<1> HIDE DEF n, i, k
<1>9. InWork(n)
  BY <1>3, <1>5, <1>7, <1>8 DEF InWork
<1>10. n \in Pending(n)
  BY <1>6, <1>9 DEF Pending
<1>11. QED BY <1>2, <1>3, <1>5, <1>6, <1>10 DEF n, i, k

\* The parent that a thread computes is counted for the child it computes it for.
LEMMA WaitedFor ==
  ASSUME Running, NEW t \in Threads, NEW k \in 1..Len(stack[t]), k + 1 \in 1..Len(stack[t]),
         left[stack[t][k].node] > 0
  PROVE  /\ stack[t][k].node \in Pending(stack[t][k + 1].node)
         /\ stack[t][k + 1].node \in Parents(stack[t][k].node)
         /\ stack[t][k + 1].node = Callee(stack[t][k])
         /\ stack[t][k].stage \in Waiting /\ ~IsSource(stack[t][k].node)
         /\ ct[stack[t][k].node] = 0
<1> DEFINE f == stack[t][k]
           c == f.node
           n == stack[t][k + 1].node
<1>1. /\ DOMAIN stack[t] = 1..Len(stack[t]) /\ Len(stack[t]) \in Nat /\ c \in Nodes /\ n \in Nodes
      /\ k \in Nat /\ k < Len(stack[t]) /\ k < k + 1
  BY Typed
<1>2. f.stage \in Waiting /\ ~IsSource(c) /\ n = Callee(f)
  BY <1>1 DEF Running, Run, Nested
<1>3. n \in Parents(c)
  BY <1>2 DEF Parents, Callee
<1>4. /\ Parent1(c) # Parent2(c) /\ c # Parent1(c) /\ c # Parent2(c)
  BY <1>1, <1>2, Nodal
<1>5. ct[c] = 0
  <2>1. Ready(f)
    BY <1>1 DEF Running, Run, Staged
  <2>2. QED BY <1>2, <2>1 DEF Ready, Waiting, Computing
<1>6. ~Holds(f, n)
  BY <1>2, <1>4 DEF Holds, Callee, Waiting, Computing
<1>7. Holds(f, c)
  BY <1>2 DEF Holds, Waiting
<1>8. ASSUME Past(c, n) PROVE FALSE
  <2>1. PICK u \in Threads : \E l \in DOMAIN stack[u] : stack[u][l].node = c /\ Holds(stack[u][l], n)
    BY <1>8 DEF Past
  <2>2. PICK l \in DOMAIN stack[u] : stack[u][l].node = c /\ Holds(stack[u][l], n)
    BY <2>1
  <2>3. Holds(stack[u][l], c)
    BY <1>2, <1>4, <2>2 DEF Holds, Callee, Waiting, Computing
  <2>4. Held(u, c) /\ Held(t, c)
    BY <1>1, <1>7, <2>3 DEF Held
  <2>5. u = t
    BY <1>1, <2>4, Alone
  <2>6. l \in 1..Len(stack[t]) /\ l \in Nat
    BY <1>1, <2>5
  <2>7. Inside(c, c)
    BY <1>1, Nodal
  <2>8. ~(l < k)
    BY <1>1, <2>2, <2>5, <2>6, <2>7, OuterApart
  <2>9. ~(k < l)
    BY <1>1, <2>2, <2>5, <2>6, <2>7, OuterApart
  <2>10. l = k
    BY <1>1, <2>6, <2>8, <2>9
  <2>11. QED BY <1>6, <2>2, <2>5, <2>10
<1>9. c \in Pending(n)
  BY <1>1, <1>3, <1>5, <1>8 DEF Pending
<1>10. QED BY <1>2, <1>3, <1>5, <1>9

\* So every node that getCtxt was called for has children left: it is not given away.
LEMMA Wanted ==
  ASSUME Running, NEW t \in Threads, NEW k \in 1..Len(stack[t])
  PROVE  left[stack[t][k].node] > 0
<1> DEFINE T == {d \in Nat : d + 1 \in 1..Len(stack[t]) => left[stack[t][d + 1].node] > 0}
<1>1. Len(stack[t]) \in Nat /\ DOMAIN stack[t] = 1..Len(stack[t])
  BY Typed
<1>2. 0 \in T
  <2>1. SUFFICES ASSUME 1 \in 1..Len(stack[t]) PROVE left[stack[t][1].node] > 0
    OBVIOUS
  <2>2. stack[t] # <<>>
    BY <1>1, <2>1
  <2>3. QED BY <2>2, AddedNext, Reader
<1>3. ASSUME NEW d \in T PROVE d + 1 \in T
  <2>1. SUFFICES ASSUME (d + 1) + 1 \in 1..Len(stack[t]) PROVE left[stack[t][(d + 1) + 1].node] > 0
    OBVIOUS
  <2>2. d + 1 \in 1..Len(stack[t])
    BY <1>1, <2>1
  <2>3. left[stack[t][d + 1].node] > 0
    BY <2>2
  <2>4. stack[t][d + 1].node \in Pending(stack[t][(d + 1) + 1].node)
    BY <2>1, <2>2, <2>3, WaitedFor
  <2>5. stack[t][(d + 1) + 1].node \in Nodes
    BY <2>1, Typed
  <2>6. QED BY <2>4, <2>5, Reader
<1> HIDE DEF T
<1>4. T \in SUBSET Nat
  BY DEF T
<1>5. T = Nat
  BY <1>2, <1>3, <1>4, StepByStep
<1>6. k - 1 \in T /\ (k - 1) + 1 = k
  BY <1>1, <1>5
<1>7. QED BY <1>6 DEF T

--------------------------------------------------------------------------------
(* What a step of a thread leaves as it is. *)

Below(t, b, x) == \E k \in 1..(b - 1) : Holds(stack[t][k], x)

\* The calls outside hold none of the nodes that the inner ones work on.
LEMMA BelowApart ==
  ASSUME Running, NEW t \in Threads, NEW b \in 1..Len(stack[t]),
         NEW x \in Nodes, Inside(x, stack[t][b].node)
  PROVE  ~Below(t, b, x)
<1>1. SUFFICES ASSUME NEW k \in 1..(b - 1) PROVE ~Holds(stack[t][k], x)
  BY DEF Below
<1>2. Len(stack[t]) \in Nat /\ k \in 1..Len(stack[t]) /\ k < b
  BY Typed
<1>3. QED BY <1>2, OuterApart

\* The nodes a thread holds, by the calls from number b on.
LEMMA HeldNow ==
  ASSUME Running, NEW t \in Threads, NEW b \in 1..Len(stack[t]), NEW x
  PROVE  Held(t, x) <=> Below(t, b, x) \/ \E k \in b..Len(stack[t]) : Holds(stack[t][k], x)
<1>1. DOMAIN stack[t] = 1..Len(stack[t]) /\ Len(stack[t]) \in Nat /\ b \in Nat
  BY Typed
<1> DEFINE L == Len(stack[t])
<1>2. 1..L = (1..(b - 1)) \union (b..L)
  BY <1>1
<1> HIDE DEF L
<1>3. QED BY <1>1, <1>2 DEF Held, Below, L

\* The same after a step that replaces these calls.
LEMMA HeldAfter ==
  ASSUME Running, Steady, NEW t \in Threads, NEW b \in 1..Len(stack[t]), NEW h \in {b, b + 1},
         Changes(t, b, h), NEW x
  PROVE  /\ Held(t, x)' <=> Below(t, b, x) \/ \E k \in b..h : Holds(stack'[t][k], x)
         /\ \A u \in Threads \ {t} : Held(u, x)' <=> Held(u, x)
<1>1. Len(stack[t]) \in Nat /\ b \in Nat /\ h \in Nat /\ b <= h /\ b >= 1
  BY Typed
<1>2. \A f : Holds(f, x)' <=> Holds(f, x)
  BY PlanStays DEF Steady
<1>3. DOMAIN stack'[t] = 1..h
  BY <1>1 DEF Changes
<1>4. 1..h = (1..(b - 1)) \union (b..h)
  BY <1>1
<1>5. \A k \in 1..(b - 1) : stack'[t][k] = stack[t][k]
  BY DEF Changes
<1>6. \A u \in Threads \ {t} : stack'[u] = stack[u]
  BY DEF Changes
<1>7. Held(t, x)' <=> \E k \in 1..h : Holds(stack'[t][k], x)
  BY <1>2, <1>3 DEF Held
<1>8. (\E k \in 1..h : Holds(stack'[t][k], x))
        <=> (\E k \in 1..(b - 1) : Holds(stack'[t][k], x)) \/ \E k \in b..h : Holds(stack'[t][k], x)
  BY <1>4
<1>9. (\E k \in 1..(b - 1) : Holds(stack'[t][k], x)) <=> Below(t, b, x)
  BY <1>5 DEF Below
<1>10. \A u \in Threads \ {t} : Held(u, x)' <=> Held(u, x)
  BY <1>2, <1>6 DEF Held
<1>11. QED BY <1>7, <1>8, <1>9, <1>10

\* A thread owns what its calls hold, and the others what they owned.
OwnsHeld(t, b, h) ==
  \A x \in Nodes : owner'[x] = t <=> Below(t, b, x) \/ \E k \in b..h : Holds(stack'[t][k], x)
OthersOwn(t) == \A x \in Nodes, u \in Threads \ {t} : owner'[x] = u <=> owner[x] = u

\* Locked is kept when the owners change with the calls of one thread.
LEMMA LockedStays ==
  ASSUME Running, Steady, NEW t \in Threads, NEW b \in 1..Len(stack[t]), NEW h \in {b, b + 1},
         Changes(t, b, h), OwnsHeld(t, b, h), OthersOwn(t)
  PROVE  Locked'
<1>1. SUFFICES ASSUME NEW u \in Threads, NEW x \in Nodes PROVE owner'[x] = u <=> Held(u, x)'
  BY DEF Locked, Steady, Changes
<1>2. CASE u = t
  BY <1>2, HeldAfter DEF OwnsHeld
<1>3. CASE u # t
  <2>1. owner[x] = u <=> Held(u, x)
    BY DEF Running, Run, Locked
  <2>2. Held(u, x)' <=> Held(u, x)
    BY <1>3, HeldAfter
  <2>3. owner'[x] = u <=> owner[x] = u
    BY <1>3 DEF OthersOwn
  <2>4. QED BY <2>1, <2>2, <2>3
<1>4. QED BY <1>2, <1>3

ReadyNext(f) ==
  /\ f.stage \in Computing => ct'[f.node] = 0
  /\ f.stage = "done" => ct'[f.node] # 0
  /\ f.stage = "multiply" => ~IsSource(f.node)
  /\ \A n \in Parents(f.node) : Holds(f, n) => ct'[n] # 0

\* A call stays ready when no node it relies on changes.
LEMMA ReadyStays ==
  ASSUME Running, NEW f, Ready(f), f.node \in Nodes, NEW T \in SUBSET Nodes,
         \A x \in Nodes \ T : ct'[x] = ct[x], \A x \in T : ~Holds(f, x)
  PROVE  ReadyNext(f)
<1>1. ASSUME f.stage # "lock" PROVE ct'[f.node] = ct[f.node]
  <2>1. Holds(f, f.node)
    BY <1>1 DEF Holds
  <2>2. f.node \notin T
    BY <2>1
  <2>3. QED BY <2>2
<1>2. ASSUME NEW n \in Parents(f.node), Holds(f, n) PROVE ct'[n] = ct[n]
  <2>1. n \in Nodes
    BY <1>2, Nodal DEF Parents
  <2>2. QED BY <1>2, <2>1
<1>3. QED BY <1>1, <1>2 DEF Ready, ReadyNext, Computing

\* Other threads' calls stay ready, since the nodes that change are locked.
LEMMA StagedStays ==
  ASSUME Running, Steady, NEW t \in Threads, NEW b \in 1..Len(stack[t]), NEW h \in {b, b + 1},
         Changes(t, b, h), NEW T \in SUBSET Nodes,
         \A x \in Nodes \ T : ct'[x] = ct[x],
         \A x \in T : owner[x] = t /\ Inside(x, stack[t][b].node),
         \A k \in b..h : ReadyNext(stack'[t][k])
  PROVE  Staged'
<1>1. Len(stack[t]) \in Nat /\ b \in Nat /\ h \in Nat /\ b <= h /\ b >= 1
  BY Typed
<1>2. /\ \A f, n : Holds(f, n)' <=> Holds(f, n)
      /\ \A n : IsSource(n)' = IsSource(n) /\ Parents(n)' = Parents(n)
  BY PlanStays DEF Steady
<1>3. DOMAIN stack'[t] = 1..h
  BY <1>1 DEF Changes
<1>4. ASSUME NEW f, Ready(f), f.node \in Nodes, \A x \in T : ~Holds(f, x) PROVE ReadyNext(f)
  BY <1>4, ReadyStays
<1>5. SUFFICES ASSUME NEW u \in Threads, NEW k \in DOMAIN stack'[u] PROVE ReadyNext(stack'[u][k])
  <2>1. \A f : ReadyNext(f) => Ready(f)'
    BY <1>2 DEF Ready, ReadyNext
  <2>2. \A u \in Threads : \A k \in DOMAIN stack'[u] : ReadyNext(stack'[u][k])
    BY <1>5
  <2>3. \A u \in Threads : \A k \in DOMAIN stack'[u] : Ready(stack[u][k])'
    BY <1>2, <2>2 DEF Ready, ReadyNext
  <2>4. QED BY <2>3 DEF Staged, Changes
<1>6. CASE u = t /\ k \in b..h
  BY <1>6
<1>7. CASE u = t /\ k \notin b..h
  <2>1. k \in 1..(b - 1) /\ k \in 1..Len(stack[t]) /\ k \in DOMAIN stack[t] /\ k < b
    BY <1>1, <1>3, <1>7, Typed
  <2>2. stack'[t][k] = stack[t][k]
    BY <2>1 DEF Changes
  <2>3. \A x \in T : ~Holds(stack[t][k], x)
    BY <2>1, OuterApart
  <2>4. Ready(stack[t][k])
    BY <2>1 DEF Running, Run, Staged
  <2>5. stack[t][k].node \in Nodes /\ stack[t][k].stage \in Stages
    BY <2>1, Typed
  <2>6. QED BY <1>4, <1>7, <2>2, <2>3, <2>4, <2>5
<1>8. CASE u # t
  <2>1. stack'[u] = stack[u]
    BY <1>8 DEF Changes
  <2>2. k \in 1..Len(stack[u]) /\ k \in DOMAIN stack[u]
    BY <2>1, Typed
  <2>3. \A x \in T : ~Holds(stack[u][k], x)
    <3>1. SUFFICES ASSUME NEW x \in T, Holds(stack[u][k], x) PROVE FALSE
      OBVIOUS
    <3>2. Held(u, x)
      BY <2>2, <3>1 DEF Held
    <3>3. owner[x] = u
      BY <3>2, Alone
    <3>4. QED BY <1>8, <3>3
  <2>4. Ready(stack[u][k])
    BY <2>2 DEF Running, Run, Staged
  <2>5. stack[u][k].node \in Nodes /\ stack[u][k].stage \in Stages
    BY <2>2, Typed
  <2>6. QED BY <1>4, <2>1, <2>3, <2>4, <2>5
<1>9. QED BY <1>6, <1>7, <1>8

\* A node is still to be computed for somebody, and its calls hold on to the parents they held.
Needed(c) == ct[c] = 0 /\ left[c] > 0
StillNeeded(c) == ct'[c] = 0 /\ left'[c] > 0
KeepHold(t, b, h) ==
  \A k \in b..Len(stack[t]) : \A m \in Parents(stack[t][k].node) :
    Holds(stack[t][k], m) /\ StillNeeded(stack[t][k].node) =>
      \E l \in b..h : stack'[t][l].node = stack[t][k].node /\ Holds(stack'[t][l], m)

\* No reader is added unless a ciphertext is given away that is needed.
LEMMA PendingStays ==
  ASSUME Running, Steady, work' = work,
         NEW t \in Threads, NEW b \in 1..Len(stack[t]), NEW h \in {b, b + 1},
         Changes(t, b, h), KeepHold(t, b, h),
         \A c \in Nodes : StillNeeded(c) => Needed(c),
         NEW m \in Nodes
  PROVE  Pending(m)' \subseteq Pending(m)
<1>1. Len(stack[t]) \in Nat /\ b \in Nat /\ h \in Nat /\ b <= h /\ b >= 1
  BY Typed
<1>2. /\ \A f, n : Holds(f, n)' <=> Holds(f, n)
      /\ \A n : Parents(n)' = Parents(n)
  BY PlanStays DEF Steady
<1>3. DOMAIN stack'[t] = 1..h
  BY <1>1 DEF Changes
<1>4. InWork(m)' <=> InWork(m)
  <2>1. /\ \A u : BitsOf(u)' = BitsOf(u)
        /\ \A i : Places(i)' = Places(i)
        /\ \A w : NodeAt(w)' = NodeAt(w)
    BY AdditionStays DEF Steady
  <2>2. \A u, i, k : Ahead(u, i, k)' <=> Ahead(u, i, k)
    BY DEF Ahead
  <2>3. Threads' = Threads
    BY DEF Changes
  <2>4. QED BY <2>1, <2>2, <2>3 DEF InWork
<1>5. ASSUME NEW c \in Nodes, m \in Parents(c), StillNeeded(c), Past(c, m) PROVE Past(c, m)'
  <2>1. PICK u \in Threads : \E k \in DOMAIN stack[u] : stack[u][k].node = c /\ Holds(stack[u][k], m)
    BY <1>5 DEF Past
  <2>2. PICK k \in DOMAIN stack[u] : stack[u][k].node = c /\ Holds(stack[u][k], m)
    BY <2>1
  <2>3. ASSUME NEW l \in DOMAIN stack'[u], stack'[u][l].node = c, Holds(stack'[u][l], m) PROVE Past(c, m)'
    BY <1>2, <2>3 DEF Past, Changes
  <2>4. CASE u # t
    <3>1. stack'[u] = stack[u]
      BY <2>4 DEF Changes
    <3>2. QED BY <2>2, <2>3, <3>1
  <2>5. CASE u = t /\ k < b
    <3>1. k \in 1..(b - 1) /\ k \in DOMAIN stack'[t]
      BY <1>1, <1>3, <2>5, Typed
    <3>2. stack'[t][k] = stack[t][k]
      BY <3>1 DEF Changes
    <3>3. QED BY <2>2, <2>3, <2>5, <3>1, <3>2
  <2>6. CASE u = t /\ ~(k < b)
    <3>1. k \in b..Len(stack[t])
      BY <1>1, <2>6, Typed
    <3>2. PICK l \in b..h : stack'[t][l].node = c /\ Holds(stack'[t][l], m)
      BY <1>5, <2>2, <2>6, <3>1 DEF KeepHold
    <3>3. l \in DOMAIN stack'[t]
      BY <1>1, <1>3
    <3>4. QED BY <2>3, <2>6, <3>2, <3>3
  <2>7. QED BY <2>4, <2>5, <2>6
<1>6. QED BY <1>2, <1>4, <1>5 DEF Pending, Steady, Needed, StillNeeded

\* Readers stay counted when none is added.
LEMMA CountedStays ==
  ASSUME Running, Steady, left' = left, \A m \in Nodes : Pending(m)' \subseteq Pending(m)
  PROVE  Counted'
<1>1. SUFFICES ASSUME NEW m \in Nodes PROVE Cardinality(Pending(m)') <= left[m]
  BY DEF Counted, Steady
<1>2. /\ Cardinality(Pending(m)') <= Cardinality(Pending(m))
      /\ Cardinality(Pending(m)') \in Nat /\ Cardinality(Pending(m)) \in Nat
  BY FinitelyPending, Within
<1>3. Cardinality(Pending(m)) <= left[m] /\ left[m] \in Int
  BY DEF Running, Run, Counted, Planned
<1>4. QED BY <1>2, <1>3

\* A reader is counted down and is no longer to be counted.
LEMMA CountedDown ==
  ASSUME Running, Steady, NEW n \in Nodes, left' = [left EXCEPT ![n] = @ - 1],
         \A m \in Nodes : Pending(m)' \subseteq Pending(m),
         NEW c \in Pending(n), c \notin Pending(n)'
  PROVE  Counted'
<1>1. SUFFICES ASSUME NEW m \in Nodes PROVE Cardinality(Pending(m)') <= left'[m]
  BY DEF Counted, Steady
<1>2. /\ Cardinality(Pending(m)') <= Cardinality(Pending(m))
      /\ Cardinality(Pending(m)') \in Nat /\ Cardinality(Pending(m)) \in Nat
  BY FinitelyPending, Within
<1>3. Cardinality(Pending(m)) <= left[m] /\ left[m] \in Int
  BY DEF Running, Run, Counted, Planned
<1>4. left \in [Nodes -> Int]
  BY DEF Running, Planned
<1>5. CASE m = n
  <2>1. Cardinality(Pending(n)') <= Cardinality(Pending(n)) - 1
    BY <1>5, FinitelyPending, Within
  <2>2. left'[n] = left[n] - 1
    BY <1>4
  <2>3. QED BY <1>2, <1>3, <1>5, <2>1, <2>2
<1>6. CASE m # n
  <2>1. left'[m] = left[m]
    BY <1>4, <1>6
  <2>2. QED BY <1>2, <1>3, <2>1
<1>7. QED BY <1>5, <1>6

\* The bits of the sum stay right when no node is added.
LEMMA SummedStays ==
  ASSUME Running, Steady, work' = work, sum' = sum, Threads' = Threads
  PROVE  Summed'
<1>1. add' = add /\ bSize' = bSize
  BY DEF Steady, bSize
<1>2. Summed
  BY DEF Running, Run
<1>3. /\ \A i : SumBit(i)' = SumBit(i) /\ CarriesBelow(i)' = CarriesBelow(i) /\ Carries(i)' = Carries(i)
      /\ \A t : BitsOf(t)' = BitsOf(t)
  BY <1>1, SumsStay, AdditionStays
<1>4. QED BY <1>1, <1>2, <1>3 DEF Summed

\* The parts of the invariant make the whole.
LEMMA RunningStays ==
  ASSUME Running, Steady, ~raced', left' \in [Nodes -> Int],
         Threads' = Threads, stack' \in [Threads -> Seq(AFrame)],
         ct' \in [Nodes -> Nat], owner' \in [Nodes -> 0..NrThreads],
         cells' \in Seq(Cell), growing' \in 0..NrThreads,
         sum' \in [0..(add.sizeLimit - 1) -> Ciphertexts],
         work' \in [Threads -> [bit : Nat, place : Int]],
         AtWork', Nested', Locked', Growing', Staged', CellsApart', Contents', Filling', Counted', Summed'
  PROVE  Running'
<1>1. Operands' /\ Planned' /\ AFrame' = AFrame
  BY PlanStays DEF Steady, Running
<1>2. next' = next /\ add' = add /\ Nodes' = Nodes
  BY DEF Steady, plan
<1>3. NrThreads' = NrThreads
  BY <1>2, AdditionStays
<1>4. RunTypes'
  BY <1>1, <1>2, <1>3, Typed DEF RunTypes, Cell
<1>5. QED BY <1>1, <1>2, <1>4 DEF Running, Run

\* The call that a thread is in.
LEMMA TopCall ==
  ASSUME Running, NEW t \in Threads, stack[t] # <<>>
  PROVE  /\ Len(stack[t]) \in Nat \ {0} /\ Len(stack[t]) \in 1..Len(stack[t])
         /\ Last(t) = stack[t][Len(stack[t])] /\ Last(t) \in AFrame
         /\ Last(t).node \in Nodes /\ Last(t).stage \in Stages \ Waiting /\ Last(t).cell \in Nat \ {0}
         /\ Ready(Last(t))
<1>1. stack[t] \in Seq(AFrame)
  BY Typed
<1>2. Len(stack[t]) \in Nat \ {0} /\ Len(stack[t]) \in 1..Len(stack[t]) /\ Len(stack[t]) \in DOMAIN stack[t]
  BY <1>1
<1>3. Last(t) = stack[t][Len(stack[t])]
  BY DEF Last
<1>4. Last(t) \in AFrame
  BY <1>2, <1>3, Typed
<1>5. Last(t).node \in Nodes /\ Last(t).stage \in Stages /\ Last(t).cell \in Nat \ {0}
  BY <1>4 DEF AFrame
<1>6. Last(t).stage \notin Waiting
  BY <1>2, <1>3 DEF Running, Run, Nested
<1>7. Ready(Last(t))
  BY <1>2, <1>3 DEF Running, Run, Staged
<1>8. QED BY <1>2, <1>3, <1>4, <1>5, <1>6, <1>7

\* The lock of the scratch space stays with the thread that moves the cells.
LEMMA GrowingStays ==
  ASSUME Running, growing' = growing, NEW t \in Threads, stack[t] # <<>>, Last(t).stage # "move",
         NEW b, NEW h, Changes(t, b, h), Last(t)'.stage # "move"
  PROVE  Growing'
<1>1. SUFFICES ASSUME NEW u \in Threads PROVE growing = u <=> InStage(u, "move")'
  BY DEF Growing, Changes
<1>2. growing = u <=> InStage(u, "move")
  BY DEF Running, Run, Growing
<1>3. CASE u = t
  BY <1>2, <1>3 DEF InStage
<1>4. CASE u # t
  <2>1. stack'[u] = stack[u]
    BY <1>4 DEF Changes
  <2>2. InStage(u, "move")' <=> InStage(u, "move")
    BY <2>1 DEF InStage, Last
  <2>3. QED BY <1>2, <2>2
<1>5. QED BY <1>3, <1>4

\* Cells that do not change keep their nodes apart.
LEMMA CellsStay ==
  ASSUME Running, Steady, ct' = ct, cells' = cells
  PROVE  CellsApart' /\ Contents'
<1>1. CellsApart /\ Contents
  BY DEF Running, Run
<1>2. \A n : Meaning(n)' = Meaning(n)
  BY MeaningStays DEF Steady
<1>3. CellsApart'
  BY <1>1 DEF CellsApart, Steady
<1>4. \A n : Content(n)' = Content(n)
  BY DEF Content
<1>5. Contents'
  BY <1>1, <1>2, <1>4 DEF Contents, Steady, Number
<1>6. QED BY <1>3, <1>5

\* Cells that were taken stay so when no cell changes.
LEMMA FillingStays ==
  ASSUME Running, Steady, ct' = ct, cells' = cells, NEW t \in Threads,
         NEW b, NEW h, Changes(t, b, h), Last(t)'.stage # "fill"
  PROVE  Filling'
<1>1. \A u \in Threads \ {t} : stack'[u] = stack[u]
  BY DEF Changes
<1>2. \A u \in Threads \ {t} : (InStage(u, "fill")' <=> InStage(u, "fill")) /\ Last(u)' = Last(u)
  BY <1>1 DEF InStage, Last
<1>3. ~InStage(t, "fill")'
  BY DEF InStage
<1>4. Filling
  BY DEF Running, Run
<1>5. QED BY <1>2, <1>3, <1>4 DEF Filling, Changes, Steady

\* Frame makes a frame.
LEMMA Frames ==
  ASSUME NEW n \in Nodes, NEW stage \in Stages
  PROVE  /\ Frame(n, stage) \in AFrame
         /\ Frame(n, stage).node = n /\ Frame(n, stage).stage = stage /\ Frame(n, stage).cell = 1
BY DEF Frame, AFrame

\* Lock keeps the invariant (binaryArith.cpp:360-369).
LEMMA LockRuns ==
  ASSUME Running, NEW t \in Threads, stack[t] # <<>>, NEW n, n = Last(t).node, Lock(t, n)
  PROVE  Running'
<1>0. PICK b : b = Len(stack[t])
  OBVIOUS
<1>1. /\ Last(t).stage = "lock" /\ owner[n] = 0 /\ owner' = [owner EXCEPT ![n] = t]
      /\ UNCHANGED <<add, plan, left, ct, cells, growing, raced, sum, work>>
  BY DEF Lock, At
<1>2. /\ b \in Nat \ {0} /\ b \in 1..Len(stack[t]) /\ Last(t) = stack[t][b] /\ n \in Nodes
      /\ stack[t][b].node = n /\ b = Len(stack[t])
  BY <1>0, TopCall
<1>3. Steady
  BY <1>1 DEF Steady, Nodes
<1>4. /\ RunTypes /\ Threads = 1..NrThreads /\ NrThreads \in Nat \ {0}
  BY Typed
<1>5. owner' \in [Nodes -> 0..NrThreads] /\ t # 0
  BY <1>1, <1>2, <1>4 DEF RunTypes
<1>6. ASSUME NEW h \in {b, b + 1}, Changes(t, b, h), Nested', AtWork',
             \A x \in Nodes : (\E k \in b..h : Holds(stack'[t][k], x)) <=> x = n,
             \A k \in b..h : ReadyNext(stack'[t][k]),
             Last(t)'.stage \notin {"move", "fill"}
      PROVE  Running'
  <2>1. Locked'
    <3>1. ASSUME NEW x \in Nodes
          PROVE  owner'[x] = t <=> Below(t, b, x) \/ \E k \in b..h : Holds(stack'[t][k], x)
      <4>1. owner[x] = t <=> Held(t, x)
        BY DEF Running, Run, Locked
      <4>2. Held(t, x) <=> Below(t, b, x) \/ \E k \in b..b : Holds(stack[t][k], x)
        BY <1>2, HeldNow
      <4>3. ~Holds(stack[t][b], x)
        BY <1>1, <1>2 DEF Holds, Computing
      <4>4. owner[x] = t <=> Below(t, b, x)
        BY <1>2, <4>1, <4>2, <4>3
      <4>5. owner'[x] = t <=> owner[x] = t \/ x = n
        BY <1>1, <1>2, <1>4 DEF RunTypes
      <4>6. QED BY <1>6, <4>4, <4>5
    <3>2. ASSUME NEW x \in Nodes, NEW u \in Threads \ {t} PROVE owner'[x] = u <=> owner[x] = u
      <4>1. u # 0
        BY <1>4
      <4>2. QED BY <1>1, <1>2, <1>4, <4>1 DEF RunTypes
    <3>3. OwnsHeld(t, b, h) /\ OthersOwn(t)
      BY <3>1, <3>2 DEF OwnsHeld, OthersOwn
    <3>4. QED BY <1>2, <1>3, <1>6, <3>3, LockedStays
  <2>2. Growing'
    BY <1>1, <1>6, GrowingStays
  <2>3. Staged'
    <3>1. \A x \in Nodes \ {} : ct'[x] = ct[x]
      BY <1>1
    <3>2. {} \in SUBSET Nodes
      OBVIOUS
    <3>3. \A x \in {} : owner[x] = t /\ Inside(x, stack[t][b].node)
      OBVIOUS
    <3>4. \A k \in b..h : ReadyNext(stack'[t][k])
      BY <1>6
    <3>5. b \in 1..Len(stack[t]) /\ Changes(t, b, h)
      BY <1>2, <1>6
    <3>6. QED BY <1>3, <1>6, <3>1, <3>2, <3>3, <3>4, <3>5, StagedStays
  <2>4. CellsApart' /\ Contents' /\ Filling'
    BY <1>1, <1>3, <1>6, CellsStay, FillingStays
  <2>5. Counted'
    <3>1. ASSUME NEW m \in Nodes PROVE Pending(m)' \subseteq Pending(m)
      <4>1. \A x : ~Holds(stack[t][b], x)
        BY <1>1, <1>2 DEF Holds, Computing
      <4>2. \A k \in b..Len(stack[t]) : k = b
        BY <1>2
      <4>3. \A k \in b..Len(stack[t]) : \A x \in Parents(stack[t][k].node) : ~Holds(stack[t][k], x)
        BY <4>1, <4>2
      <4>4. KeepHold(t, b, h)
        BY <4>3 DEF KeepHold
      <4>5. \A c \in Nodes : StillNeeded(c) => Needed(c)
        BY <1>1 DEF StillNeeded, Needed
      <4>6. QED BY <1>1, <1>2, <1>3, <1>6, <4>4, <4>5, PendingStays
    <3>2. QED BY <1>1, <1>3, <3>1, CountedStays
  <2>6. Summed'
    BY <1>1, <1>3, <1>6, SummedStays DEF Changes
  <2>7. QED
    BY <1>1, <1>3, <1>4, <1>5, <1>6, <2>1, <2>2, <2>3, <2>4, <2>5, <2>6, RunningStays
    DEF RunTypes, Changes, Running, Planned
<1>8. n \notin Parents(n)
  BY <1>2, Nodal
<1>9. CASE ct[n] # 0 /\ Becomes(t, 1, <<Frame(n, "done")>>)
  <2> DEFINE f == Frame(n, "done")
  <2>1. f \in AFrame /\ f.node = n /\ f.stage = "done"
    BY <1>2, Frames DEF Stages
  <2>2. Settles(t, b, f)
    BY <1>2, <1>9 DEF Becomes, Settles
  <2> HIDE DEF f
  <2>3. /\ Changes(t, b, b) /\ stack'[t][b] = f /\ Last(t)' = f /\ Nested' /\ AtWork'
    BY <1>1, <1>2, <1>3, <2>1, <2>2, Settled DEF Waiting
  <2>4. \A x \in Nodes : Holds(f, x) <=> x = n
    BY <2>1 DEF Holds, Computing
  <2>5. ReadyNext(f)
    <3>1. ct'[n] # 0
      BY <1>1, <1>9
    <3>2. \A x \in Parents(n) : ~Holds(f, x)
      BY <1>8, <2>1 DEF Holds, Computing
    <3>3. QED BY <2>1, <3>1, <3>2 DEF ReadyNext, Computing
  <2>6. \A k \in b..b : k = b
    BY <1>2
  <2>7. QED BY <1>2, <1>6, <2>1, <2>3, <2>4, <2>5, <2>6
<1>10. CASE ct[n] = 0 /\ IsSource(n) /\ Becomes(t, 1, <<Frame(n, "scan")>>)
  <2> DEFINE f == Frame(n, "scan")
  <2>1. f \in AFrame /\ f.node = n /\ f.stage = "scan"
    BY <1>2, Frames DEF Stages
  <2>2. Settles(t, b, f)
    BY <1>2, <1>10 DEF Becomes, Settles
  <2> HIDE DEF f
  <2>3. /\ Changes(t, b, b) /\ stack'[t][b] = f /\ Last(t)' = f /\ Nested' /\ AtWork'
    BY <1>1, <1>2, <1>3, <2>1, <2>2, Settled DEF Waiting
  <2>4. \A x \in Nodes : Holds(f, x) <=> x = n
    BY <1>10, <2>1 DEF Holds, Computing
  <2>5. ReadyNext(f)
    <3>1. ct'[n] = 0 /\ Parents(n) = {}
      BY <1>1, <1>10 DEF Parents
    <3>2. QED BY <2>1, <3>1 DEF ReadyNext, Computing
  <2>6. \A k \in b..b : k = b
    BY <1>2
  <2>7. QED BY <1>2, <1>6, <2>1, <2>3, <2>4, <2>5, <2>6
<1>11. CASE ct[n] = 0 /\ ~IsSource(n) /\ Becomes(t, 1, <<Frame(n, "first"), Frame(Parent1(n), "lock")>>)
  <2> DEFINE f == Frame(n, "first")
             p == Parent1(n)
             g == Frame(p, "lock")
  <2>0. p \in Nodes /\ n # Parent1(n) /\ n # Parent2(n)
    BY <1>2, <1>11, Nodal
  <2>1. f \in AFrame /\ f.node = n /\ f.stage = "first"
    BY <1>2, Frames DEF Stages
  <2> HIDE DEF f
  <2>2. g \in AFrame /\ g.node = Callee(f) /\ g.stage = "lock"
    <3> HIDE DEF p
    <3>1. g \in AFrame /\ g.node = p /\ g.stage = "lock"
      BY <2>0, Frames DEF Stages
    <3> HIDE DEF g
    <3>2. QED BY <2>1, <3>1 DEF Callee, p
  <2>3. Descends(t, b, f, g)
    BY <1>2, <1>11 DEF Becomes, Descends, f
  <2> HIDE DEF g, p
  <2>4. /\ Changes(t, b, b + 1) /\ stack'[t][b] = f /\ stack'[t][b + 1] = g /\ Last(t)' = g /\ Nested' /\ AtWork'
    BY <1>1, <1>2, <1>3, <1>11, <2>1, <2>2, <2>3, Descended DEF Waiting
  <2>5. \A x \in Nodes : (Holds(f, x) <=> x = n) /\ ~Holds(g, x)
    BY <2>1, <2>2 DEF Holds, Computing, Waiting
  <2>6. \A k \in b..(b + 1) : k = b \/ k = b + 1
    BY <1>2
  <2>7. \A x \in Nodes : (\E k \in b..(b + 1) : Holds(stack'[t][k], x)) <=> x = n
    <3>1. b \in b..(b + 1)
      BY <1>2
    <3>2. QED BY <2>4, <2>5, <2>6, <3>1
  <2>8. ReadyNext(f)
    <3>1. ct'[n] = 0
      BY <1>1, <1>11
    <3>2. \A x \in Parents(n) : ~Holds(f, x)
      BY <1>8, <2>1 DEF Holds, Computing, Waiting
    <3>3. QED BY <2>1, <3>1, <3>2 DEF ReadyNext, Computing
  <2>9. ReadyNext(g)
    BY <2>2 DEF ReadyNext, Holds, Computing
  <2>10. \A k \in b..(b + 1) : ReadyNext(stack'[t][k])
    BY <2>4, <2>6, <2>8, <2>9
  <2>11. QED BY <1>6, <2>2, <2>4, <2>7, <2>10
<1>12. QED BY <1>9, <1>10, <1>11 DEF Lock

\* Back keeps the invariant: the child is no longer to read the parent (binaryArith.cpp:366,370).
LEMMA BackRuns ==
  ASSUME Running, NEW t \in Threads, stack[t] # <<>>, NEW n, n = Last(t).node, Back(t, n)
  PROVE  Running'
<1>0. PICK b : b = Len(stack[t]) - 1
  OBVIOUS
<1>1. PICK c : c = stack[t][b].node
  OBVIOUS
<1>2. /\ Len(stack[t]) > 1 /\ Last(t).stage = "done" /\ left' = [left EXCEPT ![n] = @ - 1]
      /\ \/ /\ stack[t][b].stage = "first"
            /\ Becomes(t, 2, <<Frame(c, "second"), Frame(Parent2(c), "lock")>>)
         \/ stack[t][b].stage = "second" /\ Becomes(t, 2, <<Frame(c, "multiply")>>)
      /\ UNCHANGED <<add, plan, ct, owner, cells, growing, raced, sum, work>>
  BY <1>0, <1>1 DEF Back, At
<1>3. /\ b \in Nat \ {0} /\ b \in 1..Len(stack[t]) /\ b + 1 \in 1..Len(stack[t]) /\ b + 1 = Len(stack[t])
      /\ Last(t) = stack[t][b + 1] /\ n \in Nodes /\ c \in Nodes /\ stack[t][b + 1].node = n
      /\ stack[t][b].node = c /\ stack[t][b + 1].stage = "done"
  <2>1. b \in Nat \ {0} /\ b + 1 = Len(stack[t])
    BY <1>0, <1>2, TopCall
  <2>2. QED BY <1>1, <1>2, <2>1, TopCall, Typed
<1>4. Steady /\ left \in [Nodes -> Int] /\ left' \in [Nodes -> Int]
  <2>1. left \in [Nodes -> Int]
    BY DEF Running, Planned
  <2>2. left' \in [DOMAIN left -> Int] /\ DOMAIN left' = DOMAIN left
    BY <1>2, <1>3, <2>1 DEF Nodes
  <2>3. Steady
    BY <1>2, <2>2 DEF Steady, Nodes
  <2>4. QED BY <2>1, <2>2, <2>3 DEF Nodes
<1>5. RunTypes /\ Threads = 1..NrThreads /\ NrThreads \in Nat \ {0}
  BY Typed
<1>6. /\ c \in Pending(n) /\ n \in Parents(c) /\ n = Callee(stack[t][b]) /\ ~IsSource(c) /\ ct[c] = 0
  <2>1. left[stack[t][b].node] > 0
    BY <1>3, Wanted
  <2>2. QED BY <1>3, <2>1, WaitedFor
<1>7. /\ Parent1(c) \in Nodes /\ Parent2(c) \in Nodes /\ Parent1(c) # Parent2(c)
      /\ c # Parent1(c) /\ c # Parent2(c) /\ n # c
      /\ Parents(c) = {Parent1(c), Parent2(c)} /\ n \notin Parents(n)
  <2>1. /\ Parent1(c) \in Nodes /\ Parent2(c) \in Nodes /\ Parent1(c) # Parent2(c)
        /\ c # Parent1(c) /\ c # Parent2(c)
    BY <1>3, <1>6, Nodal
  <2>2. Parents(c) = {Parent1(c), Parent2(c)}
    BY <1>6 DEF Parents
  <2>3. n \notin Parents(n)
    BY <1>3, Nodal
  <2>4. QED BY <1>6, <2>1, <2>2, <2>3
<1>8. ct[n] # 0 /\ Ready(stack[t][b])
  <2>1. Ready(Last(t)) /\ Ready(stack[t][b])
    BY <1>3, Typed, TopCall DEF Running, Run, Staged
  <2>2. QED BY <1>2, <2>1 DEF Ready
<1>9. \A x \in Nodes : Holds(stack[t][b + 1], x) <=> x = n
  BY <1>3 DEF Holds, Computing
<1>10. ASSUME NEW h \in {b, b + 1}, Changes(t, b, h), Nested', AtWork',
              \A x \in Nodes : (\E k \in b..h : Holds(stack'[t][k], x)) <=> Holds(stack[t][b], x) \/ x = n,
              stack'[t][b].node = c,
              \A x \in Nodes : Holds(stack[t][b], x) \/ x = n => Holds(stack'[t][b], x),
              \A k \in b..h : ReadyNext(stack'[t][k]),
              Last(t)'.stage \notin {"move", "fill"}
       PROVE  Running'
  <2>0. b \in b..h
    BY <1>3, <1>10
  <2>1. Locked'
    <3>1. ASSUME NEW x \in Nodes
          PROVE  owner'[x] = t <=> Below(t, b, x) \/ \E k \in b..h : Holds(stack'[t][k], x)
      <4>1. owner[x] = t <=> Held(t, x)
        BY DEF Running, Run, Locked
      <4>2. Held(t, x) <=> Below(t, b, x) \/ \E k \in b..Len(stack[t]) : Holds(stack[t][k], x)
        BY <1>3, HeldNow
      <4>3. \A k : k \in b..Len(stack[t]) <=> k = b \/ k = b + 1
        BY <1>3
      <4>4. (\E k \in b..Len(stack[t]) : Holds(stack[t][k], x)) <=> Holds(stack[t][b], x) \/ x = n
        BY <1>9, <4>3
      <4>5. QED BY <1>2, <1>10, <4>1, <4>2, <4>4
    <3>2. ASSUME NEW x \in Nodes, NEW u \in Threads \ {t} PROVE owner'[x] = u <=> owner[x] = u
      BY <1>2
    <3>3. Changes(t, b, h) /\ b \in 1..Len(stack[t])
      BY <1>3, <1>10
    <3>4. OwnsHeld(t, b, h) /\ OthersOwn(t)
      BY <3>1, <3>2 DEF OwnsHeld, OthersOwn
    <3>5. QED BY <1>4, <3>3, <3>4, LockedStays
  <2>2. Growing'
    BY <1>2, <1>10, GrowingStays
  <2>3. Staged'
    <3>1. \A x \in Nodes \ {} : ct'[x] = ct[x]
      BY <1>2
    <3>2. {} \in SUBSET Nodes
      OBVIOUS
    <3>3. \A x \in {} : owner[x] = t /\ Inside(x, stack[t][b].node)
      OBVIOUS
    <3>4. \A k \in b..h : ReadyNext(stack'[t][k])
      BY <1>10
    <3>5. b \in 1..Len(stack[t]) /\ Changes(t, b, h)
      BY <1>3, <1>10
    <3>6. QED BY <1>4, <1>10, <3>1, <3>2, <3>3, <3>4, <3>5, StagedStays
  <2>4. CellsApart' /\ Contents' /\ Filling'
    BY <1>2, <1>4, <1>10, CellsStay, FillingStays
  <2>5. Counted'
    <3>1. ASSUME NEW m \in Nodes PROVE Pending(m)' \subseteq Pending(m)
      <4>1. \A x \in Nodes : StillNeeded(x) => Needed(x)
        BY <1>2, <1>4 DEF StillNeeded, Needed
      <4>2. ASSUME NEW k \in b..Len(stack[t]), NEW x \in Parents(stack[t][k].node), Holds(stack[t][k], x)
            PROVE  \E l \in b..h : stack'[t][l].node = stack[t][k].node /\ Holds(stack'[t][l], x)
        <5>1. k = b \/ k = b + 1
          BY <1>3
        <5>2. CASE k = b
          <6>1. x \in Nodes
            BY <1>3, <1>7, <4>2, <5>2
          <6>2. QED BY <1>3, <1>10, <2>0, <4>2, <5>2, <6>1
        <5>3. CASE k = b + 1
          BY <1>3, <1>7, <4>2, <5>3 DEF Holds, Computing
        <5>4. QED BY <5>1, <5>2, <5>3
      <4>3. Changes(t, b, h) /\ b \in 1..Len(stack[t]) /\ work' = work
        BY <1>2, <1>3, <1>10
      <4>4. KeepHold(t, b, h)
        BY <4>2 DEF KeepHold
      <4>5. QED BY <1>4, <4>1, <4>3, <4>4, PendingStays
    <3>2. c \notin Pending(n)'
      <4>1. Holds(stack'[t][b], n)
        BY <1>3, <1>10
      <4>2. \A f, x : Holds(f, x)' <=> Holds(f, x)
        BY <1>4, PlanStays DEF Steady
      <4>3. b \in DOMAIN stack'[t] /\ t \in Threads'
        BY <1>3, <1>10 DEF Changes
      <4>4. stack'[t][b].node = c
        BY <1>10
      <4>5. Past(c, n)'
        BY <4>1, <4>2, <4>3, <4>4 DEF Past
      <4>6. QED BY <1>7, <4>5 DEF Pending
    <3>3. QED BY <1>2, <1>3, <1>4, <1>6, <3>1, <3>2, CountedDown
  <2>6. Summed'
    BY <1>2, <1>4, <1>10, SummedStays DEF Changes
  <2>7. QED
    BY <1>2, <1>4, <1>5, <1>10, <2>1, <2>2, <2>3, <2>4, <2>5, <2>6, RunningStays
    DEF RunTypes, Changes, Running
<1>11. CASE stack[t][b].stage = "first" /\ Becomes(t, 2, <<Frame(c, "second"), Frame(Parent2(c), "lock")>>)
  <2> DEFINE f == Frame(c, "second")
             p == Parent2(c)
             g == Frame(p, "lock")
  <2>1. f \in AFrame /\ f.node = c /\ f.stage = "second"
    BY <1>3, Frames DEF Stages
  <2> HIDE DEF f
  <2>2. g \in AFrame /\ g.node = Callee(f) /\ g.stage = "lock"
    <3>1. p \in Nodes
      BY <1>7
    <3> HIDE DEF p
    <3>2. g \in AFrame /\ g.node = p /\ g.stage = "lock"
      BY <3>1, Frames DEF Stages
    <3> HIDE DEF g
    <3>3. QED BY <2>1, <3>2 DEF Callee, p
  <2>3. Descends(t, b, f, g)
    <3>1. Len(stack[t]) - 2 = b - 1
      BY <1>3
    <3>2. QED BY <1>11, <3>1 DEF Becomes, Descends, f
  <2> HIDE DEF g, p
  <2>4. /\ Changes(t, b, b + 1) /\ stack'[t][b] = f /\ stack'[t][b + 1] = g /\ Last(t)' = g /\ Nested' /\ AtWork'
    <3>1. f.stage \in Waiting /\ ~IsSource(f.node) /\ g.stage \notin Waiting /\ f.node = stack[t][b].node
      BY <1>3, <1>6, <2>1, <2>2 DEF Waiting
    <3>2. work' = work /\ b \in 1..Len(stack[t])
      BY <1>2, <1>3
    <3>3. QED BY <1>4, <2>1, <2>2, <2>3, <3>1, <3>2, Descended
  <2>5. n = Parent1(c)
    BY <1>3, <1>6, <1>11 DEF Callee
  <2>6. \A x \in Nodes : /\ Holds(f, x) <=> x = c \/ x = n
                         /\ Holds(stack[t][b], x) <=> x = c
                         /\ ~Holds(g, x)
    BY <1>3, <1>6, <1>11, <2>1, <2>2, <2>5 DEF Holds, Computing, Waiting
  <2>7. \A k \in b..(b + 1) : k = b \/ k = b + 1
    BY <1>3
  <2>8. \A x \in Nodes : (\E k \in b..(b + 1) : Holds(stack'[t][k], x)) <=> Holds(stack[t][b], x) \/ x = n
    <3>1. b \in b..(b + 1)
      BY <1>3
    <3>2. QED BY <2>4, <2>6, <2>7, <3>1
  <2>9. ReadyNext(f)
    <3>1. ct'[c] = 0 /\ ct'[n] # 0
      BY <1>2, <1>6, <1>8
    <3>2. ASSUME NEW x \in Parents(c), Holds(f, x) PROVE x = n
      BY <1>7, <2>6, <3>2
    <3>3. QED BY <2>1, <3>1, <3>2 DEF ReadyNext
  <2>10. ReadyNext(g)
    BY <2>2 DEF ReadyNext, Holds, Computing
  <2>11. \A k \in b..(b + 1) : ReadyNext(stack'[t][k])
    BY <2>4, <2>7, <2>9, <2>10
  <2>12. QED BY <1>10, <2>1, <2>2, <2>4, <2>6, <2>8, <2>11
<1>12. CASE stack[t][b].stage = "second" /\ Becomes(t, 2, <<Frame(c, "multiply")>>)
  <2> DEFINE f == Frame(c, "multiply")
  <2>1. f \in AFrame /\ f.node = c /\ f.stage = "multiply"
    BY <1>3, Frames DEF Stages
  <2>2. Settles(t, b, f)
    <3>1. Len(stack[t]) - 2 = b - 1
      BY <1>3
    <3>2. QED BY <1>12, <3>1 DEF Becomes, Settles
  <2> HIDE DEF f
  <2>3. /\ Changes(t, b, b) /\ stack'[t][b] = f /\ Last(t)' = f /\ Nested' /\ AtWork'
    BY <1>2, <1>3, <1>4, <2>1, <2>2, Settled DEF Waiting
  <2>4. n = Parent2(c)
    BY <1>3, <1>6, <1>12 DEF Callee
  <2>5. \A x \in Nodes : /\ Holds(f, x) <=> x = c \/ x = Parent1(c) \/ x = n
                         /\ Holds(stack[t][b], x) <=> x = c \/ x = Parent1(c)
    BY <1>3, <1>6, <1>12, <2>1, <2>4 DEF Holds, Computing, Waiting
  <2>6. \A k \in b..b : k = b
    BY <1>3
  <2>7. ReadyNext(f)
    <3>1. ct'[c] = 0 /\ ct'[n] # 0
      BY <1>2, <1>6, <1>8
    <3>2. ct'[Parent1(c)] # 0
      BY <1>2, <1>3, <1>7, <1>8, <2>5 DEF Ready
    <3>3. QED BY <1>6, <1>7, <2>1, <2>4, <3>1, <3>2 DEF ReadyNext
  <2>8. \A x \in Nodes : (\E k \in b..b : Holds(stack'[t][k], x)) <=> Holds(stack[t][b], x) \/ x = n
    <3>1. b \in b..b
      BY <1>3
    <3>2. QED BY <2>3, <2>5, <2>6, <3>1
  <2>9. QED BY <1>10, <2>1, <2>3, <2>5, <2>6, <2>7, <2>8
<1>13. QED BY <1>2, <1>11, <1>12

\* A thread goes on with the call it is in, and holds what it held.
Calm(t, f) ==
  /\ Becomes(t, 1, <<f>>) /\ f \in AFrame /\ f.node = Last(t).node
  /\ Last(t).stage \in Computing \ Waiting /\ f.stage \in Computing \ (Waiting \union {"multiply"})
  /\ UNCHANGED <<add, plan, left, ct, owner, sum, work>>

\* A step that only looks for a cell keeps all that is not about cells.
LEMMA CalmStep ==
  ASSUME Running, NEW t \in Threads, stack[t] # <<>>, NEW f, Calm(t, f)
  PROVE  /\ Steady /\ Changes(t, Len(stack[t]), Len(stack[t])) /\ Last(t)' = f /\ stack'[t] # <<>>
         /\ Nested' /\ AtWork' /\ Locked' /\ Staged' /\ Counted' /\ Summed'
<1>0. PICK b : b = Len(stack[t])
  OBVIOUS
<1>1. /\ Becomes(t, 1, <<f>>) /\ f \in AFrame /\ f.node = Last(t).node
      /\ Last(t).stage \in Computing \ Waiting /\ f.stage \in Computing \ (Waiting \union {"multiply"})
      /\ UNCHANGED <<add, plan, left, ct, owner, sum, work>>
  BY DEF Calm
<1>2. /\ b \in Nat \ {0} /\ b \in 1..Len(stack[t]) /\ Last(t) = stack[t][b] /\ f.node \in Nodes
      /\ stack[t][b].node = f.node /\ b = Len(stack[t]) /\ Ready(stack[t][b])
  BY <1>0, <1>1, TopCall
<1>3. Steady
  BY <1>1 DEF Steady, Nodes
<1>4. Settles(t, b, f)
  BY <1>1, <1>2 DEF Becomes, Settles
<1>5. /\ Changes(t, b, b) /\ stack'[t][b] = f /\ Last(t)' = f /\ stack'[t] # <<>> /\ Nested' /\ AtWork'
  <2>1. f \in AFrame /\ f.node = stack[t][b].node /\ f.stage \notin Waiting /\ work' = work /\ b \in 1..Len(stack[t])
    BY <1>1, <1>2
  <2>2. QED BY <1>3, <1>4, <2>1, Settled
<1>6. \A x : Holds(f, x) <=> Holds(stack[t][b], x)
  BY <1>1, <1>2 DEF Holds, Computing, Waiting
<1>7. \A k \in b..b : k = b
  BY <1>2
<1>8. b \in b..b /\ b..Len(stack[t]) = b..b
  BY <1>2
<1>9. Locked'
  <2>1. ASSUME NEW x \in Nodes
        PROVE  owner'[x] = t <=> Below(t, b, x) \/ \E k \in b..b : Holds(stack'[t][k], x)
    <3>1. owner[x] = t <=> Held(t, x)
      BY DEF Running, Run, Locked
    <3>2. Held(t, x) <=> Below(t, b, x) \/ \E k \in b..b : Holds(stack[t][k], x)
      BY <1>2, HeldNow
    <3>3. (\E k \in b..b : Holds(stack'[t][k], x)) <=> (\E k \in b..b : Holds(stack[t][k], x))
      BY <1>5, <1>6, <1>7, <1>8
    <3>4. QED BY <1>1, <3>1, <3>2, <3>3
  <2>2. \A x \in Nodes, u \in Threads \ {t} : owner'[x] = u <=> owner[x] = u
    BY <1>1
  <2>3. b \in {b, b + 1} /\ b \in 1..Len(stack[t]) /\ Changes(t, b, b)
    BY <1>2, <1>5
  <2>4. OwnsHeld(t, b, b) /\ OthersOwn(t)
    BY <2>1, <2>2 DEF OwnsHeld, OthersOwn
  <2>5. QED BY <1>3, <2>3, <2>4, LockedStays
<1>10. Staged'
  <2>1. ReadyNext(f)
    <3>1. ct' = ct /\ Computing \cap {"done"} = {}
      BY <1>1 DEF Computing
    <3>2. ct[f.node] = 0 /\ \A x \in Parents(f.node) : Holds(f, x) => ct[x] # 0
      BY <1>1, <1>2, <1>6 DEF Ready
    <3>3. f.stage # "done" /\ f.stage # "multiply"
      BY <1>1, <3>1
    <3>4. QED BY <3>1, <3>2, <3>3 DEF ReadyNext
  <2>2. \A x \in Nodes \ {} : ct'[x] = ct[x]
    BY <1>1
  <2>3. /\ {} \in SUBSET Nodes /\ b \in {b, b + 1} /\ b \in 1..Len(stack[t]) /\ Changes(t, b, b)
        /\ \A k \in b..b : ReadyNext(stack'[t][k])
    BY <1>2, <1>5, <1>7, <2>1
  <2>4. QED BY <1>3, <2>2, <2>3, StagedStays
<1>11. Counted'
  <2>1. KeepHold(t, b, b)
    BY <1>2, <1>5, <1>6, <1>7, <1>8 DEF KeepHold
  <2>2. \A c \in Nodes : StillNeeded(c) => Needed(c)
    BY <1>1 DEF StillNeeded, Needed
  <2>3. work' = work /\ b \in {b, b + 1} /\ b \in 1..Len(stack[t]) /\ Changes(t, b, b)
    BY <1>1, <1>2, <1>5
  <2>4. \A m \in Nodes : Pending(m)' \subseteq Pending(m)
    BY <1>3, <2>1, <2>2, <2>3, PendingStays
  <2>5. QED BY <1>1, <1>3, <2>4, CountedStays
<1>12. Summed'
  BY <1>1, <1>3, <1>5, SummedStays DEF Changes
<1>13. QED BY <1>2, <1>3, <1>5, <1>9, <1>10, <1>11, <1>12

\* It keeps the invariant if the cells stay apart.
LEMMA CalmRuns ==
  ASSUME Running, NEW t \in Threads, stack[t] # <<>>, NEW f, Calm(t, f), ~raced',
         cells' \in Seq(Cell), growing' \in 0..NrThreads, Growing', CellsApart', Contents', Filling'
  PROVE  Running'
<1>1. /\ Steady /\ Nested' /\ AtWork' /\ Locked' /\ Staged' /\ Counted' /\ Summed'
      /\ Threads' = Threads /\ stack' \in [Threads -> Seq(AFrame)]
  BY CalmStep DEF Changes
<1>2. UNCHANGED <<add, plan, left, ct, owner, sum, work>>
  BY DEF Calm
<1>3. /\ left' \in [Nodes -> Int] /\ ct' \in [Nodes -> Nat] /\ owner' \in [Nodes -> 0..NrThreads]
      /\ sum' \in [0..(add.sizeLimit - 1) -> Ciphertexts]
      /\ work' \in [Threads -> [bit : Nat, place : Int]]
  BY <1>2 DEF Running, Planned, Run, RunTypes
<1>4. QED BY <1>1, <1>3, RunningStays

\* A thread takes a cell that nobody used, or a new one.
LEMMA CellTaken ==
  ASSUME Running, Steady, ct' = ct, NEW t \in Threads, stack[t] # <<>>, NEW f, Last(t)' = f, stack'[t] # <<>>,
         NEW b, NEW h, Changes(t, b, h),
         f.stage = "fill", f.cell # 0, f.cell \in DOMAIN cells', cells'[f.cell].used,
         f.cell \in DOMAIN cells => ~cells[f.cell].used,
         \A c \in DOMAIN cells : /\ c \in DOMAIN cells' /\ cells'[c].ctxt = cells[c].ctxt
                                 /\ cells[c].used => cells'[c].used
  PROVE  CellsApart' /\ Contents' /\ Filling'
<1>1. CellsApart /\ Contents /\ Filling
  BY DEF Running, Run
<1>2. Nodes' = Nodes /\ add' = add /\ Threads' = Threads
  BY DEF Steady, Changes
<1>3. CellsApart'
  BY <1>1, <1>2 DEF CellsApart
<1>4. Contents'
  <2>1. \A n : Meaning(n)' = Meaning(n)
    BY <1>2, MeaningStays
  <2>2. \A n \in Nodes : ct[n] # 0 => Content(n)' = Content(n)
    BY <1>1 DEF CellsApart, Content
  <2>3. \A n \in Nodes : ct[n] # 0 => Number(Content(n))' = Number(Content(n))
    BY <2>2 DEF Number
  <2>4. QED BY <1>1, <1>2, <2>1, <2>3 DEF Contents
<1>5. ASSUME NEW u \in Threads \ {t} PROVE stack'[u] = stack[u] /\ Last(u)' = Last(u)
  BY DEF Changes, Last
<1>6. Filling'
  <2>1. SUFFICES ASSUME NEW u \in Threads, InStage(u, "fill")'
        PROVE  /\ Last(u)'.cell \in DOMAIN cells' /\ cells'[Last(u)'.cell].used
               /\ \A n \in Nodes : ct[n] # Last(u)'.cell
               /\ \A v \in Threads \ {u} : InStage(v, "fill")' => Last(v)'.cell # Last(u)'.cell
    BY <1>2 DEF Filling
  <2>2. ASSUME NEW v \in Threads \ {t}, InStage(v, "fill")'
        PROVE  /\ Last(v)' = Last(v) /\ InStage(v, "fill") /\ Last(v).cell \in DOMAIN cells
               /\ cells[Last(v).cell].used /\ f.cell # Last(v).cell
    <3>1. Last(v)' = Last(v) /\ InStage(v, "fill")
      BY <1>5, <2>2 DEF InStage
    <3>2. Last(v).cell \in DOMAIN cells /\ cells[Last(v).cell].used
      BY <1>1, <3>1 DEF Filling
    <3>3. QED BY <3>1, <3>2
  <2>3. CASE u = t
    <3>1. \A n \in Nodes : ct[n] # f.cell
      <4>1. SUFFICES ASSUME NEW n \in Nodes, ct[n] = f.cell PROVE FALSE
        OBVIOUS
      <4>2. QED BY <1>1, <4>1 DEF CellsApart
    <3>2. QED BY <2>2, <2>3, <3>1
  <2>4. CASE u # t
    <3>1. /\ Last(u)' = Last(u) /\ InStage(u, "fill") /\ f.cell # Last(u).cell
      BY <2>1, <2>2, <2>4
    <3>2. /\ Last(u).cell \in DOMAIN cells /\ cells[Last(u).cell].used
          /\ \A n \in Nodes : ct[n] # Last(u).cell
          /\ \A v \in Threads \ {u} : InStage(v, "fill") => Last(v).cell # Last(u).cell
      BY <1>1, <3>1 DEF Filling
    <3>3. QED BY <2>2, <2>4, <3>1, <3>2
  <2>5. QED BY <2>3, <2>4
<1>7. QED BY <1>3, <1>4, <1>6

\* It does so in particular when no cell changes.
LEMMA CalmCells ==
  ASSUME Running, NEW t \in Threads, stack[t] # <<>>, NEW f, Calm(t, f), ~raced', f.stage \notin {"move", "fill"},
         Last(t).stage # "move", cells' = cells, growing' = growing
  PROVE  Running'
<1>1. Steady /\ Changes(t, Len(stack[t]), Len(stack[t])) /\ Last(t)' = f
  BY CalmStep
<1>2. ct' = ct
  BY DEF Calm
<1>3. CellsApart' /\ Contents' /\ Filling'
  BY <1>1, <1>2, CellsStay, FillingStays
<1>4. Growing'
  BY <1>1, GrowingStays
<1>5. cells' \in Seq(Cell) /\ growing' \in 0..NrThreads
  BY DEF Running, Run, RunTypes
<1>6. QED BY <1>3, <1>4, <1>5, CalmRuns

\* A frame that has come to a cell.
LEMMA FrameWithCell ==
  ASSUME NEW n \in Nodes, NEW stage \in Stages, NEW c \in Nat \ {0}
  PROVE  LET f == [Frame(n, stage) EXCEPT !.cell = c]
         IN f \in AFrame /\ f.node = n /\ f.stage = stage /\ f.cell = c
BY DEF Frame, AFrame

\* Scan keeps the invariant: a cell that is free belongs to no node (binaryArith.cpp:429-434).
LEMMA ScanRuns ==
  ASSUME Running, NEW t \in Threads, stack[t] # <<>>, NEW n, n = Last(t).node, Scan(t, n), ~raced'
  PROVE  Running'
<1>0. PICK c : c = Last(t).cell
  OBVIOUS
<1>1. /\ Last(t).stage = "scan"
      /\ \/ c > Len(cells) /\ Becomes(t, 1, <<Frame(n, "grow")>>) /\ UNCHANGED cells
         \/ /\ c <= Len(cells) /\ cells[c].used
            /\ Becomes(t, 1, <<[Frame(n, "scan") EXCEPT !.cell = c + 1]>>) /\ UNCHANGED cells
         \/ /\ c <= Len(cells) /\ ~cells[c].used
            /\ cells' = [cells EXCEPT ![c].used = TRUE]
            /\ Becomes(t, 1, <<[Frame(n, "fill") EXCEPT !.cell = c]>>)
      /\ UNCHANGED <<add, plan, left, ct, owner, growing, sum, work>>
  BY <1>0 DEF Scan, At
<1>2. n \in Nodes /\ c \in Nat \ {0} /\ cells \in Seq(Cell)
  BY <1>0, TopCall DEF Running, Run, RunTypes
<1>3. ASSUME NEW f \in AFrame, f.node = n, f.stage \in {"grow", "scan", "fill"}, Becomes(t, 1, <<f>>)
      PROVE  Calm(t, f)
  BY <1>1, <1>3 DEF Calm, Computing, Waiting
<1>4. CASE Becomes(t, 1, <<Frame(n, "grow")>>) /\ UNCHANGED cells
  <2> DEFINE f == Frame(n, "grow")
  <2>1. f \in AFrame /\ f.node = n /\ f.stage = "grow"
    BY <1>2, Frames DEF Stages
  <2>2. Becomes(t, 1, <<f>>)
    BY <1>4
  <2> HIDE DEF f
  <2>3. Calm(t, f)
    BY <1>3, <2>1, <2>2
  <2>4. QED BY <1>1, <1>4, <2>1, <2>3, CalmCells
<1>5. CASE Becomes(t, 1, <<[Frame(n, "scan") EXCEPT !.cell = c + 1]>>) /\ UNCHANGED cells
  <2> DEFINE f == [Frame(n, "scan") EXCEPT !.cell = c + 1]
  <2>1. f \in AFrame /\ f.node = n /\ f.stage = "scan"
    <3>1. c + 1 \in Nat \ {0} /\ "scan" \in Stages
      BY <1>2 DEF Stages
    <3>2. QED BY <1>2, <3>1, FrameWithCell
  <2>2. Becomes(t, 1, <<f>>)
    BY <1>5
  <2> HIDE DEF f
  <2>3. Calm(t, f)
    BY <1>3, <2>1, <2>2
  <2>4. QED BY <1>1, <1>5, <2>1, <2>3, CalmCells
<1>6. CASE /\ c <= Len(cells) /\ ~cells[c].used
           /\ cells' = [cells EXCEPT ![c].used = TRUE]
           /\ Becomes(t, 1, <<[Frame(n, "fill") EXCEPT !.cell = c]>>)
  <2> DEFINE f == [Frame(n, "fill") EXCEPT !.cell = c]
  <2>1. f \in AFrame /\ f.node = n /\ f.stage = "fill" /\ f.cell = c
    BY <1>2, FrameWithCell DEF Stages
  <2>2. Becomes(t, 1, <<f>>)
    BY <1>6
  <2> HIDE DEF f
  <2>3. Calm(t, f)
    BY <1>3, <2>1, <2>2
  <2>4. c \in 1..Len(cells) /\ DOMAIN cells = 1..Len(cells) /\ \A d \in 1..Len(cells) : cells[d] \in Cell
    BY <1>2, <1>6
  <2>5. cells' \in Seq(Cell) /\ DOMAIN cells' = DOMAIN cells
    <3> DEFINE e == [cells[c] EXCEPT !.used = TRUE]
    <3>1. e \in Cell /\ cells' = [cells EXCEPT ![c] = e]
      BY <1>6, <2>4 DEF Cell
    <3> HIDE DEF e
    <3>2. QED BY <1>2, <2>4, <3>1
  <2>6. \A d \in DOMAIN cells : cells'[d] = IF d = c THEN [cells[d] EXCEPT !.used = TRUE] ELSE cells[d]
    BY <1>6
  <2>7. cells'[c].used /\ \A d \in DOMAIN cells : cells'[d].ctxt = cells[d].ctxt /\ (cells[d].used => cells'[d].used)
    BY <2>4, <2>6 DEF Cell
  <2>8. Steady /\ Changes(t, Len(stack[t]), Len(stack[t])) /\ Last(t)' = f /\ stack'[t] # <<>>
    BY <2>3, CalmStep
  <2>9. CellsApart' /\ Contents' /\ Filling'
    BY <1>1, <1>2, <1>6, <2>1, <2>4, <2>5, <2>7, <2>8, CellTaken
  <2>10. Growing' /\ growing' \in 0..NrThreads
    BY <1>1, <2>1, <2>8, GrowingStays DEF Running, Run, RunTypes
  <2>11. QED BY <2>3, <2>5, <2>9, <2>10, CalmRuns
<1>7. QED BY <1>1, <1>4, <1>5, <1>6

\* A new cell comes behind the others.
LEMMA NewCellRuns ==
  ASSUME Running, NEW t \in Threads, stack[t] # <<>>, NEW n, n = Last(t).node, NewCell(t, n), ~raced',
         Last(t).stage \in Computing \ Waiting, growing' \in 0..NrThreads,
         (\A f : Calm(t, f) /\ f.stage = "fill" => Growing'),
         UNCHANGED <<add, plan, left, ct, owner, sum, work>>
  PROVE  Running'
<1>0. PICK c : c = Len(cells) + 1
  OBVIOUS
<1> DEFINE f == [Frame(n, "fill") EXCEPT !.cell = c]
           e == [used |-> TRUE, ctxt |-> Empty]
<1>1. n \in Nodes /\ cells \in Seq(Cell) /\ c \in Nat \ {0} /\ c = Len(cells) + 1
  BY <1>0, TopCall DEF Running, Run, RunTypes
<1>2. cells' = Append(cells, e) /\ Becomes(t, 1, <<f>>)
  BY <1>0 DEF NewCell
<1>3. f \in AFrame /\ f.node = n /\ f.stage = "fill" /\ f.cell = c
  <2>1. c \in Nat \ {0} /\ n \in Nodes /\ "fill" \in Stages
    BY <1>1 DEF Stages
  <2>2. QED BY <2>1, FrameWithCell
<1> HIDE DEF f
<1>4. Calm(t, f)
  BY <1>2, <1>3 DEF Calm, Computing, Waiting
<1>5. e \in Cell /\ e.used
  BY DEF Cell, Ciphertexts
<1> HIDE DEF e
<1>6. /\ cells' \in Seq(Cell) /\ DOMAIN cells' = 1..c /\ cells'[c] = e
      /\ \A d \in 1..Len(cells) : cells'[d] = cells[d]
  BY <1>1, <1>2, <1>5
<1>7. /\ c \in DOMAIN cells' /\ c \notin DOMAIN cells /\ cells'[c].used
      /\ \A d \in DOMAIN cells : d \in DOMAIN cells' /\ cells'[d] = cells[d]
  BY <1>1, <1>5, <1>6
<1>8. Steady /\ Changes(t, Len(stack[t]), Len(stack[t])) /\ Last(t)' = f /\ stack'[t] # <<>>
  BY <1>4, CalmStep
<1>9. CellsApart' /\ Contents' /\ Filling'
  BY <1>1, <1>3, <1>7, <1>8, CellTaken
<1>10. Growing'
  BY <1>3, <1>4
<1>11. QED BY <1>4, <1>6, <1>9, <1>10, CalmRuns

\* Grow keeps the invariant (binaryArith.cpp:436-440).
LEMMA GrowRuns ==
  ASSUME Running, NEW t \in Threads, stack[t] # <<>>, NEW n, n = Last(t).node, Grow(t, n)
  PROVE  Running'
<1>1. /\ Last(t).stage = "grow" /\ growing = 0 /\ ~raced' /\ n \in Nodes
      /\ \/ NewCell(t, n) /\ UNCHANGED growing
         \/ growing' = t /\ Becomes(t, 1, <<Frame(n, "move")>>) /\ UNCHANGED cells
      /\ UNCHANGED <<add, plan, left, ct, owner, raced, sum, work>>
  BY TopCall DEF Grow, At, Running
<1>2. /\ growing \in 0..NrThreads /\ Threads = 1..NrThreads /\ NrThreads \in Nat \ {0}
      /\ Growing /\ cells \in Seq(Cell)
  BY Typed DEF Running, Run, RunTypes
<1>3. CASE NewCell(t, n) /\ UNCHANGED growing
  <2>1. ASSUME NEW f, Calm(t, f), f.stage = "fill" PROVE Growing'
    BY <1>1, <1>3, <2>1, CalmStep, GrowingStays
  <2>2. Last(t).stage \in Computing \ Waiting /\ growing' \in 0..NrThreads
    BY <1>1, <1>2, <1>3 DEF Computing, Waiting
  <2>3. QED BY <1>1, <1>3, <2>1, <2>2, NewCellRuns
<1>4. CASE growing' = t /\ Becomes(t, 1, <<Frame(n, "move")>>) /\ UNCHANGED cells
  <2> DEFINE f == Frame(n, "move")
  <2>1. f \in AFrame /\ f.node = n /\ f.stage = "move"
    BY <1>1, Frames DEF Stages
  <2>2. Becomes(t, 1, <<f>>)
    BY <1>4
  <2> HIDE DEF f
  <2>3. Calm(t, f)
    BY <1>1, <2>1, <2>2 DEF Calm, Computing, Waiting
  <2>4. Steady /\ Changes(t, Len(stack[t]), Len(stack[t])) /\ Last(t)' = f /\ stack'[t] # <<>>
    BY <2>3, CalmStep
  <2>5. CellsApart' /\ Contents' /\ Filling'
    BY <1>1, <1>4, <2>1, <2>4, CellsStay, FillingStays
  <2>6. Growing'
    <3>1. ASSUME NEW u \in Threads \ {t} PROVE ~InStage(u, "move")'
      <4>1. ~InStage(u, "move")
        BY <1>1, <1>2 DEF Growing
      <4>2. stack'[u] = stack[u]
        BY <2>4 DEF Changes
      <4>3. QED BY <4>1, <4>2 DEF InStage, Last
    <3>2. InStage(t, "move")'
      BY <2>1, <2>4 DEF InStage
    <3>3. QED BY <1>4, <2>4, <3>1, <3>2 DEF Growing, Changes
  <2>7. QED BY <1>1, <1>2, <1>4, <2>3, <2>5, <2>6, CalmRuns
<1>5. QED BY <1>1, <1>3, <1>4

\* Move keeps the invariant (binaryArith.cpp:440).
LEMMA MoveRuns ==
  ASSUME Running, NEW t \in Threads, stack[t] # <<>>, NEW n, n = Last(t).node, Move(t, n)
  PROVE  Running'
<1>1. /\ Last(t).stage = "move" /\ ~raced' /\ NewCell(t, n) /\ growing' = 0
      /\ UNCHANGED <<add, plan, left, ct, owner, raced, sum, work>>
  BY DEF Move, At, Running
<1>2. Threads = 1..NrThreads /\ NrThreads \in Nat \ {0} /\ Growing
  BY Typed DEF Running, Run
<1>3. growing = t
  BY <1>1, <1>2 DEF Growing, InStage
<1>4. ASSUME NEW f, Calm(t, f), f.stage = "fill" PROVE Growing'
  <2>1. Changes(t, Len(stack[t]), Len(stack[t])) /\ Last(t)' = f
    BY <1>4, CalmStep
  <2>2. ASSUME NEW u \in Threads PROVE growing' # u /\ ~InStage(u, "move")'
    <3>1. growing' # u
      BY <1>1, <1>2
    <3>2. CASE u = t
      BY <1>4, <2>1, <3>1, <3>2 DEF InStage
    <3>3. CASE u # t
      <4>1. ~InStage(u, "move")
        BY <1>2, <1>3, <3>3 DEF Growing
      <4>2. stack'[u] = stack[u]
        BY <2>1, <3>3 DEF Changes
      <4>3. QED BY <3>1, <4>1, <4>2 DEF InStage, Last
    <3>4. QED BY <3>2, <3>3
  <2>3. QED BY <2>1, <2>2 DEF Growing, Changes
<1>5. Last(t).stage \in Computing \ Waiting /\ growing' \in 0..NrThreads
  BY <1>1, <1>2 DEF Computing, Waiting
<1>6. QED BY <1>1, <1>4, <1>5, NewCellRuns

--------------------------------------------------------------------------------
(* A node gets its ciphertext. *)

\* Sum and product of ciphertexts are those of the numbers.
LEMMA Combined ==
  ASSUME NEW x \in Ciphertexts, NEW y \in Ciphertexts
  PROVE  /\ PlusCtxt(x, y) \in Ciphertexts /\ Number(PlusCtxt(x, y)) = (Number(x) + Number(y)) % RING
         /\ TimesCtxt(x, y) \in Ciphertexts /\ Number(TimesCtxt(x, y)) = (Number(x) * Number(y)) % RING
         /\ Number(x) * Number(y) = Number(y) * Number(x)
<1> DEFINE u == Number(x)
           v == Number(y)
<1>1. RING \in Nat \ {0} /\ u \in 0..(RING - 1) /\ v \in 0..(RING - 1)
  BY DagAssumption, Numbers
<1>2. u \in Nat /\ v \in Nat /\ u + v \in Nat /\ u * v \in Nat /\ u * v = v * u
  BY <1>1
<1>3. (u + v) % RING \in 0..(RING - 1) /\ (u * v) % RING \in 0..(RING - 1)
  BY <1>1, <1>2
<1>4. u % RING = u /\ v % RING = v
  BY <1>1
<1>5. /\ x = Empty => u = 0
      /\ y = Empty => v = 0
      /\ x # Empty => u = x
      /\ y # Empty => v = y
      /\ \A z \in 0..(RING - 1) : z \in Ciphertexts /\ Number(z) = z
  BY <1>1 DEF Number, Ciphertexts, Empty
<1> HIDE DEF u, v
<1>6. PlusCtxt(x, y) \in Ciphertexts /\ Number(PlusCtxt(x, y)) = (u + v) % RING
  <2>1. CASE x = Empty
    <3>1. u + v = v /\ PlusCtxt(x, y) = y
      BY <1>2, <1>5, <2>1 DEF PlusCtxt
    <3>2. QED BY <1>4, <3>1 DEF v
  <2>2. CASE x # Empty /\ y = Empty
    <3>1. u + v = u /\ PlusCtxt(x, y) = x
      BY <1>2, <1>5, <2>2 DEF PlusCtxt
    <3>2. QED BY <1>4, <3>1 DEF u
  <2>3. CASE x # Empty /\ y # Empty
    <3>1. PlusCtxt(x, y) = (u + v) % RING
      BY <1>5, <2>3 DEF PlusCtxt
    <3>2. QED BY <1>3, <1>5, <3>1
  <2>4. QED BY <2>1, <2>2, <2>3
<1>7. TimesCtxt(x, y) \in Ciphertexts /\ Number(TimesCtxt(x, y)) = (u * v) % RING
  <2>1. CASE x = Empty \/ y = Empty
    <3>1. u * v = 0 /\ TimesCtxt(x, y) = Empty
      BY <1>1, <1>2, <1>5, <2>1 DEF TimesCtxt
    <3>2. Number(Empty) = 0 /\ Empty \in Ciphertexts /\ 0 % RING = 0
      BY <1>1 DEF Number, Ciphertexts
    <3>3. QED BY <3>1, <3>2
  <2>2. CASE x # Empty /\ y # Empty
    <3>1. TimesCtxt(x, y) = (u * v) % RING
      BY <1>5, <2>2 DEF TimesCtxt
    <3>2. QED BY <1>3, <1>5, <3>1
  <2>3. QED BY <2>1, <2>2
<1>8. QED BY <1>2, <1>6, <1>7 DEF u, v

\* A node without parents is for a single bit.
LEMMA Sourced ==
  ASSUME Running, NEW n \in Nodes, IsSource(n)
  PROVE  n.i = n.j /\ Meaning(n) = Start(n) % RING
<1>1. n \in AllNodes /\ n.i \in Nat /\ n.j \in Nat /\ n.j <= n.i
  BY Nodal
<1>2. n.i = n.j
  BY <1>1 DEF Running, Planned, Divided, IsSource
<1>3. QED BY <1>1, <1>2, Meanings DEF Running

\* The product of the ciphertexts of the parents, in either order.
LEMMA ParentsMultiplied ==
  ASSUME Running, NEW n \in Nodes, ~IsSource(n), ct[Parent1(n)] # 0, ct[Parent2(n)] # 0
  PROVE  /\ Content(Parent1(n)) \in Ciphertexts /\ Content(Parent2(n)) \in Ciphertexts
         /\ LET v == TimesCtxt(Content(Parent1(n)), Content(Parent2(n)))
            IN v \in Ciphertexts /\ Number(v) = Meaning(n)
         /\ LET v == TimesCtxt(Content(Parent2(n)), Content(Parent1(n)))
            IN v \in Ciphertexts /\ Number(v) = Meaning(n)
<1>1. n \in AllNodes /\ middle[n] \in n.j..(n.i - 1) /\ Parent1(n) \in Nodes /\ Parent2(n) \in Nodes
  BY Nodal
<1>2. Meaning(n) = (Meaning(Parent1(n)) * Meaning(Parent2(n))) % RING
  BY <1>1, MeaningSplits DEF Parent1, Parent2, Running
<1>3. ASSUME NEW x \in Nodes, ct[x] # 0 PROVE Content(x) \in Ciphertexts /\ Number(Content(x)) = Meaning(x)
  <2>1. ct[x] \in DOMAIN cells /\ cells \in Seq(Cell) /\ Number(Content(x)) = Meaning(x)
    BY <1>3 DEF Running, Run, CellsApart, Contents, RunTypes
  <2>2. cells[ct[x]] \in Cell
    BY <2>1
  <2>3. QED BY <2>1, <2>2 DEF Content, Cell
<1> DEFINE x == Content(Parent1(n))
           y == Content(Parent2(n))
<1>4. x \in Ciphertexts /\ y \in Ciphertexts /\ Number(x) = Meaning(Parent1(n)) /\ Number(y) = Meaning(Parent2(n))
  BY <1>1, <1>3
<1> HIDE DEF x, y
<1>5. /\ TimesCtxt(x, y) \in Ciphertexts /\ Number(TimesCtxt(x, y)) = (Number(x) * Number(y)) % RING
      /\ TimesCtxt(y, x) \in Ciphertexts /\ Number(TimesCtxt(y, x)) = (Number(y) * Number(x)) % RING
      /\ Number(x) * Number(y) = Number(y) * Number(x)
  BY <1>4, Combined
<1>6. QED BY <1>2, <1>4, <1>5 DEF x, y

\* A node gets its ciphertext and its parents are unlocked.
LEMMA ComputedRuns ==
  ASSUME Running, ~raced', NEW t \in Threads, stack[t] # <<>>, NEW n, n = Last(t).node,
         Last(t).stage \in {"multiply", "fill"},
         Becomes(t, 1, <<Frame(n, "done")>>), Unlock(Parents(n)),
         UNCHANGED <<add, plan, left, growing, sum, work>>,
         ct' \in [Nodes -> Nat], ct'[n] # 0,
         \A x \in Nodes \ ({n} \union Parents(n)) : ct'[x] = ct[x],
         \A x \in Parents(n) : ct'[x] = ct[x] \/ left[x] = 0,
         cells' \in Seq(Cell), CellsApart', Contents', Filling'
  PROVE  Running'
<1>0. PICK b : b = Len(stack[t])
  OBVIOUS
<1> DEFINE f == Frame(n, "done")
<1>2. /\ b \in Nat \ {0} /\ b \in 1..Len(stack[t]) /\ Last(t) = stack[t][b] /\ n \in Nodes
      /\ stack[t][b].node = n /\ b = Len(stack[t]) /\ Ready(stack[t][b])
  BY <1>0, TopCall
<1>3. Steady /\ owner' = [x \in Nodes |-> IF x \in Parents(n) THEN 0 ELSE owner[x]]
  BY DEF Steady, Nodes, Unlock
<1>4. RunTypes /\ Threads = 1..NrThreads /\ NrThreads \in Nat \ {0}
  BY Typed
<1>5. f \in AFrame /\ f.node = n /\ f.stage = "done"
  BY <1>2, Frames DEF Stages
<1>6. Settles(t, b, f)
  BY <1>2 DEF Becomes, Settles
<1> HIDE DEF f
<1>7. /\ Changes(t, b, b) /\ stack'[t][b] = f /\ Last(t)' = f /\ stack'[t] # <<>> /\ Nested' /\ AtWork'
  <2>1. f.node = stack[t][b].node /\ f.stage \notin Waiting /\ work' = work
    BY <1>2, <1>5 DEF Waiting
  <2>2. QED BY <1>2, <1>3, <1>5, <1>6, <2>1, Settled
<1>8. \A k \in b..b : k = b
  BY <1>2
<1>9. b \in b..b /\ b..Len(stack[t]) = b..b /\ b \in {b, b + 1}
  BY <1>2
<1>10. \A x \in Nodes : /\ Holds(f, x) <=> x = n
                        /\ Holds(stack[t][b], x) <=> x = n \/ x \in Parents(n)
  BY <1>2, <1>5 DEF Holds, Computing, Waiting, Parents
<1>11. n \notin Parents(n) /\ \A x \in Parents(n) : x \in Nodes /\ Inside(x, n)
  <2>1. n \notin Parents(n) /\ (~IsSource(n) => /\ Parent1(n) \in Nodes /\ Parent2(n) \in Nodes
                                                /\ Inside(Parent1(n), n) /\ Inside(Parent2(n), n))
    BY <1>2, Nodal
  <2>2. QED BY <2>1 DEF Parents
<1>12. \A x \in Nodes : owner[x] = t <=> Below(t, b, x) \/ x = n \/ x \in Parents(n)
  <2>1. SUFFICES ASSUME NEW x \in Nodes PROVE owner[x] = t <=> Below(t, b, x) \/ x = n \/ x \in Parents(n)
    OBVIOUS
  <2>2. owner[x] = t <=> Held(t, x)
    BY DEF Running, Run, Locked
  <2>3. Held(t, x) <=> Below(t, b, x) \/ \E k \in b..b : Holds(stack[t][k], x)
    BY <1>2, HeldNow
  <2>4. (\E k \in b..b : Holds(stack[t][k], x)) <=> Holds(stack[t][b], x)
    BY <1>8, <1>9
  <2>5. QED BY <1>10, <2>2, <2>3, <2>4
<1>13. Locked'
  <2>1. ASSUME NEW x \in Nodes
        PROVE  owner'[x] = t <=> Below(t, b, x) \/ \E k \in b..b : Holds(stack'[t][k], x)
    <3>1. (\E k \in b..b : Holds(stack'[t][k], x)) <=> x = n
      BY <1>7, <1>8, <1>9, <1>10
    <3>2. CASE x \in Parents(n)
      <4>1. ~Below(t, b, x)
        BY <1>2, <1>11, <3>2, BelowApart
      <4>2. owner'[x] = 0 /\ t # 0
        BY <1>3, <1>4, <3>2
      <4>3. QED BY <1>11, <3>1, <3>2, <4>1, <4>2
    <3>3. CASE x \notin Parents(n)
      BY <1>3, <1>12, <3>1, <3>3
    <3>4. QED BY <3>2, <3>3
  <2>2. ASSUME NEW x \in Nodes, NEW u \in Threads \ {t} PROVE owner'[x] = u <=> owner[x] = u
    <3>1. u # 0
      BY <1>4
    <3>2. QED BY <1>3, <1>12, <3>1
  <2>3. OwnsHeld(t, b, b) /\ OthersOwn(t)
    BY <2>1, <2>2 DEF OwnsHeld, OthersOwn
  <2>4. QED BY <1>2, <1>3, <1>7, <1>9, <2>3, LockedStays
<1>14. Growing'
  <2>1. growing' = growing /\ Last(t).stage # "move" /\ Last(t)'.stage # "move"
    BY <1>5, <1>7
  <2>2. QED BY <1>7, <2>1, GrowingStays
<1>15. Staged'
  <2> DEFINE T == {n} \union Parents(n)
  <2>1. T \in SUBSET Nodes /\ \A x \in Nodes \ T : ct'[x] = ct[x]
    BY <1>2, <1>11
  <2>2. \A x \in T : owner[x] = t /\ Inside(x, stack[t][b].node)
    BY <1>2, <1>11, <1>12, Nodal
  <2>3. ReadyNext(f)
    <3>1. \A x \in Parents(n) : ~Holds(f, x)
      BY <1>10, <1>11
    <3>2. QED BY <1>5, <3>1 DEF ReadyNext, Computing
  <2>4. \A k \in b..b : ReadyNext(stack'[t][k])
    BY <1>7, <1>8, <2>3
  <2> HIDE DEF T
  <2>5. QED BY <1>2, <1>3, <1>7, <1>9, <2>1, <2>2, <2>4, StagedStays
<1>16. Counted'
  <2>1. KeepHold(t, b, b)
    <3>1. ~StillNeeded(n)
      BY DEF StillNeeded
    <3>2. QED BY <1>2, <1>8, <1>9, <3>1 DEF KeepHold
  <2>2. ASSUME NEW c \in Nodes, StillNeeded(c) PROVE Needed(c)
    <3>1. left[c] > 0 /\ ct'[c] = 0 /\ c # n
      BY <2>2 DEF StillNeeded
    <3>2. left[c] # 0
      BY <3>1
    <3>3. ct'[c] = ct[c]
      BY <3>1, <3>2
    <3>4. QED BY <3>1, <3>3 DEF Needed
  <2>3. work' = work /\ b \in {b, b + 1} /\ b \in 1..Len(stack[t]) /\ Changes(t, b, b)
    BY <1>2, <1>7
  <2>4. \A m \in Nodes : Pending(m)' \subseteq Pending(m)
    BY <1>3, <2>1, <2>2, <2>3, PendingStays
  <2>5. QED BY <1>3, <2>4, CountedStays
<1>17. Summed'
  BY <1>3, <1>7, SummedStays DEF Changes
<1>18. owner' \in [Nodes -> 0..NrThreads]
  BY <1>3, <1>4 DEF RunTypes
<1>19. left' \in [Nodes -> Int] /\ growing' \in 0..NrThreads
      /\ sum' \in [0..(add.sizeLimit - 1) -> Ciphertexts]
      /\ work' \in [Threads -> [bit : Nat, place : Int]]
  BY <1>4 DEF Running, Planned, RunTypes
<1>20. Threads' = Threads /\ stack' \in [Threads -> Seq(AFrame)]
  BY <1>7 DEF Changes
<1>21. QED BY <1>3, <1>7, <1>13, <1>14, <1>15, <1>16, <1>17, <1>18, <1>19, <1>20, RunningStays

\* The threads other than t stay in their calls.
OthersStay(t) == Threads' = Threads /\ \A u \in Threads \ {t} : stack'[u] = stack[u]

\* The cells that other threads have taken are those they had.
LEMMA OthersFill ==
  ASSUME Running, NEW t \in Threads, OthersStay(t), ~InStage(t, "fill")',
         NEW u \in Threads, InStage(u, "fill")'
  PROVE  /\ u # t /\ Last(u)' = Last(u) /\ InStage(u, "fill")
         /\ Last(u).cell \in DOMAIN cells /\ cells[Last(u).cell].used /\ Last(u).cell # 0
         /\ \A n \in Nodes : ct[n] # Last(u).cell
         /\ \A v \in Threads \ {u} : InStage(v, "fill")' => Last(v)'.cell # Last(u).cell
<1>1. u # t
  OBVIOUS
<1>2. ASSUME NEW v \in Threads, v # t PROVE Last(v)' = Last(v) /\ (InStage(v, "fill")' <=> InStage(v, "fill"))
  <2>1. stack'[v] = stack[v]
    BY <1>2 DEF OthersStay
  <2>2. QED BY <2>1 DEF InStage, Last
<1>3. Filling
  BY DEF Running, Run
<1>4. InStage(u, "fill") /\ Last(u)' = Last(u)
  BY <1>1, <1>2
<1>5. /\ Last(u).cell \in DOMAIN cells /\ cells[Last(u).cell].used
      /\ \A n \in Nodes : ct[n] # Last(u).cell
      /\ \A v \in Threads \ {u} : InStage(v, "fill") => Last(v).cell # Last(u).cell
  BY <1>3, <1>4 DEF Filling
<1>6. ASSUME NEW v \in Threads \ {u}, InStage(v, "fill")' PROVE Last(v)'.cell # Last(u).cell
  <2>1. v # t
    BY <1>6
  <2>2. QED BY <1>2, <1>5, <1>6, <2>1
<1>7. Last(u).cell # 0
  <2>1. stack[u] # <<>>
    BY <1>4 DEF InStage
  <2>2. QED BY <2>1, TopCall
<1>8. QED BY <1>1, <1>4, <1>5, <1>6, <1>7

\* Fill keeps the invariant (binaryArith.cpp:388-420).
LEMMA FillRuns ==
  ASSUME Running, NEW t \in Threads, stack[t] # <<>>, NEW n, n = Last(t).node, Fill(t, n)
  PROVE  Running'
<1>0. PICK c : c = Last(t).cell
  OBVIOUS
<1> DEFINE v == IF ~IsSource(n) THEN TimesCtxt(Content(Parent2(n)), Content(Parent1(n)))
                ELSE IF n.kind = "q" THEN TimesCtxt(Value(add.b, n.i), Value(add.a, n.j))
                ELSE PlusCtxt(Value(add.b, n.i), Value(add.a, n.j))
<1>1. /\ Last(t).stage = "fill" /\ ~raced'
      /\ ct' = [ct EXCEPT ![n] = c] /\ cells' = [cells EXCEPT ![c].ctxt = v]
      /\ Unlock(Parents(n)) /\ Becomes(t, 1, <<Frame(n, "done")>>)
      /\ UNCHANGED <<add, plan, left, growing, raced, sum, work>>
  BY <1>0 DEF Fill, At, Running, Parents
<1>2. /\ n \in Nodes /\ Ready(Last(t)) /\ c \in Nat \ {0} /\ c = Last(t).cell
  BY <1>0, TopCall
<1>3. /\ c \in DOMAIN cells /\ cells[c].used /\ \A x \in Nodes : ct[x] # c
      /\ \A u \in Threads \ {t} : InStage(u, "fill") => Last(u).cell # c
      /\ cells \in Seq(Cell) /\ ct \in [Nodes -> Nat] /\ CellsApart /\ Contents
  <2>1. Filling /\ InStage(t, "fill")
    BY <1>1 DEF InStage, Running, Run
  <2>2. QED BY <1>2, <2>1 DEF Filling, Running, Run, RunTypes
<1>4. v \in Ciphertexts /\ Number(v) = Meaning(n)
  <2>1. CASE ~IsSource(n)
    <3>1. Parent1(n) \in Parents(n) /\ Parent2(n) \in Parents(n) /\ Holds(Last(t), Parent1(n)) /\ Holds(Last(t), Parent2(n))
      BY <1>1, <2>1 DEF Parents, Holds, Computing, Waiting
    <3>2. ct[Parent1(n)] # 0 /\ ct[Parent2(n)] # 0
      BY <1>2, <3>1 DEF Ready
    <3>3. QED BY <1>2, <2>1, <3>2, ParentsMultiplied
  <2>2. CASE IsSource(n)
    <3> DEFINE x == Value(add.a, n.j)
               y == Value(add.b, n.i)
    <3>1. n.i = n.j /\ Meaning(n) = Start(n) % RING /\ n.i \in Nat /\ n.j \in Nat
      BY <1>2, <2>2, Sourced, Nodal
    <3>2. x \in Ciphertexts /\ y \in Ciphertexts
      BY <3>1, Values DEF Running, Operands
    <3>3. Start(n) = IF n.kind = "p" THEN Number(x) + Number(y) ELSE Number(x) * Number(y)
      BY <3>1 DEF Start, X
    <3>4. n.kind \in Kinds
      BY <1>2, Nodal, Fields DEF Running
    <3> HIDE DEF x, y
    <3>5. /\ PlusCtxt(y, x) \in Ciphertexts /\ Number(PlusCtxt(y, x)) = (Number(y) + Number(x)) % RING
          /\ TimesCtxt(y, x) \in Ciphertexts /\ Number(TimesCtxt(y, x)) = (Number(y) * Number(x)) % RING
          /\ Number(y) * Number(x) = Number(x) * Number(y)
      BY <3>2, Combined
    <3>6. Number(y) + Number(x) = Number(x) + Number(y)
      <4>1. Number(y) \in 0..(RING - 1) /\ Number(x) \in 0..(RING - 1)
        BY <3>2, Numbers
      <4>2. QED BY <4>1, DagAssumption
    <3>7. v = IF n.kind = "q" THEN TimesCtxt(y, x) ELSE PlusCtxt(y, x)
      BY <2>2 DEF x, y
    <3> HIDE DEF v
    <3>8. CASE n.kind = "q"
      BY <3>1, <3>3, <3>5, <3>7, <3>8
    <3>9. CASE n.kind = "p"
      BY <3>1, <3>3, <3>5, <3>6, <3>7, <3>9
    <3>10. QED BY <3>4, <3>8, <3>9 DEF Kinds
  <2>3. QED BY <2>1, <2>2
<1> HIDE DEF v
<1>5. Steady
  BY <1>1 DEF Steady, Nodes
<1>6. Threads' = Threads /\ ~InStage(t, "fill")' /\ OthersStay(t)
  <2> DEFINE f == Frame(n, "done")
  <2>1. f \in AFrame /\ f.node = n /\ f.stage = "done"
    BY <1>2, Frames DEF Stages
  <2>2. Becomes(t, 1, <<f>>)
    BY <1>1
  <2> HIDE DEF f
  <2>3. PICK b : b = Len(stack[t])
    OBVIOUS
  <2>4. b \in 1..Len(stack[t]) /\ stack[t][b].node = n /\ Settles(t, b, f)
    BY <2>2, <2>3, TopCall DEF Becomes, Settles
  <2>5. Changes(t, b, b) /\ Last(t)' = f
    BY <1>1, <1>5, <2>1, <2>4, Settled DEF Waiting
  <2>6. QED BY <2>1, <2>5 DEF InStage, Changes, OthersStay
<1>7. \A x \in Nodes : ct'[x] = IF x = n THEN c ELSE ct[x]
  BY <1>1, <1>3
<1>8. /\ cells' \in Seq(Cell) /\ DOMAIN cells' = DOMAIN cells /\ cells'[c].ctxt = v
      /\ \A d \in DOMAIN cells : cells'[d].used = cells[d].used /\ (d # c => cells'[d] = cells[d])
  <2> DEFINE e == [cells[c] EXCEPT !.ctxt = v]
  <2>1. c \in 1..Len(cells) /\ cells[c] \in Cell
    BY <1>3
  <2>2. e \in Cell /\ cells' = [cells EXCEPT ![c] = e] /\ e.ctxt = v /\ e.used = cells[c].used
    BY <1>1, <1>4, <2>1 DEF Cell
  <2> HIDE DEF e
  <2>3. cells' \in Seq(Cell) /\ DOMAIN cells' = DOMAIN cells
    BY <1>3, <2>1, <2>2
  <2>4. \A d \in DOMAIN cells : cells'[d] = IF d = c THEN e ELSE cells[d]
    BY <2>2
  <2>5. QED BY <1>3, <2>2, <2>3, <2>4
<1>9. CellsApart'
  <2>1. SUFFICES ASSUME NEW x \in Nodes, ct'[x] # 0
        PROVE ct'[x] \in DOMAIN cells' /\ cells'[ct'[x]].used /\ \A m \in Nodes \ {x} : ct'[m] # ct'[x]
    BY <1>5 DEF CellsApart, Steady
  <2>2. CASE x = n
    BY <1>3, <1>7, <1>8, <2>2
  <2>3. CASE x # n
    <3>1. ct'[x] = ct[x] /\ ct[x] # 0
      BY <1>7, <2>1, <2>3
    <3>2. ct[x] \in DOMAIN cells /\ cells[ct[x]].used /\ \A m \in Nodes \ {x} : ct[m] # ct[x]
      BY <1>3, <3>1 DEF CellsApart
    <3>3. QED BY <1>3, <1>7, <1>8, <3>1, <3>2
  <2>4. QED BY <2>2, <2>3
<1>10. Contents'
  <2>1. SUFFICES ASSUME NEW x \in Nodes, ct'[x] # 0 PROVE Number(cells'[ct'[x]].ctxt) = Meaning(x)
    <3>1. \A x : Meaning(x)' = Meaning(x)
      BY <1>1, MeaningStays
    <3>2. QED BY <1>5, <2>1, <3>1 DEF Contents, Content, Number, Steady
  <2>2. CASE x = n
    BY <1>4, <1>7, <1>8, <2>2
  <2>3. CASE x # n
    <3>1. ct'[x] = ct[x] /\ ct[x] # 0 /\ ct[x] # c
      BY <1>3, <1>7, <2>1, <2>3
    <3>2. ct[x] \in DOMAIN cells /\ Number(Content(x)) = Meaning(x)
      BY <1>3, <3>1 DEF CellsApart, Contents
    <3>3. QED BY <1>8, <3>1, <3>2 DEF Content
  <2>4. QED BY <2>2, <2>3
<1>11. Filling'
  <2>1. SUFFICES ASSUME NEW u \in Threads, InStage(u, "fill")'
        PROVE  /\ Last(u)'.cell \in DOMAIN cells' /\ cells'[Last(u)'.cell].used
               /\ \A x \in Nodes : ct'[x] # Last(u)'.cell
               /\ \A w \in Threads \ {u} : InStage(w, "fill")' => Last(w)'.cell # Last(u)'.cell
    BY <1>5, <1>6 DEF Filling, Steady
  <2>2. /\ u # t /\ Last(u)' = Last(u) /\ InStage(u, "fill")
        /\ Last(u).cell \in DOMAIN cells /\ cells[Last(u).cell].used
        /\ \A x \in Nodes : ct[x] # Last(u).cell
        /\ \A w \in Threads \ {u} : InStage(w, "fill")' => Last(w)'.cell # Last(u).cell
    BY <1>6, <2>1, OthersFill
  <2>3. Last(u).cell # c
    BY <1>3, <2>2
  <2>4. QED BY <1>7, <1>8, <2>2, <2>3
<1>12. ct' \in [Nodes -> Nat] /\ ct'[n] # 0
  BY <1>1, <1>2, <1>3
<1>13. \A x \in Nodes \ ({n} \union Parents(n)) : ct'[x] = ct[x]
  BY <1>7
<1>14. \A x \in Parents(n) : ct'[x] = ct[x]
  <2>1. n \notin Parents(n) /\ \A x \in Parents(n) : x \in Nodes
    BY <1>2, Nodal DEF Parents
  <2>2. QED BY <1>7, <2>1
<1>15. Last(t).stage \in {"multiply", "fill"} /\ \A x \in Parents(n) : ct'[x] = ct[x] \/ left[x] = 0
  BY <1>1, <1>14
<1>16. cells' \in Seq(Cell)
  BY <1>8
<1>17. QED BY <1>1, <1>9, <1>10, <1>11, <1>12, <1>13, <1>15, <1>16, ComputedRuns

\* A cell that no node has any more may be taken by others.
LEMMA ReuseRuns ==
  ASSUME Running, ~raced', NEW t \in Threads, stack[t] # <<>>, NEW n, n = Last(t).node,
         Last(t).stage = "multiply", NEW kept, NEW other, Reuse(t, n, kept, other), left[kept] = 0,
         {kept, other} = Parents(n), kept # other, ~IsSource(n),
         LET v == TimesCtxt(Content(kept), Content(other)) IN v \in Ciphertexts /\ Number(v) = Meaning(n),
         UNCHANGED <<add, plan, left, growing, sum, work>>
  PROVE  Running'
<1> DEFINE v == TimesCtxt(Content(kept), Content(other))
           free == left[other] = 0
<1>0. PICK c, d : c = ct[kept] /\ d = ct[other]
  OBVIOUS
<1>1. /\ ct' = [ct EXCEPT ![n] = c, ![kept] = 0, ![other] = IF free THEN 0 ELSE @]
      /\ cells' = [Freed(IF free THEN {d} ELSE {}) EXCEPT ![c].ctxt = v]
      /\ Unlock({kept, other}) /\ Becomes(t, 1, <<Frame(n, "done")>>)
  BY <1>0 DEF Reuse
<1>2. v \in Ciphertexts /\ Number(v) = Meaning(n)
  OBVIOUS
<1> HIDE DEF v
<1>3. n \in Nodes /\ Ready(Last(t))
  BY TopCall
<1>4. kept \in Nodes /\ other \in Nodes /\ n # kept /\ n # other
  <2>1. \A x \in Parents(n) : x \in Nodes /\ x # n
    BY <1>3, Nodal DEF Parents
  <2>2. kept \in Parents(n) /\ other \in Parents(n)
    OBVIOUS
  <2>3. QED BY <1>3, <2>1, <2>2
<1>5. ct[kept] # 0 /\ ct[other] # 0
  <2>1. Holds(Last(t), kept) /\ Holds(Last(t), other) /\ kept \in Parents(n) /\ other \in Parents(n)
    BY DEF Parents, Holds, Computing, Waiting
  <2>2. QED BY <1>3, <2>1 DEF Ready
<1>6. cells \in Seq(Cell) /\ ct \in [Nodes -> Nat] /\ CellsApart /\ Contents
  BY DEF Running, Run, RunTypes
<1>7. /\ c \in DOMAIN cells /\ cells[c].used /\ d \in DOMAIN cells /\ cells[d].used /\ c # d /\ c \in Nat /\ c # 0
      /\ \A x \in Nodes \ {kept} : ct[x] # c
      /\ \A x \in Nodes \ {other} : ct[x] # d
  BY <1>0, <1>4, <1>5, <1>6 DEF CellsApart
<1>8. Steady
  BY DEF Steady, Nodes
<1>9. Threads' = Threads /\ ~InStage(t, "fill")' /\ OthersStay(t)
  <2> DEFINE f == Frame(n, "done")
  <2>1. f \in AFrame /\ f.node = n /\ f.stage = "done"
    BY <1>3, Frames DEF Stages
  <2>2. Becomes(t, 1, <<f>>)
    BY <1>1
  <2> HIDE DEF f
  <2>3. PICK b : b = Len(stack[t])
    OBVIOUS
  <2>4. b \in 1..Len(stack[t]) /\ stack[t][b].node = n /\ Settles(t, b, f)
    BY <2>2, <2>3, TopCall DEF Becomes, Settles
  <2>5. Changes(t, b, b) /\ Last(t)' = f
    BY <1>8, <2>1, <2>4, Settled DEF Waiting
  <2>6. QED BY <2>1, <2>5 DEF InStage, Changes, OthersStay
<1>10. /\ ct' \in [Nodes -> Nat]
       /\ \A x \in Nodes : ct'[x] = IF x = n THEN c ELSE IF x = kept \/ (x = other /\ free) THEN 0 ELSE ct[x]
  <2> HIDE DEF free
  <2>1. ct' = [x \in Nodes |-> IF x = n THEN c ELSE IF x = kept \/ (x = other /\ free) THEN 0 ELSE ct[x]]
    BY <1>1, <1>4, <1>6
  <2>2. QED BY <1>6, <1>7, <2>1
<1>11. /\ cells' \in Seq(Cell) /\ DOMAIN cells' = DOMAIN cells /\ cells'[c].ctxt = v /\ cells'[c].used
       /\ \A e \in DOMAIN cells \ {c} : /\ cells'[e].ctxt = cells[e].ctxt
                                        /\ e # d \/ ~free => cells'[e].used = cells[e].used
  <2> DEFINE F == Freed(IF free THEN {d} ELSE {})
             g == [F[c] EXCEPT !.ctxt = v]
  <2> HIDE DEF free
  <2>1. F = [e \in DOMAIN cells |-> IF free /\ e = d THEN [cells[e] EXCEPT !.used = FALSE] ELSE cells[e]]
    BY DEF Freed
  <2>2. \A e \in DOMAIN cells : cells[e] \in Cell
    BY <1>6
  <2>3. \A e \in DOMAIN cells : /\ F[e] \in Cell /\ F[e].ctxt = cells[e].ctxt
                                /\ e # d \/ ~free => F[e] = cells[e]
    BY <2>1, <2>2 DEF Cell
  <2>4. DOMAIN F = 1..Len(cells) /\ Len(cells) \in Nat
    BY <1>6, <2>1
  <2>5. F \in Seq(Cell)
    <3> HIDE DEF F
    <3>1. F \in [1..Len(cells) -> Cell]
      <4>1. F = [e \in DOMAIN cells |-> F[e]]
        BY <2>1
      <4>2. QED BY <1>6, <2>3, <2>4, <4>1
    <3>2. QED BY <2>4, <3>1, SeqDef
  <2>6. F[c] \in Cell /\ F[c] = cells[c]
    BY <1>7, <2>3
  <2> HIDE DEF F
  <2>7. g \in Cell /\ g.ctxt = v /\ g.used = cells[c].used
    BY <1>2, <2>6 DEF Cell
  <2>8. cells' = [F EXCEPT ![c] = g]
    BY <1>1 DEF F
  <2> HIDE DEF g
  <2>9. c \in 1..Len(cells) /\ DOMAIN cells = 1..Len(cells)
    BY <1>6, <1>7
  <2>10. cells' \in Seq(Cell) /\ DOMAIN cells' = DOMAIN cells
    <3>1. cells' \in [1..Len(cells) -> Cell]
      <4>1. F \in [1..Len(cells) -> Cell]
        BY <2>4, <2>5
      <4>2. QED BY <2>7, <2>8, <4>1
    <3>2. QED BY <2>4, <2>9, <3>1, SeqDef
  <2>11. \A e \in DOMAIN cells : cells'[e] = IF e = c THEN g ELSE F[e]
    BY <2>4, <2>8, <2>9
  <2>12. QED BY <1>7, <2>3, <2>7, <2>10, <2>11
<1> HIDE DEF free
<1>12. CellsApart'
  <2>1. SUFFICES ASSUME NEW x \in Nodes, ct'[x] # 0
        PROVE ct'[x] \in DOMAIN cells' /\ cells'[ct'[x]].used /\ \A m \in Nodes \ {x} : ct'[m] # ct'[x]
    BY <1>8 DEF CellsApart, Steady
  <2>2. CASE x = n
    BY <1>7, <1>10, <1>11, <2>2
  <2>3. CASE x # n
    <3>1. ct'[x] = ct[x] /\ ct[x] # 0 /\ x # kept /\ ~(x = other /\ free)
      BY <1>10, <2>1, <2>3
    <3>2. ct[x] \in DOMAIN cells /\ cells[ct[x]].used /\ \A m \in Nodes \ {x} : ct[m] # ct[x]
      BY <1>6, <3>1 DEF CellsApart
    <3>3. ct[x] # c /\ (ct[x] # d \/ ~free)
      BY <1>7, <3>1
    <3>4. QED BY <1>7, <1>10, <1>11, <3>1, <3>2, <3>3
  <2>4. QED BY <2>2, <2>3
<1>13. Contents'
  <2>1. SUFFICES ASSUME NEW x \in Nodes, ct'[x] # 0 PROVE Number(cells'[ct'[x]].ctxt) = Meaning(x)
    <3>1. \A x : Meaning(x)' = Meaning(x)
      BY MeaningStays
    <3>2. QED BY <1>8, <2>1, <3>1 DEF Contents, Content, Number, Steady
  <2>2. CASE x = n
    BY <1>2, <1>10, <1>11, <2>2
  <2>3. CASE x # n
    <3>1. ct'[x] = ct[x] /\ ct[x] # 0 /\ x # kept
      BY <1>10, <2>1, <2>3
    <3>2. ct[x] \in DOMAIN cells /\ Number(Content(x)) = Meaning(x) /\ ct[x] # c
      BY <1>6, <1>7, <3>1 DEF CellsApart, Contents
    <3>3. QED BY <1>11, <3>1, <3>2 DEF Content
  <2>4. QED BY <2>2, <2>3
<1>14. Filling'
  <2>1. SUFFICES ASSUME NEW u \in Threads, InStage(u, "fill")'
        PROVE  /\ Last(u)'.cell \in DOMAIN cells' /\ cells'[Last(u)'.cell].used
               /\ \A x \in Nodes : ct'[x] # Last(u)'.cell
               /\ \A w \in Threads \ {u} : InStage(w, "fill")' => Last(w)'.cell # Last(u)'.cell
    BY <1>8, <1>9 DEF Filling, Steady
  <2>2. /\ Last(u)' = Last(u) /\ Last(u).cell # 0
        /\ Last(u).cell \in DOMAIN cells /\ cells[Last(u).cell].used
        /\ \A x \in Nodes : ct[x] # Last(u).cell
        /\ \A w \in Threads \ {u} : InStage(w, "fill")' => Last(w)'.cell # Last(u).cell
    BY <1>9, <2>1, OthersFill
  <2>3. Last(u).cell # c /\ Last(u).cell # d
    BY <1>0, <1>4, <2>2
  <2>4. QED BY <1>10, <1>11, <2>2, <2>3
<1>15. ct'[n] # 0 /\ (\A x \in Nodes \ ({n} \union Parents(n)) : ct'[x] = ct[x])
       /\ \A x \in Parents(n) : ct'[x] = ct[x] \/ left[x] = 0
  BY <1>3, <1>4, <1>7, <1>10 DEF free
<1>16. Unlock(Parents(n)) /\ Last(t).stage \in {"multiply", "fill"}
  <2>1. Parents(n) = {kept, other}
    OBVIOUS
  <2>2. QED BY <1>1, <2>1
<1>17. Becomes(t, 1, <<Frame(n, "done")>>) /\ ct' \in [Nodes -> Nat] /\ cells' \in Seq(Cell)
  BY <1>1, <1>10, <1>11
<1>18. QED BY <1>12, <1>13, <1>14, <1>15, <1>16, <1>17, ComputedRuns

\* Multiply keeps the invariant (binaryArith.cpp:372-396).
LEMMA MultiplyRuns ==
  ASSUME Running, ~raced', NEW t \in Threads, stack[t] # <<>>, NEW n, n = Last(t).node, Multiply(t, n)
  PROVE  Running'
<1>1. Last(t).stage = "multiply" /\ UNCHANGED <<add, plan, left, growing, sum, work>>
  BY DEF Multiply, At
<1>2. n \in Nodes /\ ~IsSource(n) /\ Ready(Last(t))
  BY <1>1, TopCall DEF Ready
<1>3. Parents(n) = {Parent1(n), Parent2(n)} /\ Parent1(n) # Parent2(n)
  BY <1>2, Nodal DEF Parents
<1>4. ct[Parent1(n)] # 0 /\ ct[Parent2(n)] # 0
  <2>1. Holds(Last(t), Parent1(n)) /\ Holds(Last(t), Parent2(n))
    BY <1>1, <1>2 DEF Holds, Computing, Waiting
  <2>2. QED BY <1>2, <1>3, <2>1 DEF Ready
<1>5. /\ LET v == TimesCtxt(Content(Parent1(n)), Content(Parent2(n))) IN v \in Ciphertexts /\ Number(v) = Meaning(n)
      /\ LET v == TimesCtxt(Content(Parent2(n)), Content(Parent1(n))) IN v \in Ciphertexts /\ Number(v) = Meaning(n)
  BY <1>2, <1>4, ParentsMultiplied
<1>6. CASE left[Parent1(n)] = 0 /\ Reuse(t, n, Parent1(n), Parent2(n))
  BY <1>1, <1>2, <1>3, <1>5, <1>6, ReuseRuns
<1>7. CASE left[Parent2(n)] = 0 /\ Reuse(t, n, Parent2(n), Parent1(n))
  BY <1>1, <1>2, <1>3, <1>5, <1>7, ReuseRuns
<1>8. CASE Becomes(t, 1, <<Frame(n, "scan")>>) /\ UNCHANGED <<ct, owner, cells, raced>>
  <2> DEFINE f == Frame(n, "scan")
  <2>1. f \in AFrame /\ f.node = n /\ f.stage = "scan"
    BY <1>2, Frames DEF Stages
  <2>2. Becomes(t, 1, <<f>>)
    BY <1>8
  <2> HIDE DEF f
  <2>3. Calm(t, f)
    BY <1>1, <1>8, <2>1, <2>2 DEF Calm, Computing, Waiting
  <2>4. QED BY <1>1, <1>8, <2>1, <2>3, CalmCells
<1>9. QED BY <1>6, <1>7, <1>8 DEF Multiply

--------------------------------------------------------------------------------
(* A node is added to the sum. *)

\* Thread t adds node n, at place k of bit i, and goes on with w.
Finishes(t, n, i, k, w) ==
  /\ Steady /\ left' = [left EXCEPT ![n] = @ - 1] /\ OthersStay(t)
  /\ sum' = [sum EXCEPT ![i] = PlusCtxt(@, Content(n))] /\ growing' = growing
  /\ work' = [work EXCEPT ![t] = w] /\ stack' = [stack EXCEPT ![t] = CallFor(t, w)]
  /\ owner' = [x \in Nodes |-> IF x = n THEN 0 ELSE owner[x]]
  /\ \/ left[n] = 1 /\ cells' = Freed({ct[n]}) /\ ct' = [ct EXCEPT ![n] = 0]
     \/ left[n] # 1 /\ UNCHANGED <<cells, ct>>
  /\ Len(stack[t]) = 1 /\ Last(t) = stack[t][1] /\ Last(t).stage = "done" /\ Last(t).node = n
  /\ n \in Nodes /\ ct[n] # 0
  /\ n = NodeAt([bit |-> i, place |-> k]) /\ n \in Pending(n)
  /\ i \in BitsOf(t) /\ i <= bSize /\ i \in Nat /\ k \in 0..(Places(i) - 1)
  /\ w \in [bit : Nat, place : Int] /\ w.place < Places(w.bit) /\ (w.bit <= bSize => w.place >= 0)
  /\ k > 0 => w.bit = i /\ w.place = k - 1
  /\ k = 0 => w.bit = i + 1 /\ w.place = Places(i + 1) - 1
  /\ CallFor(t, w) \in Seq(AFrame)
  /\ w.bit \in BitsOf(t) /\ w.bit <= bSize =>
       Len(CallFor(t, w)) = 1 /\ CallFor(t, w)[1] = Frame(NodeAt(w), "lock") /\ NodeAt(w) \in Nodes
  /\ ~(w.bit \in BitsOf(t) /\ w.bit <= bSize) => CallFor(t, w) = <<>>

\* The parts of Finish, with the bit and the place it is about.
LEMMA Finishing ==
  ASSUME Running, NEW t \in Threads, stack[t] # <<>>, NEW n, n = Last(t).node, Finish(t, n),
         NEW i, i = work[t].bit, NEW k, k = work[t].place, NEW w, w = Continued(work[t])
  PROVE  Finishes(t, n, i, k, w)
<1>1. /\ UNCHANGED <<add, plan, growing>> /\ left' = [left EXCEPT ![n] = @ - 1]
      /\ sum' = [sum EXCEPT ![i] = PlusCtxt(@, Content(n))]
      /\ work' = [work EXCEPT ![t] = w] /\ stack' = [stack EXCEPT ![t] = CallFor(t, w)]
      /\ \/ left[n] = 1 /\ cells' = Freed({ct[n]}) /\ ct' = [ct EXCEPT ![n] = 0]
         \/ left[n] # 1 /\ UNCHANGED <<cells, ct>>
      /\ Len(stack[t]) = 1 /\ Last(t).stage = "done"
  BY DEF Finish, At
<1>2. owner' = [x \in Nodes |-> IF x = n THEN 0 ELSE owner[x]]
  BY DEF Finish, Unlock
<1>3. Steady /\ OthersStay(t)
  BY <1>1 DEF Steady, Nodes, OthersStay, Threads
<1>4. Last(t) = stack[t][1] /\ n \in Nodes /\ ct[n] # 0
  BY <1>1, TopCall DEF Ready
<1>5. /\ i \in BitsOf(t) /\ i <= bSize /\ i \in Nat /\ k \in 0..(Places(i) - 1)
      /\ work[t] = [bit |-> i, place |-> k] /\ n = NodeAt(work[t]) /\ n \in Pending(n)
  BY <1>4, AddedNext
<1>6. Operands /\ Planned /\ next.kind = "q" /\ next.j < 0 /\ t \in 1..NrThreads /\ Places(i) \in Nat
  BY <1>5, Typed, PlacesOfBits DEF Running
<1>7. k > 0 => w = [bit |-> i, place |-> k - 1]
  BY <1>5 DEF Continued
<1>8. k = 0 => w = BeginBit(i + 1)
  BY <1>5 DEF Continued
<1>9. /\ w \in [bit : Nat, place : Int] /\ w.place < Places(w.bit) /\ (w.bit <= bSize => w.place >= 0)
      /\ k > 0 => w.bit = i /\ w.place = k - 1
      /\ k = 0 => w.bit = i + 1 /\ w.place = Places(i + 1) - 1
  <2>1. CASE k > 0
    BY <1>5, <1>6, <1>7, <2>1
  <2>2. CASE k = 0
    <3>1. i + 1 \in Nat
      BY <1>5
    <3>2. QED BY <1>6, <1>8, <2>2, <3>1, Begun
  <2>3. QED BY <1>5, <2>1, <2>2
<1>10. /\ CallFor(t, w) \in Seq(AFrame)
       /\ w.bit \in BitsOf(t) /\ w.bit <= bSize =>
            Len(CallFor(t, w)) = 1 /\ CallFor(t, w)[1] = Frame(NodeAt(w), "lock") /\ NodeAt(w) \in Nodes
       /\ ~(w.bit \in BitsOf(t) /\ w.bit <= bSize) => CallFor(t, w) = <<>>
  BY <1>6, <1>9, Called
<1>11. QED BY <1>1, <1>2, <1>3, <1>4, <1>5, <1>9, <1>10 DEF Finishes

\* Finish takes one reader and one of the children left.
LEMMA FinishCounts ==
  ASSUME Running, NEW t \in Threads, stack[t] # <<>>, NEW n, n = Last(t).node, Finish(t, n)
  PROVE  Counted'
<1>0. PICK i, k, w : i = work[t].bit /\ k = work[t].place /\ w = Continued(work[t])
  OBVIOUS
<1>1. /\ Steady /\ left' = [left EXCEPT ![n] = @ - 1] /\ OthersStay(t)
      /\ work' = [work EXCEPT ![t] = w]
      /\ \/ left[n] = 1 /\ ct' = [ct EXCEPT ![n] = 0]
         \/ left[n] # 1 /\ UNCHANGED <<cells, ct>>
      /\ Len(stack[t]) = 1 /\ Last(t) = stack[t][1] /\ Last(t).stage = "done" /\ n \in Nodes /\ ct[n] # 0
      /\ n = NodeAt([bit |-> i, place |-> k]) /\ n \in Pending(n)
      /\ i \in BitsOf(t) /\ i <= bSize /\ i \in Nat /\ k \in 0..(Places(i) - 1)
      /\ k > 0 => w.bit = i /\ w.place = k - 1
      /\ k = 0 => w.bit = i + 1 /\ w.place = Places(i + 1) - 1
  <2>1. Finishes(t, n, i, k, w)
    BY <1>0, Finishing
  <2>2. QED BY <2>1 DEF Finishes
<1>2. Threads = 1..NrThreads /\ Operands /\ RunTypes /\ ct \in [Nodes -> Nat] /\ left \in [Nodes -> Int]
  BY Typed DEF RunTypes, Running, Planned
<1>3. /\ \A u : BitsOf(u)' = BitsOf(u)
      /\ \A j : Places(j)' = Places(j)
      /\ \A v : NodeAt(v)' = NodeAt(v)
      /\ \A x : Parents(x)' = Parents(x)
      /\ \A f, x : Holds(f, x)' <=> Holds(f, x)
  BY <1>1, AdditionStays, PlanStays DEF Steady
<1>4. \A u \in Threads : \A j \in BitsOf(u) : j \in Nat
  BY <1>2, BitsApart
<1>5. Places(i) \in Nat /\ k \in Nat
  BY <1>1, <1>2, PlacesOfBits
<1>6. ASSUME NEW u \in Threads, NEW j \in BitsOf(u), NEW l \in 0..(Places(j) - 1), Ahead(u, j, l)'
      PROVE  Ahead(u, j, l) /\ ~(u = t /\ j = i /\ l = k)
  <2>1. CASE u # t
    <3>1. work'[u] = work[u]
      BY <1>1, <2>1
    <3>2. QED BY <1>6, <2>1, <3>1 DEF Ahead
  <2>2. CASE u = t
    <3>1. work'[t] = w
      BY <1>1, <1>2 DEF RunTypes
    <3>2. j > w.bit \/ (j = w.bit /\ l <= w.place)
      BY <1>6, <2>2, <3>1 DEF Ahead
    <3>3. j \in Nat /\ l \in Int /\ i \in Nat /\ k \in Nat
      BY <1>1, <1>4, <1>5
    <3>4. CASE k > 0
      BY <1>0, <1>1, <2>2, <3>2, <3>3, <3>4 DEF Ahead
    <3>5. CASE k = 0
      BY <1>0, <1>1, <2>2, <3>2, <3>3, <3>5 DEF Ahead
    <3>6. QED BY <1>5, <3>4, <3>5
  <2>3. QED BY <2>1, <2>2
<1>7. ASSUME NEW m, InWork(m)' PROVE InWork(m) /\ m # n
  <2>0. PICK u \in Threads : \E j \in BitsOf(u) : \E l \in 0..(Places(j) - 1) :
          Ahead(u, j, l)' /\ m = NodeAt([bit |-> j, place |-> l])
    BY <1>1, <1>3, <1>7 DEF InWork, OthersStay
  <2>1. PICK j \in BitsOf(u) : \E l \in 0..(Places(j) - 1) :
          Ahead(u, j, l)' /\ m = NodeAt([bit |-> j, place |-> l])
    BY <2>0
  <2>9. PICK l \in 0..(Places(j) - 1) : Ahead(u, j, l)' /\ m = NodeAt([bit |-> j, place |-> l])
    BY <2>1
  <2>2. Ahead(u, j, l) /\ ~(u = t /\ j = i /\ l = k)
    BY <1>6, <2>9
  <2>3. InWork(m)
    BY <2>9, <2>2 DEF InWork
  <2>4. ASSUME m = n PROVE FALSE
    <3>1. j \in Nat
      BY <1>4
    <3>2. j = i /\ l = k
      BY <1>1, <1>2, <2>9, <2>4, <3>1, NodesApart
    <3>3. u = t
      BY <1>1, <1>2, <3>2, BitsApart
    <3>4. QED BY <2>2, <3>2, <3>3
  <2>5. QED BY <2>3, <2>4
<1>8. n \notin Parents(n)
  BY <1>1, Nodal
<1>9. ASSUME NEW c \in Nodes, NEW m \in Parents(c), Past(c, m) PROVE Past(c, m)'
  <2>0. PICK u \in Threads : \E l \in DOMAIN stack[u] : stack[u][l].node = c /\ Holds(stack[u][l], m)
    BY <1>9 DEF Past
  <2>1. PICK l \in DOMAIN stack[u] : stack[u][l].node = c /\ Holds(stack[u][l], m)
    BY <2>0
  <2>2. CASE u = t
    <3>1. l = 1
      BY <1>1, <2>2, Typed
    <3>2. c = n /\ m = n
      BY <1>1, <2>1, <2>2, <3>1 DEF Holds, Computing
    <3>3. QED BY <1>8, <1>9, <3>2
  <2>3. CASE u # t
    <3>1. stack'[u] = stack[u] /\ u \in Threads'
      BY <1>1, <2>3 DEF OthersStay
    <3>2. QED BY <1>3, <2>1, <3>1 DEF Past
  <2>4. QED BY <2>2, <2>3
<1>10. ASSUME NEW c \in Nodes, StillNeeded(c) PROVE Needed(c)
  <2>1. CASE c = n
    BY <1>1, <1>2, <1>10, <2>1 DEF StillNeeded, Needed
  <2>2. CASE c # n
    BY <1>1, <1>2, <1>10, <2>2 DEF StillNeeded, Needed
  <2>3. QED BY <2>1, <2>2
<1>11. ASSUME NEW m \in Nodes PROVE Pending(m)' \subseteq Pending(m)
  BY <1>1, <1>3, <1>7, <1>9, <1>10 DEF Pending, Steady, Needed, StillNeeded
<1>12. n \notin Pending(n)'
  <2>1. ~InWork(n)'
    BY <1>7
  <2>2. n \notin Parents(n)'
    BY <1>3, <1>8
  <2>3. QED BY <2>1, <2>2 DEF Pending
<1>13. QED BY <1>1, <1>11, <1>12, CountedDown

\* What is added to bit i and what is still to be added make the bit.
AddsTo(i, k) ==
  /\ sum' \in [0..(add.sizeLimit - 1) -> Ciphertexts]
  /\ \A j \in 0..(add.sizeLimit - 1) : j # i => sum'[j] = sum[j]
  /\ i \in 0..(add.sizeLimit - 1) /\ Number(sum'[i]) \in 0..(RING - 1)
  /\ (Number(sum'[i]) + CarriesBelow(i)[k]) % RING = SumBit(i)

\* Finish adds to the bit what was missing of the carries at its place.
LEMMA AddsUp ==
  ASSUME Running, NEW t \in Threads, NEW n, NEW i, NEW k, NEW w, Finishes(t, n, i, k, w),
         i = work[t].bit, k = work[t].place
  PROVE  AddsTo(i, k)
<1>1. /\ sum' = [sum EXCEPT ![i] = PlusCtxt(@, Content(n))] /\ n \in Nodes /\ ct[n] # 0
      /\ n = NodeAt([bit |-> i, place |-> k])
      /\ i \in BitsOf(t) /\ i <= bSize /\ i \in Nat /\ k \in 0..(Places(i) - 1)
  BY DEF Finishes
<1>2. /\ Operands /\ t \in 1..NrThreads /\ sum \in [0..(add.sizeLimit - 1) -> Ciphertexts] /\ Places(i) \in Nat
      /\ i \in 0..(add.sizeLimit - 1)
  BY <1>1, Typed, BitsApart, PlacesOfBits DEF RunTypes
<1> DEFINE x == sum[i]
           y == Content(n)
           s == Number(x)
           m == Meaning(n)
           c == CarriesBelow(i)[k]
<1>3. x \in Ciphertexts /\ y \in Ciphertexts /\ Number(y) = m
  <2>1. ct[n] \in DOMAIN cells /\ cells \in Seq(Cell) /\ Number(Content(n)) = Meaning(n)
    BY <1>1 DEF Running, Run, CellsApart, Contents, RunTypes
  <2>2. cells[ct[n]] \in Cell
    BY <2>1
  <2>3. QED BY <1>2, <2>1, <2>2 DEF Content, Cell
<1>4. n \in AllNodes /\ m \in 0..(RING - 1)
  BY <1>1, Nodal, <1>2, Meanings
<1>5. /\ CarriesBelow(i) \in [0..i -> 0..(RING - 1)] /\ CarriesBelow(i)[0] = 0
      /\ \A l \in 0..(i - 1) : CarriesBelow(i)[l + 1] = (CarriesBelow(i)[l] + Meaning(QNode(i - 1, l))) % RING
  BY <1>1, <1>2, CarrySums
<1>6. /\ k = Carries(i) => n = [kind |-> "p", i |-> i, j |-> i]
      /\ k # Carries(i) => k < i /\ n = [kind |-> "q", i |-> i - 1, j |-> k]
      /\ k <= Carries(i) /\ Carries(i) \in 0..i
  BY <1>1, <1>2, NodesOfBits, PlacesOfBits
<1>7. k \in 0..i /\ k \in Nat
  BY <1>1, <1>6
<1>8. c \in 0..(RING - 1)
  <2> HIDE DEF Running
  <2>1. CarriesBelow(i)[k] \in 0..(RING - 1)
    BY <1>5, <1>7
  <2>2. QED BY <2>1
<1>9. /\ k = Carries(i) => x = Empty
      /\ k # Carries(i) => (s + CarriesBelow(i)[k + 1]) % RING = SumBit(i)
  BY <1>1 DEF Running, Run, Summed
<1> HIDE DEF x, y, s, m, c
<1>10. Number(PlusCtxt(x, y)) = (s + m) % RING /\ PlusCtxt(x, y) \in Ciphertexts
  BY <1>3, Combined DEF s
<1>11. s \in 0..(RING - 1)
  BY <1>3, Numbers DEF s
<1>12. sum' = [sum EXCEPT ![i] = PlusCtxt(x, y)]
  BY <1>1 DEF x, y
<1>13. /\ sum' \in [0..(add.sizeLimit - 1) -> Ciphertexts] /\ sum'[i] = PlusCtxt(x, y)
       /\ \A j \in 0..(add.sizeLimit - 1) : j # i => sum'[j] = sum[j]
  BY <1>2, <1>10, <1>12
<1>14. Number(sum'[i]) = (s + m) % RING /\ Number(sum'[i]) \in 0..(RING - 1)
  BY <1>10, <1>13, Numbers
<1>15. RING \in Nat \ {0}
  BY DagAssumption
<1>16. (((s + m) % RING) + c) % RING = (s + (c + m)) % RING
  <2>1. s + m \in Nat /\ c \in Nat /\ (s + m) + c = s + (c + m)
    BY <1>4, <1>8, <1>11, <1>15
  <2>2. (((s + m) % RING) + c) % RING = ((s + m) + c) % RING
    BY <1>15, <2>1, ModPlus
  <2>3. QED BY <2>1, <2>2
<1>17. (s + (c + m)) % RING = SumBit(i)
  <2>1. CASE k = Carries(i)
    <3>1. s = 0
      BY <1>9, <2>1 DEF s, Number
    <3>2. m = X(i) % RING /\ X(i) \in Nat
      <4>1. n = [kind |-> "p", i |-> i, j |-> i]
        BY <1>6, <2>1
      <4>2. n.i = n.j /\ n.kind = "p" /\ n.j = i
        BY <4>1
      <4>3. m = Start(n) % RING
        BY <1>2, <1>4, <4>2, Meanings DEF m
      <4>4. Start(n) = X(i)
        BY <4>2 DEF Start
      <4>5. QED BY <1>1, <1>2, <4>3, <4>4, SumsOfBits
    <3>3. SumBit(i) = (X(i) + c) % RING
      BY <2>1 DEF SumBit, Carries, c
    <3>4. ((X(i) % RING) + c) % RING = (X(i) + c) % RING
      BY <1>8, <1>15, <3>2, ModPlus
    <3>5. s + (c + m) = m + c
      BY <1>4, <1>8, <1>15, <3>1
    <3>6. QED BY <3>2, <3>3, <3>4, <3>5
  <2>2. CASE k # Carries(i)
    <3>1. k \in 0..(i - 1) /\ n = QNode(i - 1, k)
      BY <1>1, <1>6, <1>7, <2>2 DEF QNode
    <3>2. CarriesBelow(i)[k + 1] = (c + m) % RING
      BY <1>5, <3>1 DEF c, m
    <3>3. (s + ((c + m) % RING)) % RING = SumBit(i)
      BY <1>9, <2>2, <3>2
    <3>4. c + m \in Nat /\ s \in Nat /\ (c + m) % RING \in Nat
      BY <1>4, <1>8, <1>11, <1>15
    <3>5. (((c + m) % RING) + s) % RING = ((c + m) + s) % RING
      BY <1>15, <3>4, ModPlus
    <3>6. ((c + m) % RING) + s = s + ((c + m) % RING) /\ (c + m) + s = s + (c + m)
      BY <1>15, <3>4
    <3>7. QED BY <3>3, <3>5, <3>6
  <2>3. QED BY <2>1, <2>2
<1>18. QED BY <1>2, <1>13, <1>14, <1>16, <1>17 DEF c, AddsTo

\* The sums stay right, and the next node of the thread is the one that is missing.
LEMMA FinishSums ==
  ASSUME Running, NEW t \in Threads, NEW n, NEW i, NEW k, NEW w, Finishes(t, n, i, k, w),
         i = work[t].bit, k = work[t].place
  PROVE  Summed'
<1>1. /\ Steady /\ Threads' = Threads /\ work' = [work EXCEPT ![t] = w]
      /\ i \in BitsOf(t) /\ i <= bSize /\ i \in Nat /\ k \in 0..(Places(i) - 1)
      /\ w.bit \in Nat /\ w.place \in Int
      /\ k > 0 => w.bit = i /\ w.place = k - 1
      /\ k = 0 => w.bit = i + 1 /\ w.place = Places(i + 1) - 1
  BY DEF Finishes, OthersStay
<1>2. /\ Operands /\ Threads = 1..NrThreads /\ work \in [Threads -> [bit : Nat, place : Int]]
      /\ sum \in [0..(add.sizeLimit - 1) -> Ciphertexts]
  BY Typed DEF RunTypes
<1>3. /\ \A j \in 0..(add.sizeLimit - 1) : j # i => sum'[j] = sum[j]
      /\ Number(sum'[i]) \in 0..(RING - 1)
      /\ (Number(sum'[i]) + CarriesBelow(i)[k]) % RING = SumBit(i)
  <2>1. AddsTo(i, k)
    BY AddsUp
  <2>2. QED BY <2>1 DEF AddsTo
<1>4. /\ \A j : SumBit(j)' = SumBit(j) /\ CarriesBelow(j)' = CarriesBelow(j) /\ Carries(j)' = Carries(j)
      /\ \A u : BitsOf(u)' = BitsOf(u)
      /\ bSize' = bSize
  BY <1>1, SumsStay, AdditionStays DEF Steady, bSize
<1>5. /\ Places(i) \in Nat /\ Carries(i) \in Nat /\ k \in Nat /\ k - 1 # Carries(i)
      /\ bSize \in Nat /\ RING \in Nat \ {0}
  <2>1. /\ Places(i) \in Nat /\ Carries(i) \in 0..i
        /\ (i < bSize => Places(i) = Carries(i) + 1) /\ (i = bSize => Places(i) = Carries(i))
    BY <1>1, <1>2, PlacesOfBits
  <2>2. bSize \in Nat /\ RING \in Nat \ {0}
    BY <1>2, Sizes, DagAssumption
  <2>3. QED BY <1>1, <2>1, <2>2
<1>6. k = 0 => Number(sum'[i]) = SumBit(i)
  <2>1. SUFFICES ASSUME k = 0 PROVE Number(sum'[i]) = SumBit(i)
    OBVIOUS
  <2>2. CarriesBelow(i)[0] = 0
    BY <1>1, <1>2, CarrySums
  <2>3. QED BY <1>3, <1>5, <2>1, <2>2
<1>7. SUFFICES ASSUME NEW u \in Threads, NEW j \in BitsOf(u)
      PROVE  /\ j < work'[u].bit => Number(sum'[j]) = SumBit(j)
             /\ j > work'[u].bit \/ j > bSize => sum'[j] = Empty
             /\ j = work'[u].bit /\ j <= bSize =>
                  IF work'[u].place = Carries(j) THEN sum'[j] = Empty
                  ELSE (Number(sum'[j]) + CarriesBelow(j)[work'[u].place + 1]) % RING = SumBit(j)
  BY <1>1, <1>4 DEF Summed, Number
<1>8. /\ j < work[u].bit => Number(sum[j]) = SumBit(j)
      /\ j > work[u].bit \/ j > bSize => sum[j] = Empty
      /\ j = work[u].bit /\ j <= bSize =>
           IF work[u].place = Carries(j) THEN sum[j] = Empty
           ELSE (Number(sum[j]) + CarriesBelow(j)[work[u].place + 1]) % RING = SumBit(j)
  BY DEF Running, Run, Summed
<1>9. j \in 0..(add.sizeLimit - 1) /\ j \in Nat
  BY <1>2, BitsApart
<1>10. CASE u # t
  <2>1. work'[u] = work[u]
    BY <1>1, <1>10
  <2>2. j # i
    BY <1>1, <1>2, <1>10, BitsApart
  <2>3. sum'[j] = sum[j]
    BY <1>3, <1>9, <2>2
  <2>4. QED BY <1>8, <2>1, <2>3
<1>11. CASE u = t
  <2>1. work'[t] = w
    BY <1>1, <1>2
  <2>2. CASE j < i
    <3>1. sum'[j] = sum[j] /\ Number(sum[j]) = SumBit(j)
      BY <1>1, <1>3, <1>8, <1>9, <1>11, <2>2
    <3>2. j < w.bit /\ j <= bSize
      BY <1>1, <1>5, <1>9, <2>2
    <3>3. QED BY <1>1, <1>5, <1>9, <1>11, <2>1, <3>1, <3>2
  <2>3. CASE j = i
    <3>1. CASE k > 0
      <4>1. w.bit = i /\ w.place = k - 1 /\ (k - 1) + 1 = k
        BY <1>1, <1>5, <3>1
      <4>2. QED BY <1>1, <1>3, <1>5, <1>11, <2>1, <2>3, <4>1
    <3>2. CASE k = 0
      BY <1>1, <1>5, <1>6, <1>11, <2>1, <2>3, <3>2
    <3>3. QED BY <1>5, <3>1, <3>2
  <2>4. CASE j > i
    <3>1. sum[j] = Empty /\ sum'[j] = Empty
      BY <1>1, <1>3, <1>8, <1>9, <1>11, <2>4
    <3>2. ~(j < w.bit)
      BY <1>1, <1>5, <1>9, <2>4
    <3>3. ASSUME j = w.bit, j <= bSize, w.place # Carries(j)
          PROVE  (Number(sum'[j]) + CarriesBelow(j)[w.place + 1]) % RING = SumBit(j)
      <4>1. w.place = Places(j) - 1
        BY <1>1, <1>5, <1>9, <2>4, <3>3
      <4>2. QED BY <1>2, <1>9, <3>1, <3>3, <4>1, BitBegins
    <3>4. QED BY <1>11, <2>1, <3>1, <3>2, <3>3
  <2>5. QED BY <1>1, <1>9, <2>2, <2>3, <2>4
<1>12. QED BY <1>10, <1>11

\* The node is unlocked, and the thread has at most one call, for its next node.
LEMMA FinishLocks ==
  ASSUME Running, NEW t \in Threads, NEW n, NEW i, NEW k, NEW w, Finishes(t, n, i, k, w)
  PROVE  AtWork' /\ Nested' /\ Locked' /\ Growing' /\ Staged' /\ ~InStage(t, "fill")'
<1>1. /\ Steady /\ OthersStay(t) /\ growing' = growing /\ n \in Nodes
      /\ work' = [work EXCEPT ![t] = w] /\ stack' = [stack EXCEPT ![t] = CallFor(t, w)]
      /\ \A x \in Nodes : owner'[x] = IF x = n THEN 0 ELSE owner[x]
      /\ Len(stack[t]) = 1 /\ Last(t) = stack[t][1] /\ Last(t).stage = "done"
      /\ Last(t).node = n
      /\ (ct' = [ct EXCEPT ![n] = 0] \/ ct' = ct)
  BY DEF Finishes
<1>2. /\ i \in BitsOf(t) /\ i \in Nat /\ k \in 0..(Places(i) - 1)
      /\ w \in [bit : Nat, place : Int] /\ w.place < Places(w.bit) /\ (w.bit <= bSize => w.place >= 0)
      /\ k > 0 => w.bit = i
      /\ k = 0 => w.bit = i + 1
  BY DEF Finishes
<1>3. /\ CallFor(t, w) \in Seq(AFrame)
      /\ w.bit \in BitsOf(t) /\ w.bit <= bSize =>
           Len(CallFor(t, w)) = 1 /\ CallFor(t, w)[1] = Frame(NodeAt(w), "lock")
      /\ ~(w.bit \in BitsOf(t) /\ w.bit <= bSize) => CallFor(t, w) = <<>>
  BY DEF Finishes
<1>4. /\ Operands /\ RunTypes /\ Threads = 1..NrThreads /\ Threads' = Threads /\ Nodes' = Nodes
      /\ work \in [Threads -> [bit : Nat, place : Int]] /\ stack \in [Threads -> Seq(AFrame)]
      /\ ct \in [Nodes -> Nat] /\ AtWork /\ Nested /\ Locked /\ Growing /\ Staged
  BY <1>1, Typed DEF RunTypes, OthersStay, Steady, Running, Run
<1>5. /\ \A u : BitsOf(u)' = BitsOf(u) /\ FirstBit(u)' = FirstBit(u)
      /\ \A j : Places(j)' = Places(j)
      /\ \A v : NodeAt(v)' = NodeAt(v)
      /\ \A x : Parents(x)' = Parents(x) /\ IsSource(x)' = IsSource(x)
      /\ \A f, x : Holds(f, x)' <=> Holds(f, x)
      /\ \A f : Callee(f)' = Callee(f)
      /\ bSize' = bSize
  BY <1>1, AdditionStays, PlanStays DEF Steady, bSize
<1>6. stack'[t] = CallFor(t, w) /\ work'[t] = w /\ \A u \in Threads \ {t} : stack'[u] = stack[u] /\ work'[u] = work[u]
  BY <1>1, <1>4
<1>7. \A l \in DOMAIN stack'[t] : l = 1 /\ Len(stack'[t]) = 1 /\ stack'[t][l].stage = "lock"
  BY <1>3, <1>6 DEF Frame
<1>8. stack'[t] # <<>> => Last(t)'.stage = "lock"
  <2>1. stack'[t] # <<>> => Len(stack'[t]) = 1 /\ stack'[t][1].stage = "lock"
    BY <1>3, <1>6 DEF Frame
  <2>2. QED BY <2>1 DEF Last
<1>9. AtWork'
  <2>1. SUFFICES ASSUME NEW u \in Threads
        PROVE  /\ work'[u].bit >= FirstBit(u) /\ work'[u].place < Places(work'[u].bit)
               /\ work'[u].bit \in BitsOf(u) /\ work'[u].bit <= bSize =>
                    work'[u].place >= 0 /\ stack'[u] # <<>> /\ stack'[u][1].node = NodeAt(work'[u])
               /\ ~(work'[u].bit \in BitsOf(u) /\ work'[u].bit <= bSize) => stack'[u] = <<>>
    BY <1>4, <1>5 DEF AtWork, Busy
  <2>2. CASE u = t
    <3>1. w.bit >= FirstBit(t)
      <4>1. i >= FirstBit(t) /\ FirstBit(t) \in Nat
        BY <1>2, <1>4, BitsApart DEF BitsOf
      <4>2. Places(i) \in Nat
        BY <1>2, <1>4, PlacesOfBits
      <4>3. k > 0 \/ k = 0
        BY <1>2, <4>2
      <4>4. QED BY <1>2, <4>1, <4>3
    <3>2. w.bit \in BitsOf(t) /\ w.bit <= bSize => CallFor(t, w) # <<>> /\ CallFor(t, w)[1].node = NodeAt(w)
      BY <1>3 DEF Frame
    <3>3. QED BY <1>2, <1>3, <1>6, <2>2, <3>1, <3>2
  <2>3. CASE u # t
    BY <1>4, <1>6, <2>3 DEF AtWork, Busy
  <2>4. QED BY <2>2, <2>3
<1>10. Nested'
  <2>1. SUFFICES ASSUME NEW u \in Threads, NEW l \in DOMAIN stack'[u]
        PROVE  /\ l < Len(stack'[u]) =>
                    /\ stack'[u][l].stage \in Waiting /\ ~IsSource(stack'[u][l].node)
                    /\ stack'[u][l + 1].node = Callee(stack'[u][l])
               /\ l = Len(stack'[u]) => stack'[u][l].stage \notin Waiting
               /\ \A m \in DOMAIN stack'[u] : l < m => Inside(stack'[u][m].node, Callee(stack'[u][l]))
    <3>1. \A u \in Threads : \A l \in DOMAIN stack'[u] :
               /\ l < Len(stack'[u]) =>
                    /\ stack'[u][l].stage \in Waiting /\ ~IsSource(stack'[u][l].node)
                    /\ stack'[u][l + 1].node = Callee(stack'[u][l])
               /\ l = Len(stack'[u]) => stack'[u][l].stage \notin Waiting
               /\ \A m \in DOMAIN stack'[u] : l < m => Inside(stack'[u][m].node, Callee(stack'[u][l]))
      BY <2>1
    <3>2. \A u : \A l : Callee(stack[u][l])' = Callee(stack'[u][l])
      BY <1>5 DEF Callee, Parent1, Parent2
    <3>3. QED BY <1>4, <1>5, <3>1, <3>2 DEF Nested, Inside, Waiting
  <2>2. CASE u = t
    <3>1. l = 1 /\ Len(stack'[u]) = 1 /\ stack'[u][l].stage = "lock" /\ \A m \in DOMAIN stack'[u] : m = 1
      BY <1>7, <2>2
    <3>2. ~(l < Len(stack'[u])) /\ \A m \in DOMAIN stack'[u] : ~(l < m)
      BY <3>1
    <3>3. QED BY <3>1, <3>2 DEF Waiting
  <2>3. CASE u # t
    BY <1>4, <1>6, <2>3 DEF Nested
  <2>4. QED BY <2>2, <2>3
<1>11. ASSUME NEW x PROVE /\ Held(t, x) <=> x = n
                          /\ ~Held(t, x)'
                          /\ \A u \in Threads \ {t} : Held(u, x)' <=> Held(u, x)
  <2>1. Held(t, x) <=> x = n
    <3>1. DOMAIN stack[t] = 1..1
      BY <1>1, Typed
    <3>2. stack[t][1].node = n
      BY <1>1
    <3>3. QED BY <1>1, <3>1, <3>2 DEF Held, Holds, Computing
  <2>2. ~Held(t, x)'
    <3>1. \A l \in DOMAIN stack'[t] : ~Holds(stack'[t][l], x)
      BY <1>7 DEF Holds, Computing
    <3>2. QED BY <1>5, <3>1 DEF Held
  <2>3. \A u \in Threads \ {t} : Held(u, x)' <=> Held(u, x)
    BY <1>5, <1>6 DEF Held
  <2>4. QED BY <2>1, <2>2, <2>3
<1>12. owner[n] = t
  BY <1>1, <1>4, <1>11 DEF Locked
<1>13. Locked'
  <2>1. SUFFICES ASSUME NEW u \in Threads, NEW x \in Nodes PROVE owner'[x] = u <=> Held(u, x)'
    BY <1>4 DEF Locked
  <2>2. u # 0
    BY <1>4
  <2>3. owner[x] = u <=> Held(u, x)
    BY <1>4 DEF Locked
  <2>4. owner'[x] = IF x = n THEN 0 ELSE owner[x]
    BY <1>1
  <2>5. QED BY <1>11, <1>12, <2>2, <2>3, <2>4
<1>14. Growing'
  <2>1. SUFFICES ASSUME NEW u \in Threads PROVE growing = u <=> InStage(u, "move")'
    BY <1>1, <1>4 DEF Growing
  <2>2. growing = u <=> InStage(u, "move")
    BY <1>4 DEF Growing
  <2>3. CASE u = t
    BY <1>1, <1>8, <2>2, <2>3 DEF InStage
  <2>4. CASE u # t
    <3>1. stack'[u] = stack[u]
      BY <1>6, <2>4
    <3>2. QED BY <2>2, <3>1 DEF InStage, Last
  <2>5. QED BY <2>3, <2>4
<1>15. Staged'
  <2>1. SUFFICES ASSUME NEW u \in Threads, NEW l \in DOMAIN stack'[u] PROVE ReadyNext(stack'[u][l])
    <3>1. \A u \in Threads : \A l \in DOMAIN stack'[u] : ReadyNext(stack'[u][l])
      BY <2>1
    <3>2. \A u \in Threads : \A l \in DOMAIN stack'[u] : Ready(stack[u][l])'
      BY <1>5, <3>1 DEF Ready, ReadyNext
    <3>3. QED BY <1>4, <3>2 DEF Staged
  <2>2. CASE u = t
    BY <1>7, <2>2 DEF ReadyNext, Holds, Computing
  <2>3. CASE u # t
    <3>1. stack'[u] = stack[u]
      BY <1>6, <2>3
    <3>2. l \in DOMAIN stack[u] /\ l \in 1..Len(stack[u])
      BY <3>1, Typed
    <3>3. Ready(stack[u][l]) /\ stack[u][l].node \in Nodes
      BY <1>4, <3>2, Typed DEF Staged
    <3>4. ~Holds(stack[u][l], n)
      <4>1. ~Held(u, n)
        BY <1>1, <1>4, <1>12, <2>3 DEF Locked
      <4>2. QED BY <3>2, <4>1 DEF Held
    <3>5. \A x \in Nodes \ {n} : ct'[x] = ct[x]
      BY <1>1, <1>4
    <3>6. {n} \in SUBSET Nodes
      BY <1>1
    <3>7. QED BY <3>1, <3>3, <3>4, <3>5, <3>6, ReadyStays
  <2>4. QED BY <2>2, <2>3
<1>16. ~InStage(t, "fill")'
  BY <1>8 DEF InStage
<1>17. QED BY <1>7, <1>9, <1>10, <1>13, <1>14, <1>15, <1>16

\* A cell that is given back had no other node.
LEMMA FinishCells ==
  ASSUME Running, NEW t \in Threads, NEW n, NEW i, NEW k, NEW w, Finishes(t, n, i, k, w)
  PROVE  CellsApart' /\ Contents' /\ Filling' /\ ct' \in [Nodes -> Nat] /\ cells' \in Seq(Cell)
<1>0. PICK c : c = ct[n]
  OBVIOUS
<1>1. /\ Steady /\ OthersStay(t) /\ n \in Nodes /\ c # 0
      /\ \/ cells' = Freed({c}) /\ ct' = [ct EXCEPT ![n] = 0]
         \/ UNCHANGED <<cells, ct>>
  BY <1>0 DEF Finishes
<1>2. cells \in Seq(Cell) /\ ct \in [Nodes -> Nat] /\ CellsApart /\ Contents
  BY DEF Running, Run, RunTypes
<1>3. c \in DOMAIN cells /\ \A x \in Nodes \ {n} : ct[x] # c
  BY <1>0, <1>1, <1>2 DEF CellsApart
<1>4. /\ ct' \in [Nodes -> Nat]
      /\ \A x \in Nodes : ct'[x] # 0 => ct'[x] = ct[x]
      /\ ct'[n] # 0 => cells' = cells
  BY <1>1, <1>2
<1>5. /\ cells' \in Seq(Cell) /\ DOMAIN cells' = DOMAIN cells
      /\ \A d \in DOMAIN cells : cells'[d].ctxt = cells[d].ctxt /\ (d # c => cells'[d].used = cells[d].used)
  <2>1. CASE UNCHANGED cells
    BY <1>2, <2>1
  <2>2. CASE cells' = Freed({c})
    <3> DEFINE F == [d \in DOMAIN cells |-> IF d = c THEN [cells[d] EXCEPT !.used = FALSE] ELSE cells[d]]
    <3>1. cells' = F
      BY <2>2 DEF Freed
    <3>2. \A d \in DOMAIN cells : cells[d] \in Cell
      BY <1>2
    <3>3. \A d \in DOMAIN cells : F[d] \in Cell /\ F[d].ctxt = cells[d].ctxt /\ (d # c => F[d] = cells[d])
      BY <3>2 DEF Cell
    <3>4. DOMAIN F = 1..Len(cells) /\ Len(cells) \in Nat
      BY <1>2
    <3>5. F \in Seq(Cell)
      <4>1. F = [d \in DOMAIN cells |-> F[d]]
        OBVIOUS
      <4> HIDE DEF F
      <4>2. F \in [1..Len(cells) -> Cell]
        BY <1>2, <3>3, <3>4, <4>1
      <4>3. QED BY <3>4, <4>2, SeqDef
    <3>6. DOMAIN F = DOMAIN cells
      OBVIOUS
    <3> HIDE DEF F
    <3>7. QED BY <3>1, <3>3, <3>5, <3>6
  <2>3. QED BY <1>1, <2>1, <2>2
<1>6. CellsApart'
  <2>1. SUFFICES ASSUME NEW x \in Nodes, ct'[x] # 0
        PROVE ct'[x] \in DOMAIN cells' /\ cells'[ct'[x]].used /\ \A m \in Nodes \ {x} : ct'[m] # ct'[x]
    BY <1>1 DEF CellsApart, Steady
  <2>2. ct'[x] = ct[x] /\ ct[x] # 0
    BY <1>4, <2>1
  <2>3. ct[x] \in DOMAIN cells /\ cells[ct[x]].used /\ \A m \in Nodes \ {x} : ct[m] # ct[x]
    BY <1>2, <2>2 DEF CellsApart
  <2>4. cells'[ct[x]].used = cells[ct[x]].used
    BY <1>3, <1>4, <1>5, <2>1, <2>2, <2>3
  <2>5. \A m \in Nodes \ {x} : ct'[m] # ct[x]
    BY <1>4, <2>2, <2>3
  <2>6. QED BY <1>5, <2>2, <2>3, <2>4, <2>5
<1>7. Contents'
  <2>1. SUFFICES ASSUME NEW x \in Nodes, ct'[x] # 0 PROVE Number(cells'[ct'[x]].ctxt) = Meaning(x)
    <3>1. \A x : Meaning(x)' = Meaning(x)
      BY <1>1, MeaningStays DEF Steady
    <3>2. QED BY <1>1, <2>1, <3>1 DEF Contents, Content, Number, Steady
  <2>2. ct'[x] = ct[x] /\ ct[x] # 0
    BY <1>4, <2>1
  <2>3. ct[x] \in DOMAIN cells /\ Number(Content(x)) = Meaning(x)
    BY <1>2, <2>2 DEF CellsApart, Contents
  <2>4. QED BY <1>5, <2>2, <2>3 DEF Content
<1>8. Filling'
  <2>1. SUFFICES ASSUME NEW u \in Threads, InStage(u, "fill")'
        PROVE  /\ Last(u)'.cell \in DOMAIN cells' /\ cells'[Last(u)'.cell].used
               /\ \A x \in Nodes : ct'[x] # Last(u)'.cell
               /\ \A v \in Threads \ {u} : InStage(v, "fill")' => Last(v)'.cell # Last(u)'.cell
    BY <1>1 DEF Filling, Steady, OthersStay
  <2>2. /\ Last(u)' = Last(u) /\ Last(u).cell # 0
        /\ Last(u).cell \in DOMAIN cells /\ cells[Last(u).cell].used
        /\ \A x \in Nodes : ct[x] # Last(u).cell
        /\ \A v \in Threads \ {u} : InStage(v, "fill")' => Last(v)'.cell # Last(u).cell
    <3>1. ~InStage(t, "fill")'
      BY FinishLocks
    <3>2. QED BY <1>1, <2>1, <3>1, OthersFill
  <2>3. Last(u).cell # c
    BY <1>0, <1>1, <2>2
  <2>4. \A x \in Nodes : ct'[x] # Last(u).cell
    BY <1>4, <2>2
  <2>5. QED BY <1>5, <2>2, <2>3, <2>4
<1>9. QED BY <1>4, <1>5, <1>6, <1>7, <1>8

\* Finish keeps the invariant (binaryArith.cpp:143-149).
LEMMA FinishRuns ==
  ASSUME Running, ~raced', NEW t \in Threads, stack[t] # <<>>, NEW n, n = Last(t).node, Finish(t, n)
  PROVE  Running'
<1>0. PICK i, k, w : i = work[t].bit /\ k = work[t].place /\ w = Continued(work[t])
  OBVIOUS
<1>1. Finishes(t, n, i, k, w)
  BY <1>0, Finishing
<1>2. /\ Steady /\ Threads' = Threads /\ n \in Nodes /\ growing' = growing
      /\ left' = [left EXCEPT ![n] = @ - 1]
      /\ work' = [work EXCEPT ![t] = w] /\ stack' = [stack EXCEPT ![t] = CallFor(t, w)]
      /\ owner' = [x \in Nodes |-> IF x = n THEN 0 ELSE owner[x]]
      /\ w \in [bit : Nat, place : Int] /\ CallFor(t, w) \in Seq(AFrame)
  BY <1>1 DEF Finishes, OthersStay
<1>3. AtWork' /\ Nested' /\ Locked' /\ Growing' /\ Staged'
  BY <1>1, FinishLocks
<1>4. CellsApart' /\ Contents' /\ Filling' /\ ct' \in [Nodes -> Nat] /\ cells' \in Seq(Cell)
  BY <1>1, FinishCells
<1>5. Counted'
  BY FinishCounts
<1>6. Summed'
  BY <1>0, <1>1, FinishSums
<1>7. sum' \in [0..(add.sizeLimit - 1) -> Ciphertexts]
  <2>1. AddsTo(i, k)
    BY <1>0, <1>1, AddsUp
  <2>2. QED BY <2>1 DEF AddsTo
<1>8. /\ left \in [Nodes -> Int] /\ NrThreads \in Nat
      /\ owner \in [Nodes -> 0..NrThreads] /\ growing \in 0..NrThreads
      /\ work \in [Threads -> [bit : Nat, place : Int]] /\ stack \in [Threads -> Seq(AFrame)]
  BY Typed DEF Running, Planned, RunTypes
<1>9. /\ left' \in [Nodes -> Int] /\ owner' \in [Nodes -> 0..NrThreads] /\ growing' \in 0..NrThreads
      /\ work' \in [Threads -> [bit : Nat, place : Int]] /\ stack' \in [Threads -> Seq(AFrame)]
  <2>1. left' \in [Nodes -> Int]
    BY <1>2, <1>8
  <2>2. owner' \in [Nodes -> 0..NrThreads]
    BY <1>2, <1>8
  <2>3. work' \in [Threads -> [bit : Nat, place : Int]]
    BY <1>2, <1>8
  <2>4. stack' \in [Threads -> Seq(AFrame)]
    BY <1>2, <1>8
  <2>5. QED BY <1>2, <1>8, <2>1, <2>2, <2>3, <2>4
<1>10. QED BY <1>2, <1>3, <1>4, <1>5, <1>6, <1>7, <1>9, RunningStays

--------------------------------------------------------------------------------
(* Every step preserves the invariant. *)

\* Steps that change nothing keep the invariant.
LEMMA StutterRuns ==
  ASSUME Running, UNCHANGED dag_vars
  PROVE  Running'
<1>1. /\ UNCHANGED <<add, plan, left, ct, owner, cells, growing, raced, sum, work, stack>>
      /\ Steady /\ Threads' = Threads
  BY DEF dag_vars, Steady, Nodes, Threads
<1>2. /\ AtWork /\ Nested /\ Locked /\ Growing /\ Staged /\ Filling /\ ~raced /\ RunTypes
      /\ left \in [Nodes -> Int]
  BY DEF Running, Run, Planned
<1>3. /\ \A u : BitsOf(u)' = BitsOf(u) /\ FirstBit(u)' = FirstBit(u)
      /\ \A j : Places(j)' = Places(j)
      /\ \A v : NodeAt(v)' = NodeAt(v)
      /\ bSize' = bSize
  BY <1>1, AdditionStays DEF bSize
<1>4. /\ \A x : Parents(x)' = Parents(x) /\ IsSource(x)' = IsSource(x)
      /\ \A x : Parent1(x)' = Parent1(x) /\ Parent2(x)' = Parent2(x)
      /\ \A f, x : Holds(f, x)' <=> Holds(f, x)
  BY <1>1, PlanStays DEF Steady
<1>5. AtWork'
  BY <1>1, <1>2, <1>3 DEF AtWork, Busy
<1>6. Nested'
  BY <1>1, <1>2, <1>4 DEF Nested, Callee, Inside, Waiting
<1>7. /\ \A t, x : Held(t, x)' <=> Held(t, x)
      /\ \A c, x : Past(c, x)' <=> Past(c, x)
  BY <1>1, <1>4 DEF Held, Past
<1>8. Locked'
  BY <1>1, <1>2, <1>7 DEF Locked, Steady
<1>9. Growing' /\ Filling'
  BY <1>1, <1>2 DEF Growing, Filling, InStage, Last, Steady
<1>10. Staged'
  <2>1. \A f : Ready(f)' <=> Ready(f)
    BY <1>1, <1>4 DEF Ready
  <2>2. QED BY <1>1, <1>2, <2>1 DEF Staged
<1>11. CellsApart' /\ Contents'
  BY <1>1, CellsStay
<1>12. Summed'
  BY <1>1, SummedStays
<1>13. Counted'
  <2>1. \A x : InWork(x)' <=> InWork(x)
    BY <1>1, <1>3 DEF InWork, Ahead
  <2>2. ASSUME NEW m \in Nodes PROVE Pending(m)' \subseteq Pending(m)
    BY <1>1, <1>4, <1>7, <2>1 DEF Pending, Steady
  <2>3. QED BY <1>1, <2>2, CountedStays
<1>14. QED
  BY <1>1, <1>2, <1>5, <1>6, <1>8, <1>9, <1>10, <1>11, <1>12, <1>13, RunningStays DEF RunTypes

\* Whatever a thread does, the plan stays.
LEMMA ThreadSteps ==
  ASSUME Running, NEW t \in Threads, stack[t] # <<>>, NEW n, n = Last(t).node, Thread(t, n)
  PROVE  Operands' /\ Planned' /\ next' = next /\ stack' # <<>> /\ ~raced
<1>1. UNCHANGED <<add, plan>> /\ ~raced
  BY DEF Thread, Lock, Back, Multiply, Scan, Grow, Move, Fill, Finish, At
<1>2. left \in [Nodes -> Int] /\ stack \in [Threads -> Seq(AFrame)] /\ Threads = DOMAIN stack
  BY Typed DEF Running, Planned, RunTypes, Threads
<1>3. left' = left \/ left' = [left EXCEPT ![n] = @ - 1]
  BY DEF Thread, Lock, Back, Multiply, Scan, Grow, Move, Fill, Finish
<1>4. left' \in [Nodes -> Int] /\ Nodes' = Nodes
  <2>1. Nodes = DOMAIN left /\ Nodes' = DOMAIN left'
    BY DEF Nodes
  <2>2. QED BY <1>2, <1>3, <2>1
<1>5. \E s : stack' = [stack EXCEPT ![t] = s]
  BY DEF Thread, Lock, Back, Multiply, Reuse, Scan, Grow, NewCell, Move, Fill, Finish, Becomes
<1>6. stack' # <<>>
  <2>1. t \in DOMAIN stack'
    BY <1>2, <1>5
  <2>2. QED BY <2>1
<1>7. Operands' /\ Planned'
  BY <1>1, <1>4, PlanStays DEF Running
<1>8. QED BY <1>1, <1>6, <1>7 DEF plan

\* Every step of a thread keeps the invariant, unless it reads cells that are being moved.
LEMMA ThreadRuns ==
  ASSUME Running, NEW t \in Threads, stack[t] # <<>>, NEW n, n = Last(t).node, Thread(t, n), ~raced'
  PROVE  Running'
<1>1. CASE Lock(t, n)
  BY <1>1, LockRuns
<1>2. CASE Back(t, n)
  BY <1>2, BackRuns
<1>3. CASE Multiply(t, n)
  BY <1>3, MultiplyRuns
<1>4. CASE Scan(t, n)
  BY <1>4, ScanRuns
<1>5. CASE Grow(t, n)
  BY <1>5, GrowRuns
<1>6. CASE Move(t, n)
  BY <1>6, MoveRuns
<1>7. CASE Fill(t, n)
  BY <1>7, FillRuns
<1>8. CASE Finish(t, n)
  BY <1>8, FinishRuns
<1>9. QED BY <1>1, <1>2, <1>3, <1>4, <1>5, <1>6, <1>7, <1>8 DEF Thread

\* Every step of an addition keeps the invariant.
LEMMA StepKeeps ==
  ASSUME IInv, [DagNext]_dag_vars
  PROVE  IInv'
<1>1. Operands /\ Planned
  BY DEF IInv
<1>2. CASE stack = <<>>
  <2>1. Planning
    BY <1>2 DEF IInv
  <2>2. CountsUsers
    BY <2>1 DEF Planning
  <2>3. CASE Product
    <3>1. Operands' /\ Planned' /\ CountsUsers'
      BY <1>1, <2>2, <2>3, ProductPlans
    <3>2. UNCHANGED <<ct, owner, cells, growing, raced, sum, stack>>
      BY <2>3 DEF Product
    <3>3. QED BY <1>2, <2>1, <3>1, <3>2 DEF IInv, Planning
  <2>4. CASE LastP
    <3>1. Operands' /\ Planned' /\ CountsUsers'
      BY <1>1, <2>2, <2>4, LastPPlans
    <3>2. UNCHANGED <<ct, owner, cells, growing, raced, sum, stack>>
      BY <2>4 DEF LastP
    <3>3. QED BY <1>2, <2>1, <3>1, <3>2 DEF IInv, Planning
  <2>5. CASE Begin
    <3>1. Operands' /\ Planned' /\ Run' /\ stack' # <<>>
      BY <1>1, <2>1, <2>5, BeginRuns
    <3>2. next' = next /\ next.kind = "q" /\ next.j < 0
      BY <2>5 DEF Begin, plan
    <3>3. QED BY <3>1, <3>2 DEF IInv
  <2>6. CASE \E t \in Threads : stack[t] # <<>> /\ Thread(t, Last(t).node)
    <3>1. Threads = {}
      BY <1>2 DEF Threads
    <3>2. QED BY <2>6, <3>1
  <2>7. CASE UNCHANGED dag_vars
    <3>1. UNCHANGED <<add, plan, left, ct, owner, cells, growing, raced, sum, stack>> /\ Nodes' = Nodes
      BY <2>7 DEF dag_vars, Nodes
    <3>2. Operands' /\ Planned'
      BY <1>1, <3>1, PlanStays DEF Planned
    <3>3. CountsUsers'
      <4>1. \A x : Parents(x)' = Parents(x)
        BY <3>1, PlanStays
      <4>2. \A x : Users(x)' = Users(x)
        BY <3>1, <4>1 DEF Users, InSum
      <4>3. QED BY <2>2, <3>1, <4>2 DEF CountsUsers
    <3>4. QED BY <1>2, <2>1, <3>1, <3>2, <3>3 DEF IInv, Planning
  <2>8. QED BY <2>3, <2>4, <2>5, <2>6, <2>7 DEF DagNext
<1>3. CASE stack # <<>>
  <2>1. next.kind = "q" /\ next.j < 0 /\ (~raced => Run)
    BY <1>3 DEF IInv
  <2>2. CASE UNCHANGED dag_vars
    <3>1. UNCHANGED <<add, plan, next, left, raced, stack>> /\ Nodes' = Nodes
      BY <2>2 DEF dag_vars, Nodes, plan
    <3>2. Operands' /\ Planned'
      BY <1>1, <3>1, PlanStays DEF Planned
    <3>3. ~raced => Running'
      BY <1>1, <2>1, <2>2, StutterRuns DEF Running
    <3>4. QED BY <1>3, <2>1, <3>1, <3>2, <3>3 DEF IInv, Running
  <2>3. CASE \E t \in Threads : stack[t] # <<>> /\ Thread(t, Last(t).node)
    <3>1. PICK t \in Threads : stack[t] # <<>> /\ Thread(t, Last(t).node)
      BY <2>3
    <3>2. PICK n : n = Last(t).node
      OBVIOUS
    <3>3. Thread(t, n)
      BY <3>1, <3>2
    <3>4. ~raced
      BY <3>3 DEF Thread, Lock, Back, Multiply, Scan, Grow, Move, Fill, Finish, At
    <3>5. Running
      BY <1>1, <2>1, <3>4 DEF Running
    <3>6. Operands' /\ Planned' /\ next' = next /\ stack' # <<>>
      BY <3>1, <3>2, <3>3, <3>5, ThreadSteps
    <3>7. ~raced' => Running'
      BY <3>1, <3>2, <3>3, <3>5, ThreadRuns
    <3>8. QED BY <2>1, <3>6, <3>7 DEF IInv, Running
  <2>4. ~Product /\ ~LastP /\ ~Begin
    <3>1. ~Begin
      BY <1>3 DEF Begin
    <3>2. next \in [kind : Kinds, i : Int, j : Int]
      BY <1>1 DEF Planned, NextOne
    <3>3. ~(next.j >= 0) /\ next.kind # "p"
      BY <2>1, <3>2
    <3>4. QED BY <3>1, <3>3 DEF Product, LastP
  <2>5. QED BY <2>2, <2>3, <2>4 DEF DagNext
<1>4. QED BY <1>2, <1>3

\* It holds at the beginning.
LEMMA StartKeeps ==
  ASSUME DagInit
  PROVE  IInv
<1>1. /\ Operands /\ Planned /\ CountsUsers /\ stack = <<>>
      /\ ct = <<>> /\ owner = <<>> /\ cells = <<>> /\ growing = 0 /\ raced = FALSE
  BY InitPlans
<1>2. sum = <<>>
  BY DEF DagInit
<1>3. QED BY <1>1, <1>2 DEF IInv, Planning

\* It implies that cells are apart and the sum is right.
LEMMA RightFollows ==
  ASSUME IInv
  PROVE  AdditionRight
<1>1. CASE raced
  BY <1>1 DEF AdditionRight
<1>2. CASE ~raced /\ stack = <<>>
  <2>1. ct = <<>> /\ sum = <<>>
    BY <1>2 DEF IInv, Planning
  <2>2. DOMAIN ct = {} /\ DOMAIN sum = {}
    BY <2>1
  <2>3. QED BY <2>2 DEF AdditionRight
<1>3. CASE ~raced /\ stack # <<>>
  <2>1. Running
    BY <1>3 DEF IInv, Running
  <2>2. /\ ct \in [Nodes -> Nat] /\ left \in [Nodes -> Int] /\ CellsApart /\ Counted /\ AtWork /\ Summed
        /\ Operands /\ Threads = 1..NrThreads /\ work \in [Threads -> [bit : Nat, place : Int]]
        /\ DOMAIN sum = 0..(add.sizeLimit - 1)
    BY <2>1, Typed DEF Running, Run, RunTypes, Planned
  <2>3. ASSUME NEW n \in DOMAIN ct
        PROVE  left[n] >= 0 /\ (ct[n] # 0 => cells[ct[n]].used /\ \A m \in DOMAIN ct \ {n} : ct[m] # ct[n])
    <3>1. DOMAIN ct = Nodes
      BY <2>2
    <3>2. Cardinality(Pending(n)) \in Nat /\ Cardinality(Pending(n)) <= left[n] /\ left[n] \in Int
      BY <2>1, <2>2, <3>1, FinitelyPending DEF Counted
    <3>3. QED BY <2>2, <3>1, <3>2 DEF CellsApart
  <2>4. ASSUME Finished, NEW i \in DOMAIN sum PROVE Number(sum[i]) = SumBit(i)
    <3>1. PICK t \in Threads : i \in BitsOf(t)
      BY <2>2, BitsApart
    <3>2. stack[t] = <<>>
      BY <2>4 DEF Finished
    <3>3. ~Busy(t)
      BY <2>2, <3>2 DEF AtWork
    <3>4. /\ work[t].bit \in Nat /\ work[t].bit >= FirstBit(t) /\ FirstBit(t) \in Nat
          /\ i \in Nat /\ bSize \in Nat /\ i \in FirstBit(t)..(FirstBit(t + 1) - 1)
      <4>1. work[t].bit \in Nat /\ work[t].bit >= FirstBit(t)
        BY <2>2 DEF AtWork
      <4>2. FirstBit(t) \in Nat /\ i \in 0..(add.sizeLimit - 1)
        BY <2>2, <3>1, BitsApart
      <4>3. QED BY <2>2, <3>1, <4>1, <4>2, Sizes DEF BitsOf
    <3>5. CASE i < work[t].bit
      BY <2>2, <3>1, <3>5 DEF Summed
    <3>6. CASE i >= work[t].bit
      <4>1. work[t].bit \in BitsOf(t)
        <5>1. t + 1 \in Nat \ {0} /\ FirstBit(t + 1) \in Nat
          <6>1. t + 1 \in Nat \ {0}
            BY <2>2
          <6>2. QED BY <2>2, <6>1, Intervals
        <5>2. QED BY <3>4, <3>6, <5>1 DEF BitsOf
      <4>2. i > bSize
        BY <3>3, <3>4, <3>6, <4>1 DEF Busy
      <4>3. sum[i] = Empty
        BY <2>2, <3>1, <4>2 DEF Summed
      <4>4. SumBit(i) = 0
        BY <2>2, <3>4, <4>2, NothingBehind
      <4>5. QED BY <4>3, <4>4 DEF Number
    <3>7. QED BY <3>4, <3>5, <3>6
  <2>5. QED BY <2>3, <2>4 DEF AdditionRight
<1>4. QED BY <1>1, <1>2, <1>3

\* What a thread waits for lies further along the order in which nodes are computed.
LEMMA WaitsAhead ==
  ASSUME Running, NEW u \in Threads, NEW n \in Nodes, owner[n] = u, NEW m, m = Last(u).node,
         Last(u).stage = "lock"
  PROVE  stack[u] # <<>> /\ m \in Nodes /\ (m.j > n.j \/ (m.j = n.j /\ m.i < n.i))
<1>1. Held(u, n)
  BY DEF Running, Run, Locked
<1>2. PICK k \in DOMAIN stack[u] : Holds(stack[u][k], n)
  BY <1>1 DEF Held
<1>3. /\ DOMAIN stack[u] = 1..Len(stack[u]) /\ Len(stack[u]) \in Nat /\ k \in 1..Len(stack[u])
      /\ stack[u][k].node \in Nodes /\ stack[u] # <<>>
  <2>1. DOMAIN stack[u] = 1..Len(stack[u]) /\ Len(stack[u]) \in Nat
    BY Typed
  <2>2. k \in 1..Len(stack[u])
    BY <2>1
  <2>3. stack[u][k].node \in Nodes
    BY <2>2, Typed
  <2>4. QED BY <2>1, <2>2, <2>3
<1>4. Last(u) = stack[u][Len(stack[u])] /\ m \in Nodes
  BY <1>3, TopCall
<1> DEFINE f == stack[u][k]
           c == f.node
<1>5. k < Len(stack[u])
  <2>1. k # Len(stack[u])
    BY <1>2, <1>4 DEF Holds, Computing
  <2>2. QED BY <1>3, <2>1
<1>6. f.stage \in Waiting /\ ~IsSource(c) /\ Inside(m, Callee(f))
  BY <1>3, <1>4, <1>5 DEF Running, Run, Nested
<1>7. c \in Nodes /\ Holds(f, n)
  BY <1>2, <1>3
<1> HIDE DEF f
<1>8. /\ c.i \in Nat /\ c.j \in Nat /\ middle[c] \in c.j..(c.i - 1) /\ middle[c] \in Nat
      /\ Parent1(c) = [kind |-> c.kind, i |-> middle[c], j |-> c.j]
      /\ Parent2(c) = [kind |-> "p", i |-> c.i, j |-> middle[c] + 1]
  BY <1>6, <1>7, Nodal
<1>9. m.i \in Nat /\ m.j \in Nat /\ n.i \in Nat /\ n.j \in Nat
  BY <1>4, Nodal
<1>10. n = c \/ (f.stage = "second" /\ n = Parent1(c))
  BY <1>6, <1>7 DEF Holds, Computing, Waiting
<1>11. CASE f.stage = "first"
  <2>1. n = c /\ Callee(f) = Parent1(c)
    BY <1>10, <1>11 DEF Callee
  <2>2. m.j >= c.j /\ m.i <= middle[c]
    BY <1>6, <1>8, <2>1 DEF Inside
  <2>3. m.j >= n.j /\ m.i < n.i
    BY <1>8, <1>9, <2>1, <2>2
  <2>4. QED BY <1>3, <1>4, <1>9, <2>3
<1>12. CASE f.stage = "second"
  <2>1. Callee(f) = Parent2(c)
    BY <1>12 DEF Callee
  <2>2. m.j >= middle[c] + 1
    BY <1>6, <1>8, <2>1 DEF Inside
  <2>3. n.j = c.j
    BY <1>8, <1>10
  <2>4. QED BY <1>3, <1>4, <1>8, <1>9, <2>2, <2>3
<1>13. QED BY <1>6, <1>11, <1>12 DEF Waiting

\* It implies that some thread can go on: the wait for locks has no circle.
LEMMA ProceedsFollows ==
  ASSUME IInv
  PROVE  AdditionProceeds
<1>1. CASE raced
  BY <1>1 DEF AdditionProceeds
<1>2. CASE stack = <<>>
  <2>1. Threads = {}
    BY <1>2 DEF Threads
  <2>2. QED BY <2>1 DEF AdditionProceeds, Finished
<1>3. CASE ~raced /\ stack # <<>>
  <2>1. Running
    BY <1>3 DEF IInv, Running
  <2> DEFINE T == {t \in Threads : stack[t] # <<>>}
  <2>2. SUFFICES ASSUME T # {}, \A t \in T : Waits(t) PROVE FALSE
    BY DEF AdditionProceeds, Finished
  <2>3. /\ Threads = 1..NrThreads /\ NrThreads \in Nat /\ growing \in 0..NrThreads
        /\ owner \in [Nodes -> 0..NrThreads] /\ Growing /\ Operands
    BY <2>1, Typed DEF RunTypes, Running, Run
  <2>4. growing = 0
    <3>1. SUFFICES ASSUME growing \in Threads PROVE FALSE
      BY <2>3
    <3>2. InStage(growing, "move")
      BY <2>3, <3>1 DEF Growing
    <3>3. growing \in T
      BY <3>1, <3>2 DEF InStage
    <3>4. Waits(growing)
      BY <2>2, <3>3
    <3>5. QED BY <3>2, <3>4 DEF InStage, Waits
  <2>5. ASSUME NEW t \in T
        PROVE  /\ Last(t).stage = "lock" /\ Last(t).node \in Nodes /\ owner[Last(t).node] \in Threads
               /\ Last(t).node.i \in Nat /\ Last(t).node.j \in Nat /\ bSize - Last(t).node.j \in Nat
    <3>1. Waits(t)
      BY <2>2
    <3>2. Last(t).stage = "lock" /\ owner[Last(t).node] # 0
      BY <2>4, <3>1 DEF Waits
    <3>3. Last(t).node \in Nodes
      BY <2>1, TopCall
    <3>4. owner[Last(t).node] \in Threads
      BY <2>3, <3>2, <3>3
    <3>5. Last(t).node \in AllNodes
      BY <2>1, <3>3, Typed
    <3>6. Last(t).node.i \in Nat /\ Last(t).node.j \in Nat /\ Last(t).node.j <= Last(t).node.i /\ Last(t).node.i < bSize
      BY <2>3, <3>5, Fields
    <3>7. QED BY <2>3, <3>2, <3>3, <3>4, <3>6, Sizes
  <2> HIDE DEF T
  <2> DEFINE D == {bSize - Last(t).node.j : t \in T}
  <2>6. D # {} /\ D \in SUBSET Nat
    BY <2>2, <2>5
  <2>7. PICK d \in D : \A x \in D : d <= x
    BY <2>6, Least
  <2> DEFINE E == {Last(t).node.i : t \in {t \in T : bSize - Last(t).node.j = d}}
  <2>8. E # {} /\ E \in SUBSET Nat
    BY <2>5, <2>7
  <2>9. PICK e \in E : \A x \in E : e <= x
    BY <2>8, Least
  <2>10. PICK t \in T : bSize - Last(t).node.j = d /\ Last(t).node.i = e
    BY <2>9
  <2>11. PICK n \in Nodes : n = Last(t).node
    BY <2>5
  <2>12. PICK u \in Threads : owner[n] = u
    BY <2>5, <2>11
  <2>13. u \in T
    <3>1. Held(u, n)
      BY <2>1, <2>12 DEF Running, Run, Locked
    <3>2. stack[u] # <<>>
      BY <3>1 DEF Held
    <3>3. QED BY <3>2 DEF T
  <2>14. PICK m : m = Last(u).node
    OBVIOUS
  <2>15. Last(u).stage = "lock"
    BY <2>5, <2>13
  <2>16. m.j > n.j \/ (m.j = n.j /\ m.i < n.i)
    BY <2>1, <2>12, <2>14, <2>15, WaitsAhead
  <2>17. m.j \in Nat /\ m.i \in Nat /\ n.j \in Nat /\ n.i \in Nat /\ bSize \in Nat
    BY <2>3, <2>5, <2>11, <2>13, <2>14, Sizes
  <2>18. bSize - m.j \in D /\ d = bSize - n.j /\ n.i = e
    BY <2>10, <2>11, <2>13, <2>14
  <2>19. d <= bSize - m.j
    BY <2>7, <2>18
  <2>20. m.j = n.j /\ m.i < n.i
    BY <2>16, <2>17, <2>18, <2>19
  <2>21. m.i \in E
    BY <2>13, <2>14, <2>18, <2>20
  <2>22. e <= m.i
    BY <2>9, <2>21
  <2>23. QED BY <2>17, <2>18, <2>20, <2>22
<1>4. QED BY <1>1, <1>2, <1>3

(***************************************************************************)
(* The invariant holds in every state of an addition, whatever the         *)
(* operands, the number of threads and the order of their steps.           *)
(***************************************************************************)
THEOREM DagInvariance == DagSpec => []IInv
<1>1. DagInit => IInv
  BY StartKeeps
<1>2. IInv /\ [DagNext]_dag_vars => IInv'
  BY StepKeeps
<1>3. QED BY <1>1, <1>2, PTL DEF DagSpec

(***************************************************************************)
(* No two nodes share a cell and no node is read more often than it        *)
(* counted (getCtxt and markAsAvailable of binaryArith.cpp), and when the  *)
(* threads are done every bit of the result is a[i] + b[i] plus the        *)
(* carries into it, unless a thread scanned the cells while they moved.    *)
(***************************************************************************)
THEOREM AddsRight == DagSpec => []AdditionRight
<1>1. IInv => AdditionRight
  BY RightFollows
<1>2. QED BY <1>1, DagInvariance, PTL

(***************************************************************************)
(* The threads do not deadlock on the locks of the nodes, which getCtxt    *)
(* takes one inside the other, or on that of the scratch space: as long as *)
(* one has something to do, one can do it.                                 *)
(***************************************************************************)
THEOREM AddsOn == DagSpec => []AdditionProceeds
<1>1. IInv => AdditionProceeds
  BY ProceedsFollows
<1>2. QED BY <1>1, DagInvariance, PTL

(***************************************************************************)
(* A thread that works alone never sees the cells while they are moved,    *)
(* since it is the one that moves them (binaryArith.cpp:440,451): without  *)
(* other threads the theorems above hold of the whole addition.            *)
(***************************************************************************)
AloneKeepsCells == NrThreads = 1 => ~raced

\* One thread for any operands and any ring: the cells it scans are those it appended
\* itself.
THEOREM AloneNeverRaces == DagSpec => []AloneKeepsCells
<1>1. DagInit => AloneKeepsCells
  BY DEF DagInit, AloneKeepsCells
<1>2. IInv /\ AloneKeepsCells /\ [DagNext]_dag_vars => AloneKeepsCells'
  <2>1. SUFFICES ASSUME IInv, AloneKeepsCells, [DagNext]_dag_vars, NrThreads' = 1
                 PROVE  ~raced'
    BY DEF AloneKeepsCells
  <2>2. ASSUME add' = add, raced' = raced
        PROVE  ~raced'
    BY <2>1, <2>2 DEF AloneKeepsCells, NrThreads
  <2>3. CASE Product \/ LastP \/ Begin \/ UNCHANGED dag_vars
    <3>1. add' = add /\ raced' = raced
      BY <2>3 DEF Product, LastP, Begin, dag_vars
    <3>2. QED BY <2>2, <3>1
  <2>4. ASSUME NEW t \in Threads, stack[t] # <<>>, NEW n, n = Last(t).node, Thread(t, n)
        PROVE  ~raced'
    <3>1. add' = add
      BY <2>4 DEF Thread, Lock, Back, Multiply, Scan, Grow, Move, Fill, Finish
    <3>2. NrThreads = 1 /\ ~raced
      BY <2>1, <3>1 DEF AloneKeepsCells, NrThreads
    <3>3. stack # <<>>
      BY <2>4 DEF Threads
    <3>4. Running
      BY <2>1, <3>2, <3>3 DEF IInv, Running
    <3>5. Threads = 1..NrThreads /\ growing \in 0..NrThreads
      BY <3>4 DEF Running, Run, RunTypes
    <3>6. growing \in {0, t}
      BY <2>4, <3>2, <3>5
    <3>7. raced' = raced \/ TouchCells(t)
      BY <2>4 DEF Thread, Lock, Back, Multiply, Reuse, Scan, Grow, Move, Fill, Finish
    <3>8. QED BY <3>2, <3>6, <3>7 DEF TouchCells
  <2>5. CASE \E t \in Threads : stack[t] # <<>> /\ Thread(t, Last(t).node)
    BY <2>4, <2>5
  <2>6. QED BY <2>1, <2>3, <2>5 DEF DagNext
<1>3. QED BY <1>1, <1>2, DagInvariance, PTL DEF DagSpec

================================================================================

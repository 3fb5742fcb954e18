------------------------------- MODULE Cmodulus -------------------------------
(***************************************************************************)
(* The transforms between a polynomial modulo Phi_m(X) and its values in   *)
(* the primitive m-th roots of unity modulo one prime (CModulus.cpp), with *)
(* Bluestein's method on top of NTL's FFT (bluestein.cpp) and, when m is a *)
(* power of two, a twisted FFT of half the length.  Polynomials and value  *)
(* vectors are functions on 0..(length - 1).                               *)
(***************************************************************************)
EXTENDS PrimeField, BitReversal, NumbTh

LOCAL Indices(n) == 0..(n - 1)
LOCAL SumMod(f(_), S) == MapThenSumSet(f, S) % P

\* zMStar: the units modulo m in increasing order, and log2 of m or 0.
inZmStar(m, i) == Coprime(i, m)
Units(m) == SelectSeq([i \in 1..m |-> i - 1], LAMBDA i : inZmStar(m, i))
PhiM(m) == Len(Units(m))
getPow2(m) == IF \E k \in 1..m : m = 2^k THEN CHOOSE k \in 1..m : m = 2^k ELSE 0

\* The order of the root that is stored: 2m when m is even, m when it is odd.
RootOrder(m) == IF m % 2 = 0 THEN 2 * m ELSE m
root(m) == UnitRoot(RootOrder(m))
rInv(m) == Reciprocal(root(m))

NextPowerOfTwo(n) == CHOOSE k \in Indices(n + 1) : 2^k >= n /\ (k = 0 \/ 2^(k - 1) < n)

(***************************************************************************)
(* What NTL computes from TofftRep, mul and FromfftRep for 2^k points: the *)
(* product modulo X^(2^k) - 1.                                             *)
(***************************************************************************)
CyclicProduct(a, b, k) ==
  [i \in Indices(2^k) |->
     SumMod(LAMBDA j : LET l == (i - j) % 2^k
                       IN IF l \in DOMAIN b THEN Times(a[j], b[l]) ELSE 0,
            DOMAIN a)]

(***************************************************************************)
(* BluesteinInit: the powers r^(i^2) and the inverses they are convolved   *)
(* with; the latter on both sides of n - 1, but for odd n once only.       *)
(***************************************************************************)
\* Mutant of BluesteinInit: the exponents are reduced modulo n for every n.
BluesteinInit_ModuloN(n, r) ==
  [powers |-> [i \in Indices(n) |-> Power(r, (i * i) % n)],
   b |-> LET inverse(i) == Power(Reciprocal(r), (i * i) % n)
         IN IF n % 2 # 0 THEN [i \in Indices(n) |-> inverse(i)]
            ELSE [i \in Indices(2 * n - 1) |-> inverse(i - (n - 1))]]

BluesteinInit(n, r) ==
  LET e == RootOrder(n)
      inverse(i) == Power(Reciprocal(r), (i * i) % e)
  IN [powers |-> Table([i \in Indices(n) |-> Power(r, (i * i) % e)]),
      b |-> Table(IF n % 2 # 0 THEN [i \in Indices(n) |-> inverse(i)]
                  ELSE [i \in Indices(2 * n - 1) |-> inverse(i - (n - 1))])]

(***************************************************************************)
(* BluesteinFFT: for odd n the product is reduced modulo X^n - 1 by hand;  *)
(* for even n its coefficients from n - 1 on are taken, the product itself *)
(* being longer than the 2^k that it is computed with.                     *)
(***************************************************************************)
BluesteinFFT(x, n, tables) ==
  LET k == NextPowerOfTwo(2 * n - 1)
      scaled == Table([i \in Indices(n) |-> Times(x[i], tables.powers[i])])
      product == Table(CyclicProduct(scaled, tables.b, k))
      folded == IF n % 2 # 0
                THEN [i \in Indices(n) |->
                        IF i + n <= 2 * (n - 1) THEN Plus(product[i], product[i + n]) ELSE product[i]]
                ELSE [i \in Indices(n) |-> product[n - 1 + i]]
  IN [i \in Indices(n) |-> Times(folded[i], tables.powers[i])]

(***************************************************************************)
(* NTL's FFT of 2^k points with root w, which leaves its output in         *)
(* bit-reversed order, and the inverse that takes it in that order.        *)
(***************************************************************************)
FFTFwd(x, k, w) ==
  [i \in Indices(2^k) |->
     SumMod(LAMBDA j : Times(x[j], Power(w, (j * Reversed(i, k)) % 2^k)), Indices(2^k))]

FFTRev1(y, k, w) ==
  [j \in Indices(2^k) |->
     Times(Reciprocal(2^k),
           SumMod(LAMBDA i : Times(y[i], Power(Reciprocal(w), (j * Reversed(i, k)) % 2^k)),
                  Indices(2^k)))]

BitReverseCopy(x, k) == [i \in DOMAIN x |-> x[CHOOSE j \in DOMAIN x : BRC_table(k)[j] = i]]

(***************************************************************************)
(* FFT_aux: the values of x, given by its first phi(m) coefficients, in    *)
(* the roots whose exponents are the units, in increasing order.           *)
(***************************************************************************)
Extended(x, n) == [i \in Indices(n) |-> IF i \in DOMAIN x THEN x[i] ELSE 0]

FFT_aux(x, m) ==
  LET k == getPow2(m)
      twisted == [i \in Indices(m \div 2) |-> Times(x[i], Power(UnitRoot(m), i))]
      values == BluesteinFFT(Extended(x, m), m, BluesteinInit(m, root(m)))
  IN IF k > 0
     THEN BitReverseCopy(FFTFwd(twisted, k - 1, UnitRoot(2^(k - 1))), k - 1)
     ELSE [j \in Indices(PhiM(m)) |-> values[Units(m)[j + 1]]]

(***************************************************************************)
(* iFFT into x, which may hold anything from an earlier transform, of any  *)
(* modulus: the values go to the coefficients of the units, the others are *)
(* left as they are, and the reduction modulo Phi_m(X) removes what comes  *)
(* of them.                                                                *)
(***************************************************************************)
\* rem(x, x, *phimx): the remainder modulo the monic f.
Remainder(x, f) ==
  LET n == Cardinality(DOMAIN f) - 1
      len == Cardinality(DOMAIN x)
      r == FoldLeft(LAMBDA y, i : [j \in DOMAIN y |->
                                     IF j \in (i - n)..i
                                     THEN Minus(y[j], Times(y[i], f[j - (i - n)])) ELSE y[j]],
                    x, [k \in 1..(len - n) |-> len - k])
  IN [j \in Indices(n) |-> r[j]]

PhimX(m) == [i \in DOMAIN Cyclotomic(m) |-> Cyclotomic(m)[i] % P]

iFFT(stale, y, m) ==
  LET k == getPow2(m)
      values == FFTRev1(BitReverseCopy(y, k - 1), k - 1, UnitRoot(2^(k - 1)))
      Position(i) == (CHOOSE j \in 1..PhiM(m) : Units(m)[j] = i) - 1
      x == [i \in Indices(m) |-> IF inZmStar(m, i) THEN y[Position(i)] ELSE stale[i]]
      z == Remainder(BluesteinFFT(x, m, BluesteinInit(m, rInv(m))), PhimX(m))
  IN IF k > 0
     THEN [i \in Indices(m \div 2) |-> Times(values[i], Power(Reciprocal(UnitRoot(m)), i))]
     ELSE [i \in Indices(PhiM(m)) |-> Times(z[i], Reciprocal(m))]

(***************************************************************************)
(* The transform is the evaluation in the powers of one primitive m-th     *)
(* root of unity whose exponents are the units.                            *)
(***************************************************************************)
EvaluatesAtUnits(x, y, m) ==
  LET zeta == IF getPow2(m) > 0 THEN UnitRoot(m) ELSE Times(root(m), root(m))
  IN \A j \in Indices(PhiM(m)) :
       y[j] = SumMod(LAMBDA i : Times(x[i], Power(zeta, (i * Units(m)[j + 1]) % m)), DOMAIN x)
================================================================================

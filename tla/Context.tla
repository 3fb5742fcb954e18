-------------------------------- MODULE Context --------------------------------
(***************************************************************************)
(* The parameters of a ring and its chain of moduli (Context.cpp,          *)
(* primeChain.cpp).  A context is a record:                                *)
(*   m, phim, units     the ring of polynomials modulo Phi_m(X), for m a   *)
(*                      prime or a power of two, and the units modulo m    *)
(*   p, r, p2r          the plaintext space p^r                            *)
(*   al                 generators and orders of the units (PAlgebra)      *)
(*   q[i]               the primes, which are 1 modulo m                   *)
(*   small, ctxt, special   the indices of the three kinds of primes       *)
(*   digits             the sets of indices that key switching breaks a    *)
(*                      polynomial along                                   *)
(*   pow[i][e], inv[i][j][k]   powers of the m-th root of unity modulo     *)
(*                      q[i], and what the value at its k-th power         *)
(*                      contributes to the coefficient of X^j              *)
(*   normBnd100         how much larger than its embedding norm a          *)
(*                      coefficient can be, in percent                     *)
(***************************************************************************)
EXTENDS PAlgebra

LOCAL PowerModulo(a, e, q) ==
  LET pow[k \in 0..e] == IF k = 0 THEN 1 ELSE (pow[k - 1] * a) % q IN pow[e]
LOCAL InverseModulo(a, q) == CHOOSE x \in 0..(q - 1) : (a * x) % q = 1 % q

productOfPrimes(cx, S) == FoldSet(LAMBDA i, x : x * cx.q[i], 1, S)
fullPrimes(cx) == cx.ctxt \union cx.special

--------------------------------------------------------------------------------
(***************************************************************************)
(* buildModChain: the small primes come first, then those of ciphertexts,  *)
(* then the special ones.  A digit takes its share of the primes that      *)
(* remain, rounded up, the smallest indices first; the last the rest.      *)
(***************************************************************************)
LOCAL CeilDiv(a, b) == (a + b - 1) \div b

NextDigit(remaining, nDgts) ==
  {i \in remaining : Cardinality({j \in remaining : j < i}) < CeilDiv(Cardinality(remaining), nDgts)}

RECURSIVE SplitIntoDigits(_, _)
SplitIntoDigits(remaining, nDgts) ==
  CASE remaining = {} -> <<>>
    [] remaining # {} /\ nDgts = 1 -> <<remaining>>
    [] OTHER -> <<NextDigit(remaining, nDgts)>>
                  \o SplitIntoDigits(remaining \ NextDigit(remaining, nDgts), nDgts - 1)

addSpecialPrimes(ctxt, nDgts) ==
  SplitIntoDigits(ctxt, IF nDgts > Cardinality(ctxt) THEN Cardinality(ctxt)
                        ELSE IF nDgts <= 0 THEN 1 ELSE nDgts)

--------------------------------------------------------------------------------
(***************************************************************************)
(* The transforms of one prime: values at the powers k of the root w for   *)
(* the units k.  Modulo Phi_m(X), X^(m - 1) is minus the sum of the lower  *)
(* powers for a prime m, and X^(j + m/2) is -X^j for a power of two.       *)
(***************************************************************************)
LOCAL RootOfUnity(m, q) ==
  CHOOSE w \in 2..(q - 1) : /\ PowerModulo(w, m, q) = 1
                            /\ \A e \in 1..(m - 1) : PowerModulo(w, e, q) # 1
\* The power of X whose coefficient is subtracted from that of X^j.
Folded(m, j) == IF m % 2 = 0 THEN j + m \div 2 ELSE m - 1

LOCAL Powers(m, q, w) == Computed([e \in 0..(m - 1) |-> PowerModulo(w, e, q)])
LOCAL Contributions(m, q, units, pow) ==
  Computed([j \in 0..(Cardinality(units) - 1) |->
    Computed([k \in units |->
      (InverseModulo(m, q)
         * ((pow[(-j * k) % m] - pow[(-Folded(m, j) * k) % m]) % q)) % q])])

LOCAL WithTables(cx, pow) ==
  cx @@ [pow |-> pow,
         inv |-> Computed([i \in DOMAIN cx.q |-> Contributions(cx.m, cx.q[i], cx.units, pow[i])])]
LOCAL WithDigits(cx, nDgts) == cx @@ [digits |-> addSpecialPrimes(cx.ctxt, nDgts)]
LOCAL OfAlgebra(al, m, p, r, small, ctxt, special, normBnd100) ==
  [m |-> m, p |-> p, r |-> r, p2r |-> p^r, al |-> al, normBnd100 |-> normBnd100,
   units |-> {k \in 1..(m - 1) : Coprime(k, m)},
   phim |-> Cardinality({k \in 1..(m - 1) : Coprime(k, m)}),
   q |-> small \o ctxt \o special,
   small |-> 1..Len(small),
   ctxt |-> (Len(small) + 1)..(Len(small) + Len(ctxt)),
   special |-> (Len(small) + Len(ctxt) + 1)..(Len(small) + Len(ctxt) + Len(special))]
LOCAL WithTransforms(cx) ==
  WithTables(cx, Computed([i \in DOMAIN cx.q |-> Powers(cx.m, cx.q[i], RootOfUnity(cx.m, cx.q[i]))]))

buildModChain(m, p, r, small, ctxt, special, nDgts, normBnd100) ==
  WithTransforms(WithDigits(OfAlgebra(PAlgebra(m, p), m, p, r, small, ctxt, special, normBnd100), nDgts))

--------------------------------------------------------------------------------
(***************************************************************************)
(* ModuliSizes: the sets of primes a ciphertext may be switched to, any    *)
(* small primes and a first part of those of ciphertexts.  A set is wanted *)
(* whose product is between low and high, to be reached from the sets in   *)
(* from with the fewest transforms, the largest of these.  Without one,    *)
(* the same is asked of the sets within one bit of the largest below low.  *)
(***************************************************************************)
ModuliSizes(cx) ==
  {s \union {i \in cx.ctxt : i < e} : s \in SUBSET cx.small,
                                      e \in cx.ctxt \union {Cardinality(cx.small) + Cardinality(cx.ctxt) + 1}}

iFFT_cost(cx) == IF cx.m % 2 = 0 THEN 0 ELSE 20
cost_estimate(cx, fromSet, toSet) ==
  100 * Cardinality(toSet \ fromSet) + iFFT_cost(cx) * Cardinality(fromSet \ toSet)

LOCAL CostFrom(cx, from, S) == MapThenSumSet(LAMBDA f : cost_estimate(cx, f, S), from)
LOCAL Cheapest(cx, from, Ss) ==
  {S \in Ss : \A T \in Ss : CostFrom(cx, from, S) <= CostFrom(cx, from, T)}
LOCAL Largest(cx, Ss) == CHOOSE S \in Ss : \A T \in Ss : productOfPrimes(cx, T) <= productOfPrimes(cx, S)

LOCAL WithinOneBit(cx, Ss) ==
  {S \in Ss : 2 * productOfPrimes(cx, S) >= productOfPrimes(cx, Largest(cx, Ss))}
LOCAL LargestBelow(cx, low, from) ==
  LET Below == {S \in ModuliSizes(cx) : productOfPrimes(cx, S) < low}
  IN IF Below = {} THEN {} ELSE Largest(cx, Cheapest(cx, from, WithinOneBit(cx, Below)))
getSet4Size(cx, low, high, from) ==
  LET Fitting == {S \in ModuliSizes(cx) : productOfPrimes(cx, S) \in low..high}
  IN IF Fitting # {} THEN Largest(cx, Cheapest(cx, from, Fitting)) ELSE LargestBelow(cx, low, from)
================================================================================

-------------------------------- MODULE NumbTh ---------------------------------
(***************************************************************************)
(* The number theory of NumbTh.cpp that the rest of the library is built   *)
(* on: remainders, the structure of the units modulo m, cyclotomic         *)
(* polynomials, Chinese remaindering and lifting modulo prime powers.      *)
(* Vectors are sequences; a polynomial is a function on 0..degree.         *)
(***************************************************************************)
EXTENDS Integers, SequencesExt, TLC

\* a % b and a / b of C++ truncate towards zero.
LOCAL Abs(a) == IF a < 0 THEN -a ELSE a
LOCAL Sign(a) == IF a < 0 THEN -1 ELSE 1
CQuo(a, b) == Sign(a) * Sign(b) * (Abs(a) \div Abs(b))
CRem(a, b) == a - b * CQuo(a, b)

mcMod(a, b) ==
  LET r == CRem(a, b) IN IF r # 0 /\ (b < 0) # (r < 0) THEN r + b ELSE r
mcDiv(a, b) ==
  LET r == CRem(a, b) IN IF r # 0 /\ (b < 0) # (r < 0) THEN CQuo(a, b) + 1 ELSE CQuo(a, b)

\* The value of the bitSize lowest of the bits as a 2's complement number.
bitSetToLong(bits, bitSize) ==
  LET bit(i) == ((bits \div 2^i) % 2) * 2^i
  IN IF bitSize = 0 THEN 0
     ELSE MapThenSumSet(bit, 0..(bitSize - 2)) - bit(bitSize - 1)

Coprime(a, m) == \A d \in 2..m : ~(m % d = 0 /\ a % d = 0)
IsPrime(n) == n > 1 /\ \A d \in 2..(n - 1) : n % d # 0

LOCAL PowerMod(a, e, m) ==
  LET pow[k \in 0..e] == IF k = 0 THEN 1 % m ELSE (pow[k - 1] * a) % m IN pow[e]
LOCAL InvMod(a, m) == CHOOSE x \in 0..(m - 1) : (a * x) % m = 1 % m
LOCAL Product(s) == FoldSeq(LAMBDA x, y : x * y, 1, s)

\* The primes that divide N, in increasing order.
factorize(N) == SelectSeq([i \in 1..N |-> i], LAMBDA q : N % q = 0 /\ IsPrime(q))

\* Multiplicity of q in N.
ord(N, q) == CHOOSE e \in 0..N : N % q^e = 0 /\ N % q^(e + 1) # 0

phi_N(N) ==
  Product([i \in 1..Len(factorize(N)) |->
             LET q == factorize(N)[i] IN (q - 1) * q^(ord(N, q) - 1)])

mobius(n) ==
  IF \E q \in ToSet(factorize(n)) : ord(n, q) > 1 THEN 0
  ELSE IF Len(factorize(n)) % 2 = 0 THEN 1 ELSE -1

multOrd(p, m) ==
  IF ~Coprime(p, m) THEN 0 ELSE CHOOSE e \in 1..m : /\ PowerMod(p, e, m) = p^0 % m
                                                    /\ \A f \in 1..(e - 1) : PowerMod(p, f, m) # p^0 % m

--------------------------------------------------------------------------------
(***************************************************************************)
(* Generators of the units modulo m over the powers of p.  classes[i] is   *)
(* the smallest element known to be equivalent to the unit i, its pivot,   *)
(* and 0 for an i that is no unit.                                         *)
(***************************************************************************)
\* while (classes[j] != i): merge the class of j with that of its pivot i
RECURSIVE Merged(_, _, _, _, _)
Merged(classes, i, j, g, m) ==
  IF classes[j] = i THEN classes
  ELSE Merged([classes EXCEPT ![classes[j]] = i], i, (j * g) % m, g, m)

\* Unify the classes of elements that are a factor of g apart.
conjClasses(classes, g, m) ==
  FoldLeft(LAMBDA c, i : CASE c[i] = 0 -> c
                           [] c[i] # 0 /\ c[i] < i -> [c EXCEPT ![i] = c[c[i]]]
                           [] OTHER -> Merged(c, i, (i * g) % m, g, m),
           classes, [i \in 1..m |-> i - 1])

\* Mutant of compOrder: the order in the whole group, not in the quotient.
compOrder_InGroup(classes, m) ==
  [i \in 0..(m - 1) |-> IF classes[i] <= 1 THEN classes[i] ELSE multOrd(classes[i], m)]

\* The order of the elements of the quotient group, 0 for what is no unit.
compOrder(classes, m) ==
  [i \in 0..(m - 1) |->
     CASE classes[i] = 0 -> 0
       [] classes[i] = 1 -> 1
       [] OTHER -> LET pivot == classes[i]
                   IN CHOOSE e \in 2..m : /\ classes[PowerMod(pivot, e, m)] = 1
                                          /\ \A f \in 2..(e - 1) : classes[PowerMod(pivot, f, m)] # 1]

(***************************************************************************)
(* The element of highest order in the quotient that is taken next: one    *)
(* with the same order in the whole group (quality 2) if there is one,     *)
(* else one with the same order modulo the powers of p (quality 1).        *)
(***************************************************************************)
Best(orders, p_subgp, m) ==
  LET largest == CHOOSE o \in Range(orders) : \A o2 \in Range(orders) : o2 <= o
      Highest == {i \in 0..(m - 1) : orders[i] = largest}
      InGroup == {i \in Highest : PowerMod(i, largest, m) = 1}
      InQuotient == {i \in Highest : PowerMod(i, largest, m) \in p_subgp}
      Least(S) == CHOOSE i \in S : \A j \in S : i <= j
  IN CASE largest <= 1 -> [idx |-> 0, quality |-> 2]
       [] largest > 1 /\ InGroup # {} -> [idx |-> Least(InGroup), quality |-> 2]
       [] largest > 1 /\ InGroup = {} /\ InQuotient # {} -> [idx |-> Least(InQuotient), quality |-> 1]
       [] OTHER -> [idx |-> -1, quality |-> 0]

RECURSIVE MoreGenerators(_, _, _, _, _)
MoreGenerators(found, classes, p_subgp, candidates, m) ==
  LET orders == compOrder(classes, m)
      best == Best(orders, p_subgp, m)
      viable == candidates # <<>> /\ orders[Head(candidates)] > 1
      idx == IF viable THEN Head(candidates) ELSE best.idx
  IN IF idx = 0 THEN found
     ELSE MoreGenerators([found EXCEPT !.gens = Append(@, idx), !.ords = Append(@, orders[idx]),
                                       !.quality = Append(@, IF viable THEN 2 ELSE best.quality)],
                         conjClasses(classes, idx, m), p_subgp,
                         IF candidates = <<>> THEN <<>> ELSE Tail(candidates), m)

findGenerators(m, p, candidates) ==
  LET units == [i \in 0..(m - 1) |-> IF Coprime(i, m) THEN i ELSE 0]
      classes == conjClasses(units, p % m, m)
      p_subgp == {i \in 0..(m - 1) : classes[i] = 1}
  IN [ordP |-> Cardinality(p_subgp)] @@
       MoreGenerators([gens |-> <<>>, ords |-> <<>>, quality |-> <<>>], classes, p_subgp, candidates, m)

(***************************************************************************)
(* Every unit is one and only one product of powers of the generators,     *)
(* below their orders, and of p.                                           *)
(***************************************************************************)
GeneratorsRepresent(m, p, candidates) ==
  LET found == findGenerators(m, p, candidates)
      k == Len(found.gens)
      \* the units that come out with the first i generators, each with its multiplicity
      Reach[i \in 0..k] ==
        IF i = 0 THEN [u \in 0..(m - 1) |->
                         Cardinality({j \in 0..(found.ordP - 1) : PowerMod(p, j, m) = u})]
        ELSE [u \in 0..(m - 1) |->
                MapThenSumSet(LAMBDA e : Reach[i - 1][(u * PowerMod(InvMod(found.gens[i], m), e, m)) % m],
                              0..(found.ords[i] - 1))]
  IN \A u \in 0..(m - 1) : Reach[k][u] = (IF Coprime(u, m) THEN 1 ELSE 0)

--------------------------------------------------------------------------------
(***************************************************************************)
(* Cyclotomic (algorithm of Arnold and Monagan): half of the coefficients  *)
(* of Phi for the product of the odd primes of n, as a power series that   *)
(* is multiplied by or divided by 1 - X^d for each product d of primes;    *)
(* the other half mirrors it.  Powers of the primes, and of two, stretch   *)
(* the polynomial, and one factor of two changes the odd signs.            *)
(***************************************************************************)
\* Phi_2n(X) = Phi_n(-X) for odd n
OddSign(i, num_twos) == IF num_twos > 0 /\ i % 2 = 1 THEN -1 ELSE 1

Cyclotomic(n) ==
  LET num_twos == ord(n, 2)
      odd == n \div 2^num_twos
      facs == factorize(odd)
      k == Len(facs)
      radn == Product(facs)
      phi_radn == Product([i \in 1..k |-> facs[i] - 1])
      D == phi_radn \div 2
      Picked(bits) == {i \in 1..k : (bits \div 2^(i - 1)) % 2 = 1}
      \* A[i] -= A[i - d] from the top down, or A[i] += A[i - d] from d on up
      Times1Minus(A, d) == [i \in 0..D |-> IF i >= d THEN A[i] - A[i - d] ELSE A[i]]
      Over1Minus(A, d) ==
        LET B[i \in 0..D] == IF i >= d THEN A[i] + B[i - d] ELSE A[i] IN B
      A == FoldLeft(LAMBDA a, bits :
                      LET d == FoldSet(LAMBDA i, x : x * facs[i], 1, Picked(bits))
                      IN IF (k + Cardinality(Picked(bits))) % 2 = 0
                         THEN Times1Minus(a, d) ELSE Over1Minus(a, d),
                    [i \in 0..D |-> IF i = 0 THEN 1 ELSE 0], [b \in 1..2^k |-> b - 1])
      S == [i \in 0..D |-> OddSign(i, num_twos) * A[i]]
      q == (odd \div radn) * (IF num_twos > 0 THEN 2^(num_twos - 1) ELSE 1)
      \* coefficient of X^(i * q)
      Coefficient(i) == IF i <= D THEN S[i] ELSE S[phi_radn - i]
  IN IF odd = 1
     THEN IF num_twos = 0 THEN (0 :> -1) @@ (1 :> 1)
          ELSE [i \in 0..2^(num_twos - 1) |-> IF i \in {0, 2^(num_twos - 1)} THEN 1 ELSE 0]
     ELSE [i \in 0..(phi_radn * q) |-> IF i % q = 0 THEN Coefficient(i \div q) ELSE 0]

Degree(f) == Cardinality(DOMAIN f) - 1
PolyTimes(f, g) ==
  [i \in 0..(Degree(f) + Degree(g)) |->
     MapThenSumSet(LAMBDA j : IF i - j \in DOMAIN g THEN f[j] * g[i - j] ELSE 0, DOMAIN f)]

\* The product of Phi_d(X) over the divisors d of n is X^n - 1.
CyclotomicProduct(n) ==
  FoldSet(LAMBDA d, f : PolyTimes(f, Cyclotomic(d)), (0 :> 1), {d \in 1..n : n % d = 0})
    = [i \in 0..n |-> CASE i = 0 -> -1 [] i = n -> 1 [] OTHER -> 0]

--------------------------------------------------------------------------------
(***************************************************************************)
(* The reduction of one coefficient: PolyRed by a ZZ, and by a long.       *)
(***************************************************************************)
PolyRed(c, q, abs) ==
  LET r == c % q
  IN CASE abs -> r
       [] ~abs /\ q = 2 -> IF c < 0 THEN -r ELSE r
       [] OTHER -> IF r > q \div 2 THEN r - q ELSE r

PolyRedLong(c, q, abs) ==
  LET r == c % q
  IN CASE abs -> r
       [] ~abs /\ q = 2 -> IF c < 0 THEN -r ELSE r
       [] OTHER -> IF r >= q \div 2 THEN r - q ELSE r

\* Mutant of intVecCRT: the difference is not brought into the interval around 0.
intVecCRT_NotCentred(vp, p, vq, q) ==
  [i \in DOMAIN vp |->
     vp[i] + ((((IF i \in DOMAIN vq THEN vq[i] ELSE 0) - vp[i]) * InvMod(p % q, q)) % q) * p]

\* Entries of vp beyond those of vq are 0 modulo q.
intVecCRT(vp, p, vq, q) ==
  [i \in DOMAIN vp |->
     LET residue == IF i \in DOMAIN vq THEN vq[i] ELSE 0
         delta == ((residue - vp[i]) * InvMod(p % q, q)) % q
     IN vp[i] + (IF delta > q \div 2 THEN delta - q ELSE delta) * p]

polyEvalMod(poly, x, p) ==
  LET horner[i \in 0..Cardinality(DOMAIN poly)] ==
        IF i = Cardinality(DOMAIN poly) THEN 0 ELSE (horner[i + 1] * x + poly[i]) % p
  IN horner[0]

(***************************************************************************)
(* interpolateMod: digit by digit, an interpolation modulo p of what the   *)
(* digits found so far leave of y, divided by p.                           *)
(***************************************************************************)
\* NTL's interpolate: the polynomial modulo p through the points.
LOCAL Interpolate(x, y, p) ==
  CHOOSE f \in [0..(Len(x) - 1) -> 0..(p - 1)] :
    \A j \in 1..Len(x) : polyEvalMod(f, x[j], p) = y[j] % p

RECURSIVE recursiveInterpolateMod(_, _, _, _)
recursiveInterpolateMod(x, y, p, p2e) ==
  IF p2e <= 1 THEN [i \in 0..(Len(x) - 1) |-> 0]
  ELSE LET digit == Interpolate(x, y, p)
           rest == [j \in 1..Len(x) |-> ((y[j] - polyEvalMod(digit, x[j], p2e)) % p2e) \div p]
           poly == recursiveInterpolateMod(x, rest, p, p2e \div p)
       IN [i \in DOMAIN digit |-> p * poly[i] + digit[i]]

interpolateMod(x, y, p, e) ==
  recursiveInterpolateMod(x, [j \in 1..Len(y) |-> y[j] % p^e], p, p^e)

--------------------------------------------------------------------------------
(***************************************************************************)
(* ppInvert: the inverse of a matrix modulo p, lifted to p^r by the sum of *)
(* the powers of p * Z, of which the 2^e first are a product of e factors. *)
(***************************************************************************)
\* The matrix of the values f(i, j); TLC computes them once, where it would for each use.
LOCAL Matrix(n, f(_, _)) == [i \in 1..n |-> [j \in 1..n |-> f(i, j)] @@ <<>>] @@ <<>>
MatTimes(A, B, q) ==
  Matrix(Len(A), LAMBDA i, j : MapThenSumSet(LAMBDA l : A[i][l] * B[l][j], DOMAIN A) % q)
VecTimes(v, A, q) ==
  [j \in DOMAIN A |-> MapThenSumSet(LAMBDA l : v[l] * A[l][j], DOMAIN A) % q]
MatIdentity(n) == [i \in 1..n |-> [j \in 1..n |-> IF i = j THEN 1 ELSE 0]]
Matrices(n, q) == [1..n -> [1..n -> 0..(q - 1)]]
Invertible(A, q) == \E X \in Matrices(Len(A), q) : MatTimes(X, A, q) = MatIdentity(Len(A))

\* NTL::NextPowerOfTwo(r)
Squarings(r) == CHOOSE e \in 0..r : 2^e >= r /\ (e = 0 \/ 2^(e - 1) < r)

ppInvert(A, p, r) ==
  LET n == Len(A)
      q == p^r
      Mod(M, c) == Matrix(n, LAMBDA i, j : M[i][j] % c)
      Plus1(M) == Matrix(n, LAMBDA i, j : (M[i][j] + MatIdentity(n)[i][j]) % q)
      \* The inverse modulo p, row by row.
      XX == LET A1 == Mod(A, p)
            IN [i \in 1..n |-> CHOOSE v \in [1..n -> 0..(p - 1)] : VecTimes(v, A1, p) = MatIdentity(n)[i]] @@ <<>>
      XXA == MatTimes(XX, A, q)
      \* Z = I - XX * A, divided and multiplied by p
      pZ == Matrix(n, LAMBDA i, j : ((((MatIdentity(n)[i][j] - XXA[i][j]) % q) \div p) * p) % q)
      lift[i \in 0..Squarings(r)] ==
        CASE i = 0 -> [Z |-> pZ, prod |-> MatIdentity(n)]
          [] i = 1 -> [Z |-> pZ, prod |-> Plus1(pZ)]
          [] OTHER -> LET Z == MatTimes(lift[i - 1].Z, lift[i - 1].Z, q)
                      IN [Z |-> Z, prod |-> MatTimes(lift[i - 1].prod, Plus1(Z), q)]
  IN IF r = 1 THEN XX ELSE MatTimes(lift[Squarings(r)].prod, XX, q)

(***************************************************************************)
(* ppsolve: a solution of x * A = b modulo p^k is lifted to p^(k + 1) by   *)
(* solving for what it leaves of b, divided by p^k, modulo p.              *)
(***************************************************************************)
ppsolve(A, b, p, r) ==
  LET n == Len(A)
      I1 == CHOOSE X \in Matrices(n, p) : MatTimes(A, X, p) = MatIdentity(n)
      Mod(v) == [i \in 1..n |-> v[i] % p]
      \* the solution modulo p^k
      yy[k \in 1..r] ==
        IF k = 1 THEN VecTimes(Mod(b), I1, p)
        ELSE LET yA == VecTimes(yy[k - 1], A, p^r)
                 ee == [i \in 1..n |-> ((b[i] - yA[i]) % p^r) \div p^(k - 1)]
                 zz == VecTimes(Mod(ee), I1, p)
             IN [i \in 1..n |-> yy[k - 1][i] + p^(k - 1) * zz[i]]
  IN yy[r]
================================================================================

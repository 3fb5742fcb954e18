-------------------------------- MODULE PAlgebra --------------------------------
(***************************************************************************)
(* The structure of the plaintext slots (PAlgebra.cpp, hypercube.cpp): a   *)
(* slot for every factor of Phi_m(X) modulo p^r, in the order that makes   *)
(* an automorphism X -> X^(g^k) a rotation along one dimension.            *)
(***************************************************************************)
EXTENDS NumbTh, Polynomials

LOCAL PowerMod(a, e, m) ==
  LET pow[k \in 0..e] == IF k = 0 THEN 1 % m ELSE (pow[k - 1] * a) % m IN pow[e]
LOCAL InvMod(a, m) == CHOOSE x \in 0..(m - 1) : (a * x) % m = 1 % m

(***************************************************************************)
(* CubeSignature: the indices of a hypercube with dimensions ords.  The    *)
(* last coordinate runs fastest.  prod(d) is the size of dimensions d on.  *)
(***************************************************************************)
prod(ords, d) == FoldLeft(LAMBDA x, i : x * ords[i], 1, [k \in 1..(Len(ords) - d + 1) |-> d + k - 1])
getSize(ords) == prod(ords, 1)
getCoord(ords, i, d) == (i % prod(ords, d)) \div prod(ords, d + 1)
addCoord(ords, i, d, offset) ==
  LET i_d == getCoord(ords, i, d)
      i_d1 == (i_d + offset) % ords[d]
  IN i + (i_d1 - i_d) * prod(ords, d + 1)
breakIndexByDim(ords, idx, d) ==
  <<(idx % prod(ords, d + 1)) + (idx \div prod(ords, d)) * prod(ords, d + 1),
    (idx % prod(ords, d)) \div prod(ords, d + 1)>>
assembleIndexByDim(ords, idx, d) ==
  LET third == idx[1] % prod(ords, d + 1)
  IN (idx[1] - third) * ords[d] + idx[2] * prod(ords, d + 1) + third

(***************************************************************************)
(* The constructor: a representative T[i] of the quotient of the units by  *)
(* the powers of p for every slot, whose exponents are the coordinates of  *)
(* i; whether a dimension has the same order in the whole group (native),  *)
(* or its generator comes back as a power of p.                            *)
(***************************************************************************)
LOCAL WithSlots(found, m, p, nslots) ==
  found @@
  [m |-> m, p |-> p, nslots |-> nslots,
   native |-> [i \in DOMAIN found.gens |-> PowerMod(found.gens[i], found.ords[i], m) = 1],
   T |-> Computed([i \in 0..(nslots - 1) |->
           FoldLeft(LAMBDA t, d : (t * PowerMod(found.gens[d], getCoord(found.ords, i, d), m)) % m,
                    1, [d \in 1..Len(found.gens) |-> d])])]
LOCAL OfGenerators(found, m, p) == WithSlots(found, m, p, getSize(found.ords))

PAlgebra(m, p) == OfGenerators(findGenerators(m, p, <<>>), m, p)

numOfGens(al) == Len(al.gens)
coordinate(al, i, k) == getCoord(al.ords, k, i)

\* Exponents may be negative.
genToPow(al, i, j) ==
  IF j >= 0 THEN PowerMod(al.gens[i], j, al.m) ELSE PowerMod(InvMod(al.gens[i], al.m), -j, al.m)
frobeniusPow(al, j) == PowerMod(al.p % al.m, j, al.m)

--------------------------------------------------------------------------------
(***************************************************************************)
(* PAlgebraMod: the factors of Phi_m(X) modulo p^r.                        *)
(***************************************************************************)
\* Lexicographic order, the constant term being the most significant.
less_than(f, g) ==
  \E i \in DOMAIN f : f[i] < g[i] /\ \A j \in 0..(i - 1) : f[j] = g[j]

Monic(f) == [i \in 0..PolyLength(f) |-> IF i = PolyLength(f) THEN 1 ELSE f[i]]

\* EDF and the exchange that puts the smallest factor first.
FirstFactor(al, phimx) ==
  LET Divisors == {f \in Coefficients(al.ordP, al.p) :
                     \A i \in 0..(al.ordP - 1) : PolyRem(phimx, Monic(f), al.p)[i] = 0}
  IN Monic(CHOOSE f \in Divisors : \A g \in Divisors : g = f \/ less_than(f, g))

\* IrredPolyMod: the monic f with f(X^(1/t)) = 0 modulo F1.
FactorOf(al, F1, t) ==
  Monic(CHOOSE f \in Coefficients(al.ordP, al.p) :
          PowerSubstituted(Monic(f), InvMod(t, al.m), al.m, F1, al.p) = Constant(0, al.ordP))

\* MultiLift: the factor modulo p^r that is F modulo p.
Lifted(F, phimx, p, r) ==
  LET n == PolyLength(F) - 1
      Above(h) == [i \in 0..n |-> IF i = n THEN 1 ELSE F[i] + p * h[i]]
  IN IF r = 1 THEN F
     ELSE Above(CHOOSE h \in Coefficients(n, p^(r - 1)) :
                  PolyRem([i \in DOMAIN phimx |-> phimx[i] % p^r], Above(h), p^r) = Constant(0, n))

(***************************************************************************)
(* InvModpr: the inverse s of F modulo G, lifted from p^k to p^(k + 1) by  *)
(* the s1 that accounts for what 1 - s * F - t * G leaves, over p^k.       *)
(***************************************************************************)
InvModpr(F, G, p, r) ==
  LET n == PolyLength(G) - 1
      Modulo(f, q) == [i \in DOMAIN f |-> f[i] % q]
      s0 == CHOOSE s \in Coefficients(n, p) :
              MulMod(s, Modulo(F, p), Modulo(G, p), p) = Constant(1, n)
      ss[k \in 1..r] ==
        IF k = 1 THEN s0
        ELSE LET s == ss[k - 1]
                 \* (1 - s * F) modulo G is a multiple of p^(k - 1)
                 rest == PolyAdd(Constant(1, n), PolyScale(-1, MulMod(s, F, G, p^r), p^r), p^r)
                 d == [i \in DOMAIN rest |-> rest[i] \div p^(k - 1)]
                 s1 == MulMod(s0, Modulo(d, p), Modulo(G, p), p)
             IN Computed([i \in 0..(n - 1) |-> (s[i] + p^(k - 1) * s1[i]) % p^r])
  IN ss[r]

MaskTable(al, crtTable, q) ==
  LET n == PolyLength(crtTable[0])
  IN [i \in 1..numOfGens(al) |->
        [j \in 0..al.ords[i] |->
           IF j = 0 THEN Constant(1, n)
           ELSE FoldSet(LAMBDA k, f : PolyAdd(f, crtTable[k], q), Constant(0, n),
                        {k \in 0..(al.nslots - 1) : coordinate(al, i, k) >= j})]]

\* The stages of the constructor, each of which adds what it computes.
LOCAL WithModulus(al, Phi, r) ==
  al @@ [q |-> al.p^r, r |-> r, Phi |-> Phi,
         PhimXMod |-> Computed([i \in DOMAIN Phi |-> Phi[i] % al.p^r])]
LOCAL WithFactors(al, F1) ==
  al @@ [factors |-> Computed([i \in 0..(al.nslots - 1) |->
                       Lifted(IF i = 0 THEN F1 ELSE FactorOf(al, F1, al.T[i]), al.Phi, al.p, al.r)])]
LOCAL AllBut(al, i) == PolyQuo(al.PhimXMod, al.factors[i], al.q)
LOCAL WithCoeffs(al) ==
  al @@ [crtCoeffs |-> Computed([i \in 0..(al.nslots - 1) |->
                         InvModpr(PolyRem(AllBut(al, i), al.factors[i], al.q), al.factors[i], al.p, al.r)])]

\* crtTable[i] is 1 modulo the i-th factor and 0 modulo the others.
LOCAL WithTable(al) ==
  al @@ [crtTable |-> Computed([i \in 0..(al.nslots - 1) |-> PolyMul(AllBut(al, i), al.crtCoeffs[i], al.q)])]
LOCAL WithMasks(al) == al @@ [maskTable |-> MaskTable(al, al.crtTable, al.q)]

LOCAL Factored(al) ==
  WithMasks(WithTable(WithCoeffs(
    WithFactors(al, FirstFactor(al, [i \in DOMAIN al.Phi |-> al.Phi[i] % al.p])))))

PAlgebraMod(m, p, r) == Factored(WithModulus(PAlgebra(m, p), Cyclotomic(m), r))

(***************************************************************************)
(* CRT_reconstruct: a sum of table entries when all components are zero or *)
(* one, else the tree that combines the two halves of the slots.           *)
(***************************************************************************)
RECURSIVE evalTree(_, _, _, _)
evalTree(al, crt1, offset, extent) ==
  IF extent = 1 THEN [value |-> crt1[offset], product |-> al.factors[offset]]
  ELSE LET half == extent \div 2
           l == evalTree(al, crt1, offset, half)
           r == evalTree(al, crt1, offset + half, extent - half)
       IN [value |-> PolyAdd(PolyMul(l.value, r.product, al.q), PolyMul(r.value, l.product, al.q), al.q),
           product |-> PolyMul(l.product, r.product, al.q)]

CRT_reconstruct(al, crt) ==
  LET n == PolyLength(al.PhimXMod) - 1
      Zero == Constant(0, al.ordP)
      One == Constant(1, al.ordP)
  IN IF \A i \in DOMAIN crt : crt[i] \in {Zero, One}
     THEN FoldSet(LAMBDA i, f : PolyAdd(f, al.crtTable[i], al.q), Constant(0, n),
                  {i \in DOMAIN crt : crt[i] = One})
     ELSE evalTree(al, [i \in DOMAIN crt |-> MulMod(crt[i], al.crtCoeffs[i], al.factors[i], al.q)],
                   0, al.nslots).value

(***************************************************************************)
(* The encoding of slots that are polynomials modulo G = factors[0]: slot  *)
(* i is alpha(X^t) modulo its factor, t = T[i], and comes back by X^(1/t). *)
(***************************************************************************)
embedInSlots(al, alphas) ==
  CRT_reconstruct(al, [i \in DOMAIN alphas |->
                         PowerSubstituted(alphas[i], al.T[i], al.m, al.factors[i], al.q)])

decodePlaintext(al, ptxt) ==
  [i \in 0..(al.nslots - 1) |->
     PowerSubstituted(PolyRem(ptxt, al.factors[i], al.q), InvMod(al.T[i], al.m), al.m,
                      al.factors[0], al.q)]
================================================================================

-------------------------------- MODULE PolyEval --------------------------------
(***************************************************************************)
(* Polynomials evaluated on a ciphertext (polyEval.cpp).                   *)
(*                                                                         *)
(* A ciphertext is what one slot holds, an integer x modulo the plaintext  *)
(* space, and the depth of the products that made it.  It may be without   *)
(* parts, and is not ok if an assertion failed on the way or a power was   *)
(* asked for that there is no room for.  Polynomials are functions on      *)
(* 0..degree, the zero polynomial is <<>>.                                 *)
(***************************************************************************)
EXTENDS Polynomials

LOCAL Most(x, y) == IF x < y THEN y ELSE x
LOCAL Least(x, y) == IF x < y THEN x ELSE y
LOCAL DivC(a, b) == (a + b - 1) \div b
NextPowerOfTwo(n) == CHOOSE k \in 0..n : 2^k >= n /\ \A l \in 0..(k - 1) : 2^l < n

Fresh(x, space) == [x |-> x % space, space |-> space, depth |-> 0, parts |-> TRUE, ok |-> TRUE]
Cleared(c) == [c EXCEPT !.x = 0, !.depth = 0, !.parts = FALSE]

\* The plaintext spaces are powers of a prime; of two the smaller one is left.
multiplyBy(c, other) ==
  LET space == Least(c.space, other.space)
  IN IF ~c.parts THEN [c EXCEPT !.ok = @ /\ other.ok]
     ELSE IF ~other.parts THEN [other EXCEPT !.ok = @ /\ c.ok]
     ELSE [x |-> (c.x * other.x) % space, space |-> space, depth |-> Most(c.depth, other.depth) + 1,
           parts |-> TRUE, ok |-> c.ok /\ other.ok]
Combined(c, other, sign) ==
  LET space == Least(c.space, other.space)
  IN IF ~other.parts THEN [c EXCEPT !.ok = @ /\ other.ok]
     ELSE IF ~c.parts THEN [other EXCEPT !.x = (sign * @) % other.space, !.ok = @ /\ c.ok]
     ELSE [x |-> (c.x + sign * other.x) % space, space |-> space, depth |-> Most(c.depth, other.depth),
           parts |-> TRUE, ok |-> c.ok /\ other.ok]
Plus(c, other) == Combined(c, other, 1)
Minus(c, other) == Combined(c, other, -1)
multByConstant(c, k) ==
  IF c.parts /\ k % c.space = 0 THEN Cleared(c) ELSE [c EXCEPT !.x = (@ * k) % c.space]
addConstant(c, k) ==
  IF k % c.space = 0 THEN c ELSE [c EXCEPT !.x = (@ + k) % c.space, !.parts = TRUE]

--------------------------------------------------------------------------------
(***************************************************************************)
(* DynamicCtxtPowers: room for the first powers of base.                   *)
(***************************************************************************)
Powers(base, size) == [base |-> [base EXCEPT !.ok = @ /\ base.parts /\ size > 0], size |-> size]

RECURSIVE PowerOf(_, _)
PowerOf(base, e) ==
  LET k == 2^(NextPowerOfTwo(e) - 1)
  IN IF e = 1 THEN base ELSE multiplyBy(PowerOf(base, e - k), PowerOf(base, k))
getPower(steps, e) ==
  IF e \in 1..steps.size THEN PowerOf(steps.base, e) ELSE [steps.base EXCEPT !.ok = FALSE]

\* Ctxt::power
power(c, e) ==
  IF 2^NextPowerOfTwo(e) = e
  THEN FoldLeft(LAMBDA y, i : multiplyBy(y, y), c, [i \in 1..NextPowerOfTwo(e) |-> i])
  ELSE getPower(Powers(c, e), e)

--------------------------------------------------------------------------------
(***************************************************************************)
(* The operations of ZZX, modulo q.                                        *)
(***************************************************************************)
deg(poly) == Cardinality(DOMAIN poly) - 1
coeff(poly, i) == IF i \in DOMAIN poly THEN poly[i] ELSE 0
normalize(poly) ==
  LET n == CHOOSE d \in 0..Cardinality(DOMAIN poly) :
             (d = 0 \/ poly[d - 1] # 0) /\ \A i \in d..deg(poly) : poly[i] = 0
  IN Computed([i \in 0..(n - 1) |-> poly[i]])
SetCoeff(poly, i, c, q) ==
  normalize([j \in 0..Most(i, deg(poly)) |-> IF j = i THEN c % q ELSE coeff(poly, j)])
trunc(poly, n) == normalize([i \in 0..(Least(n, deg(poly) + 1) - 1) |-> poly[i]])
RightShift(poly, n) == normalize([i \in 0..(deg(poly) - n) |-> poly[i + n]])

(***************************************************************************)
(* The coefficients are taken around zero, and those that are zero modulo  *)
(* the plaintext space clear the power that they multiply.                 *)
(***************************************************************************)
Balanced(c, q) == IF c % q > q \div 2 THEN (c % q) - q ELSE c % q
simplePolyEval(ret, poly, babyStep) ==
  LET q == babyStep.base.space
      Term(i) == multByConstant(getPower(babyStep, i), Balanced(poly[i], q))
      Sum == FoldLeft(Plus, Cleared(ret), [i \in 1..deg(poly) |-> Term(i)])
  IN IF poly = <<>> THEN Cleared(ret)
     ELSE [addConstant(Sum, Balanced(poly[0], q)) EXCEPT !.ok = @ /\ deg(poly) <= babyStep.size]

(***************************************************************************)
(* poly is monic of degree k*(2t - 1) + delta, for a power of two t; it is *)
(* (c + X^(k*t)) * q + s with monic q and s.                               *)
(***************************************************************************)
QuotientAndRest(r, q, p) ==
  [q |-> q,
   c |-> IF deg(r) < deg(q) THEN <<>> ELSE normalize(PolyQuo(r, q, p)),
   s |-> SetCoeff(IF deg(r) < deg(q) THEN r ELSE PolyRem(r, q, p), deg(q), 1, p)]
SplitAt(low, q, p) == QuotientAndRest(SetCoeff(low, deg(q), coeff(low, deg(q)) - 1, p), q, p)

RECURSIVE PatersonStockmeyer(_, _, _, _, _, _, _)
EvalSplit(ret, f, k, t, delta, babyStep, giantStep) ==
  LET left == PatersonStockmeyer(ret, f.q, k, t \div 2, delta, babyStep, giantStep)
      factor == Plus(simplePolyEval(ret, f.c, babyStep), getPower(giantStep, t))
      right == PatersonStockmeyer(ret, f.s, k, t \div 2, delta, babyStep, giantStep)
  IN [Plus(multiplyBy(left, factor), right) EXCEPT !.ok = @ /\ (f.c = <<>> \/ deg(f.c) < k - delta)]

PatersonStockmeyer(ret, poly, k, t, delta, babyStep, giantStep) ==
  IF deg(poly) <= babyStep.size THEN simplePolyEval(ret, poly, babyStep)
  ELSE EvalSplit(ret, SplitAt(trunc(poly, k * t), RightShift(poly, k * t), babyStep.base.space),
                 k, t, delta, babyStep, giantStep)

(***************************************************************************)
(* The degree of poly is above k*(2^e - 1) and below k*(2^e + 1): poly is  *)
(* q * X^(k*(n - 1)) + r with a monic r.                                   *)
(***************************************************************************)
LessOne(q, p) == SetCoeff(q, 0, coeff(q, 0) - 1, p)
degPowerOfTwo(ret, poly, k, babyStep, giantStep) ==
  LET p == babyStep.base.space
      n == 2^NextPowerOfTwo(deg(poly) \div k)
      r == SetCoeff(trunc(poly, (n - 1) * k), (n - 1) * k, 1, p)
      high == FoldLeft(multiplyBy, simplePolyEval(ret, LessOne(RightShift(poly, (n - 1) * k), p), babyStep),
                       [i \in 1..NextPowerOfTwo(n) |-> getPower(giantStep, 2^(i - 1))])
  IN IF deg(poly) <= babyStep.size THEN simplePolyEval(ret, poly, babyStep)
     ELSE Plus(PatersonStockmeyer(ret, r, k, n \div 2, 0, babyStep, giantStep), high)

(***************************************************************************)
(* Any other degree: poly is q * X^u + r, where r has the degree u, and q  *)
(* is monic of degree k*(t - 1).                                           *)
(***************************************************************************)
XToThe(u, k, delta, babyStep, giantStep) ==
  IF delta = 0 THEN getPower(giantStep, u \div k)
  ELSE multiplyBy(getPower(giantStep, u \div k), getPower(babyStep, delta))

RECURSIVE recursivePolyEval(_, _, _, _, _)
EvalAbove(ret, poly, k, t, u, babyStep, giantStep) ==
  LET p == babyStep.base.space
      high == multiplyBy(PatersonStockmeyer(ret, LessOne(RightShift(poly, u), p), k, t \div 2, 0, babyStep, giantStep),
                         XToThe(u, k, deg(poly) % k, babyStep, giantStep))
  IN Plus(high, recursivePolyEval(ret, SetCoeff(trunc(poly, u), u, 1, p), k, babyStep, giantStep))

recursivePolyEval(ret, poly, k, babyStep, giantStep) ==
  LET delta == deg(poly) % k
      n == DivC(deg(poly), k)
      t == 2^NextPowerOfTwo(n)
  IN IF deg(poly) <= babyStep.size THEN simplePolyEval(ret, poly, babyStep)
     ELSE IF n = t THEN degPowerOfTwo(ret, poly, k, babyStep, giantStep)
     ELSE IF n = t - 1 /\ delta = 0 THEN PatersonStockmeyer(ret, poly, k, t \div 2, delta, babyStep, giantStep)
     ELSE EvalAbove(ret, poly, k, t \div 2, deg(poly) - k * (t \div 2 - 1), babyStep, giantStep)

--------------------------------------------------------------------------------
(***************************************************************************)
(* polyEval with a polynomial in the clear.  With k = 0 the number of baby *)
(* steps is a power of two near the root of half the degree.               *)
(***************************************************************************)
BabySteps(d) ==
  LET kk == CHOOSE x \in 0..d : 2 * x * x <= d /\ d < 2 * (x + 1) * (x + 1)
      k == 2^NextPowerOfTwo(kk)
  IN IF (k = 16 /\ d > 167) \/ (k > 16 /\ 100 * k > 144 * kk) THEN k \div 2 ELSE k

\* The inverse, or 0 if there is none.
InvMod(c, q) == IF \E y \in 0..(q - 1) : (c * y) % q = 1 THEN CHOOSE y \in 0..(q - 1) : (c * y) % q = 1 ELSE 0

\* The polynomial made monic of degree n * k: its factor top, and extra * X^(n * k) that was added.
Monic(poly, n, k, q) ==
  LET topInv == InvMod(poly[deg(poly)], q)
  IN IF n * k # deg(poly) \/ topInv = 0
     THEN [top |-> 1, extra |-> (1 - coeff(poly, n * k)) % q, poly |-> SetCoeff(poly, n * k, 1, q)]
     ELSE [top |-> poly[deg(poly)], extra |-> 0, poly |-> normalize(PolyScale(topInv, poly, q))]

\* Mutant of LessExtra: the term that was added is not subtracted.
LessExtra_Kept(y, extra, n, giantStep) == y

LessExtra(y, extra, n, giantStep) ==
  IF extra = 0 THEN y ELSE Minus(y, multByConstant(getPower(giantStep, n), extra))
EvalMonic(ret, monic, n, k, babyStep, giantStep) ==
  LessExtra(multByConstant(recursivePolyEval(ret, monic.poly, k, babyStep, giantStep), monic.top),
            monic.extra, n, giantStep)
GiantSteps(monic, n, x2k) == Powers(x2k, IF monic.extra = 0 THEN DivC(n, 2) ELSE n)

EvalLong(ret, poly, monic, n, k, babyStep, x2k) ==
  IF n = 2^NextPowerOfTwo(n) THEN degPowerOfTwo(ret, poly, k, babyStep, Powers(x2k, n \div 2))
  ELSE EvalMonic(ret, monic, n, k, babyStep, GiantSteps(monic, n, x2k))

EvalWith(ret, poly, x, k) ==
  LET n == DivC(deg(poly), k)
  IN EvalLong(ret, poly, Monic(poly, n, k, x.space), n, k, Powers(x, k), getPower(Powers(x, k), k))

polyEval(ret, poly, x, k) ==
  IF deg(poly) < 1 THEN addConstant(Cleared(ret), coeff(poly, 0))
  ELSE IF deg(poly) <= 2 THEN simplePolyEval(ret, poly, Powers(x, deg(poly)))
  ELSE EvalWith(ret, poly, x, IF k > 0 THEN k ELSE BabySteps(deg(poly)))

--------------------------------------------------------------------------------
(***************************************************************************)
(* polyEval with an encrypted polynomial, a sequence of ciphertexts with   *)
(* the free term first: p0 + (p1 + p2 * X^d) * X^d.                        *)
(***************************************************************************)
Squared(x, i) == FoldLeft(LAMBDA c, j : multiplyBy(c, c), x, [j \in 1..i |-> j])

RECURSIVE EvalPart(_, _, _)
EvalPart(ret, poly, x) ==
  LET logD == NextPowerOfTwo(Len(poly)) - 1
      d == 2^logD
  IN IF poly = <<>> THEN Cleared(ret)
     ELSE IF Len(poly) = 1 THEN poly[1]
     ELSE Plus(EvalPart(ret, SubSeq(poly, 1, d), x),
               multiplyBy(EvalPart(ret, SubSeq(poly, d + 1, Len(poly)), x), Squared(x, logD)))

polyEvalEncrypted(ret, poly, x) ==
  LET logD == NextPowerOfTwo(DivC(Len(poly), 3))
      d == 2^logD
      X2d == Squared(x, logD)
      p1 == EvalPart(ret, SubSeq(poly, d + 1, Least(2 * d, Len(poly))), x)
      p2 == EvalPart(ret, SubSeq(poly, 2 * d + 1, Len(poly)), x)
      upper == IF Len(poly) > 2 * d THEN Plus(p1, multiplyBy(p2, X2d)) ELSE p1
  IN IF Len(poly) <= 1 THEN EvalPart(ret, poly, x)
     ELSE [Plus(multiplyBy(upper, X2d), EvalPart(ret, SubSeq(poly, 1, d), x))
             EXCEPT !.ok = @ /\ d <= Len(poly) - 1 /\ Len(poly) - 1 < 3 * d]
================================================================================

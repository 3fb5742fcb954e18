------------------------------- MODULE Recryption -------------------------------
(***************************************************************************)
(* Digits in base p of encrypted numbers (extractDigits.cpp) and the       *)
(* recryption that they serve (recryption.cpp), as one slot sees it: the   *)
(* ciphertexts are those of PolyEval.  The linear maps between the slots   *)
(* and the coefficients that recryption makes rigid are not modelled, nor  *)
(* is the integer factor that it takes off and puts back.                  *)
(***************************************************************************)
EXTENDS PolyEval

LOCAL Nt == INSTANCE NumbTh

LOCAL Smaller(x, y) == IF x < y THEN x ELSE y

divideByP(c, p) ==
  IF ~c.parts THEN c
  ELSE [c EXCEPT !.x = (@ % c.space) \div p, !.space = @ \div p,
                 !.ok = @ /\ c.space % p = 0 /\ c.space > p /\ c.x % p = 0]
multByP(c, p, e) == multByConstant([c EXCEPT !.space = @ * p^e], p^e)
negate(c) == [c EXCEPT !.x = (-@) % c.space]
cube(c) == multiplyBy(multiplyBy(c, c), c)
reducePtxtSpace(c, space) == [c EXCEPT !.x = @ % Smaller(c.space, space), !.space = Smaller(@, space)]
effectiveR(c, p) == CHOOSE r \in 1..c.space : p^r = c.space

--------------------------------------------------------------------------------
(***************************************************************************)
(* The polynomial X^p + f, with f(z) = z - z^p for every digit z.          *)
(***************************************************************************)
buildDigitPolynomial(p, e) ==
  LET z == [j \in 1..p |-> j - 1 - p \div 2]
      f == Nt!interpolateMod(z, [j \in 1..p |-> z[j] - z[j]^p], p, e)
  IN [i \in 0..p |-> IF i = p THEN 1 ELSE f[i]]

\* The next digit knows its value modulo one more power of p.
Lifted(digit, p, x2p) ==
  IF p = 2 THEN multiplyBy(digit, digit) ELSE IF p = 3 THEN cube(digit) ELSE polyEval(digit, x2p, digit, 0)
LiftingPolynomial(p, e) == IF p > 3 /\ e > 1 THEN buildDigitPolynomial(p, e) ELSE <<>>

\* What some digits leave of c.
LOCAL LeftOf(c, digits, p) == FoldLeft(LAMBDA t, d : divideByP(Minus(t, d), p), c, digits)
LOCAL NextDigit(c, lifted, p) == Append(lifted, LeftOf(c, lifted, p))
LOCAL LiftAll(digits, p, x2p) == [j \in DOMAIN digits |-> Lifted(digits[j], p, x2p)]
DigitsWith(c, n, p, x2p) ==
  FoldLeft(LAMBDA digits, i : NextDigit(c, LiftAll(digits, p, x2p), p), <<>>, [i \in 1..n |-> i])

extractDigits(c, r, p) ==
  LET n == IF r <= 0 \/ r > effectiveR(c, p) THEN effectiveR(c, p) ELSE r
  IN DigitsWith(c, n, p, LiftingPolynomial(p, n))

--------------------------------------------------------------------------------
(***************************************************************************)
(* The polynomial of Chen and Han, whose value is the digit modulo p^e at  *)
(* once: X less the sum of a[m] * X * (X - 1) * ... * (X - m + 1), shifted *)
(* by half of p for the digits around zero.  a is a power series times     *)
(* m!, divided by it modulo p^e.                                           *)
(***************************************************************************)
LOCAL Length(p, e) == (e - 1) * (p - 1) + 2
LOCAL X(c) == 0 :> c @@ 1 :> 1          \* X + c
PolyPower(f, n, q) == FoldLeft(LAMBDA g, i : PolyMul(g, f, q), 0 :> 1, [i \in 1..n |-> i])

\* The inverse of a series whose constant term is 1.
InvTrunc(f, n, q) ==
  LET g[i \in 0..(n - 1)] ==
        IF i = 0 THEN 1 ELSE FoldSet(LAMBDA j, s : s - coeff(f, j) * g[i - j], 0, 1..i) % q
  IN Computed(g)

\* The greatest common divisor of x and p^e.
GcdOfPower(x, p, e) == p^(CHOOSE i \in 0..e : x % p^i = 0 /\ (i = e \/ x % p^(i + 1) # 0))

\* (X + 1)^p over (X + 1)^p - X^p
Quotient(numerator, p, n, q) ==
  PolyMul(numerator, InvTrunc(normalize([numerator EXCEPT ![p] = 0]), n, q), q)

\* m!'s inverse, where p^i is what it shares with the modulus, times c; or -1 where the division fails.
DividedBy(c, m, d, p, e) ==
  IF d > p^e \/ c % d # 0 THEN -1 ELSE ((c \div d) * InvMod((m \div d) % p^e, p^e)) % p^e

compute_a_vals(p, e) ==
  LET q == p^(2 * e)
      poly == Quotient(PolyPower(X(1), p, q), p, Length(p, e), q)
      factorial[m \in 0..(Length(p, e) - 1)] == IF m = 0 THEN 1 ELSE (m * factorial[m - 1]) % q
      Entry(c, m) == DividedBy(c, m, GcdOfPower(m, p, 2 * e), p, e)
  IN Computed([m \in p..(Length(p, e) - 1) |-> Entry((p * poly[m]) % q, factorial[m])])

Substituted(f, g, q) == \* f(g)
  FoldLeft(LAMBDA y, c : PolyAdd(PolyMul(y, g, q), 0 :> c, q), 0 :> 0, [j \in 1..(deg(f) + 1) |-> f[deg(f) + 1 - j]])
ShiftedFor(p, f, q) == IF p % 2 = 1 THEN Substituted(f, X((p - 1) \div 2), q) ELSE f

LOCAL MagicFrom(a, p, q) ==
  LET Falling(m) == FoldLeft(LAMBDA y, i : PolyMul(y, X(-i % q), q), 0 :> 1, [j \in 1..m |-> j - 1])
      poly == FoldSet(LAMBDA m, y : PolyAdd(y, PolyScale(a[m], Falling(m), q), q), 0 :> 0, DOMAIN a)
  IN IF -1 \in Range(a) THEN <<>>
     ELSE normalize(PolyAdd(X(0), PolyScale(-1, ShiftedFor(p, poly, q), q), q))
compute_magic_poly(p, e) == MagicFrom(compute_a_vals(p, e), p, p^e)

(***************************************************************************)
(* Each digit has two ciphertexts, raw for the next rounds and done with   *)
(* the polynomial of Chen and Han.  A raw digit loses capacity whenever it *)
(* is lifted; after some rounds, a number left open, done has more.        *)
(***************************************************************************)
LOCAL Both(lifted, done, rest, magic) ==
  [raw |-> Append(lifted, rest),
   done |-> Append(done, [polyEval(rest, magic, rest, 0) EXCEPT !.ok = @ /\ magic # <<>>])]
LOCAL Better(lifted, done, rounds) ==
  [j \in DOMAIN lifted |-> IF Len(lifted) + 1 - j > rounds THEN done[j] ELSE lifted[j]]
LOCAL LiftSome(raw, p, x2p, rounds) ==
  [j \in DOMAIN raw |-> IF Len(raw) + 1 - j > rounds THEN raw[j] ELSE Lifted(raw[j], p, x2p)]
LOCAL WithDigit(c, lifted, done, magic, rounds, p) ==
  Both(lifted, done, LeftOf(c, Better(lifted, done, rounds), p), magic)

ExtendedWith(c, r, p, x2p, G, rounds) ==
  FoldLeft(LAMBDA s, poly : WithDigit(c, LiftSome(s.raw, p, x2p, rounds), s.done, poly, rounds, p),
           [raw |-> <<>>, done |-> <<>>], G).done

extendExtractDigits(c, r, e, p, rounds) ==
  ExtendedWith(c, r, p, LiftingPolynomial(p, r),
               [i \in 1..r |-> compute_magic_poly(p, e + r + 1 - i)], rounds)

--------------------------------------------------------------------------------
(***************************************************************************)
(* extractDigitsThin: the low digits less the high ones.  The technique is *)
(* chosen by the degrees it leads to, unless one is forced (force # 0).    *)
(***************************************************************************)
UsesChenHan(p, r, botHigh, force) ==
  LET exponent == IF p = 2 /\ r > 2 /\ botHigh + r > 2 THEN r - 1 ELSE r
  IN \/ force > 0
     \/ force = 0 /\ r > 1 /\ IF p = 2 THEN p^(4 * exponent) > ((p - 1) * r)^7
                                      ELSE p^(2 * exponent) > ((p - 1) * r)^3

\* digits[from] + p * digits[from + 1] + ... + p^(to - from) * digits[to], counted from 0
Recombined(digits, from, to, p) ==
  FoldLeft(LAMBDA s, i : Plus(multByP(s, p, 1), digits[to - i + 1]),
           digits[to + 1], [i \in 1..(to - from) |-> i])

\* For p = 2 the bit below the high ones rounds them.
LOCAL WithRoundingBit(high, digits, botHigh, p) ==
  IF p = 2 /\ botHigh > 0 THEN Plus(high, digits[botHigh]) ELSE high
LOCAL Scaled(low, ePrime, p) == IF ePrime > 0 THEN multByP(low, p, ePrime) ELSE low
LOCAL WithLowDigits(high, digits, r, ePrime, p) ==
  IF r <= ePrime THEN high
  ELSE Plus(high, Scaled(Recombined(digits, 0, r - 1 - ePrime, p), ePrime, p))

\* Mutant of TopDigit: the free bit is taken for r = 2, too.
TopDigit_FreeBitEarly(p, r, botHigh) == IF p = 2 /\ r > 1 THEN botHigh + r - 2 ELSE botHigh + r - 1

\* For p = 2 the squares of the lower digits give one bit more than was asked for.
TopDigit(p, r, botHigh) ==
  IF p = 2 /\ r > 2 /\ botHigh + r > 2 THEN botHigh + r - 2 ELSE botHigh + r - 1

Thin(c, digits, extended, botHigh, r, ePrime, p) ==
  LET topHigh == Smaller(TopDigit(p, r, botHigh), Len(digits) - 1)
      high == IF extended THEN LeftOf(c, SubSeq(digits, 1, botHigh), p) ELSE Recombined(digits, botHigh, topHigh, p)
  IN reducePtxtSpace(WithLowDigits(negate(WithRoundingBit(high, digits, botHigh, p)), digits, r, ePrime, p), p^r)

extractDigitsThin(c, botHigh, r, ePrime, p, force, rounds) ==
  LET extended == UsesChenHan(p, r, botHigh, force)
  IN Thin(c, IF extended THEN extendExtractDigits(c, botHigh, r, p, rounds)
             ELSE extractDigits(c, TopDigit(p, r, botHigh) + 1, p),
          extended, botHigh, r, ePrime, p)

(***************************************************************************)
(* thinReCrypt: the two parts, modulo q = p^e + 1, become multiples of     *)
(* p^e' by small multiples of q, are divided by it, and decrypted under    *)
(* encryption with the key s, modulo p^(e - e' + r).  The remainder in the *)
(* middle goes up or down by the coin if p = 2.                            *)
(***************************************************************************)
newMakeDivisible(z, p, p2e, q, coin) ==
  LET zMod == z % p2e
      up == zMod > p2e \div 2 \/ (p = 2 /\ zMod = p2e \div 2 /\ coin = 1)
  IN IF p2e = 1 THEN z ELSE z + q * (IF up THEN p2e - zMod ELSE -zMod)

thinReCrypt(parts, s, p, r, e, ePrime, coin, force, rounds) ==
  LET q == p^e + 1
      part(i) == newMakeDivisible(parts[i], p, p^ePrime, q, coin) \div p^ePrime
      space == p^(e - ePrime + r)
  IN extractDigitsThin(addConstant(multByConstant(Fresh(s, space), part(2)), part(1)),
                       e - ePrime, r, ePrime, p, force, rounds)
================================================================================

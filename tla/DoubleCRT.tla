------------------------------- MODULE DoubleCRT -------------------------------
(***************************************************************************)
(* Polynomials modulo Phi_m(X) and a product of primes, as the table of    *)
(* their values in the primitive m-th roots of unity modulo each prime     *)
(* (DoubleCRT.cpp).  A table is a function on the indices of its primes,   *)
(* its IndexSet; a row is a function on the units modulo m, whose order in *)
(* the code's vectors does not matter here.  A polynomial is a function    *)
(* from 0..phim - 1 to the integers.                                       *)
(***************************************************************************)
EXTENDS Context

InvMod(a, q) == CHOOSE x \in 1..(q - 1) : (a * x) % q = 1

\* The values of f on the set S, added modulo q.
LOCAL SumMod(f(_), S, q) == FoldSet(LAMBDA k, x : (x + f(k)) % q, 0, S)

Rows(cx, S, row(_, _)) ==
  Computed([i \in S |-> Computed([k \in cx.units |-> row(i, k) % cx.q[i]])])

Zero(cx, S) == Rows(cx, S, LAMBDA i, k : 0)

--------------------------------------------------------------------------------
(***************************************************************************)
(* FFT and toPoly.  toPoly takes the remainders modulo all the primes of   *)
(* the table together, and the result in the interval around zero.         *)
(***************************************************************************)
FFT(cx, poly, S) ==
  Rows(cx, S, LAMBDA i, k :
         SumMod(LAMBDA j : (poly[j] % cx.q[i]) * cx.pow[i][(j * k) % cx.m], DOMAIN poly, cx.q[i]))

\* The coefficient of X^j that the values of one row belong to.
iFFT(cx, row, i, j) == SumMod(LAMBDA k : row[k] * cx.inv[i][j][k], cx.units, cx.q[i])

Balanced(x, Q) == IF x >= (Q + 1) \div 2 THEN x - Q ELSE x

\* The multiple of all primes but q[i] that is x modulo q[i].
LOCAL Lifting(others, x, q) == others * ((x * InvMod(others % q, q)) % q)
LOCAL Remaindered(cx, d, j, Q) ==
  Balanced(SumMod(LAMBDA i : Lifting(Q \div cx.q[i], iFFT(cx, d[i], i, j), cx.q[i]),
                  DOMAIN d, Q), Q)
toPoly(cx, d) ==
  Computed([j \in 0..(cx.phim - 1) |-> Remaindered(cx, d, j, productOfPrimes(cx, DOMAIN d))])

--------------------------------------------------------------------------------
(***************************************************************************)
(* Op, and the operations that work row by row.  The primes of the first   *)
(* operand have to be among those of the second.                           *)
(***************************************************************************)
Add(cx, d, other) == Rows(cx, DOMAIN d, LAMBDA i, k : d[i][k] + other[i][k])
Sub(cx, d, other) == Rows(cx, DOMAIN d, LAMBDA i, k : d[i][k] - other[i][k])
Mul(cx, d, other) == Rows(cx, DOMAIN d, LAMBDA i, k : d[i][k] * other[i][k])
Negate(cx, d) == Rows(cx, DOMAIN d, LAMBDA i, k : -d[i][k])
MulNum(cx, d, n) == Rows(cx, DOMAIN d, LAMBDA i, k : d[i][k] * (n % cx.q[i]))

LOCAL MulEach(cx, d, n) == Rows(cx, DOMAIN d, LAMBDA i, k : d[i][k] * n[i])
DivNum(cx, d, n) == MulEach(cx, d, Computed([i \in DOMAIN d |-> InvMod(n % cx.q[i], cx.q[i])]))

Exp(cx, d, e) == FoldLeft(LAMBDA x, n : Mul(cx, x, d), d, [n \in 1..(e - 1) |-> n])

\* new[j] = old[j*k mod m]
automorph(cx, d, k) == Rows(cx, DOMAIN d, LAMBDA i, j : d[i][(j * k) % cx.m])

removePrimes(d, S) == [i \in (DOMAIN d) \ S |-> d[i]]

addPrimes(cx, d, S) == IF DOMAIN d = {} THEN Zero(cx, S) ELSE d @@ FFT(cx, toPoly(cx, d), S)

addPrimesAndScale(cx, d, S) ==
  IF DOMAIN d = {} THEN Zero(cx, S) ELSE MulNum(cx, d, productOfPrimes(cx, S)) @@ Zero(cx, S)

--------------------------------------------------------------------------------
(***************************************************************************)
(* scaleDownToSet: delta is the table modulo the primes that go, as a      *)
(* polynomial, made divisible by ptxtSpace.  What is left without it is    *)
(* divisible by the product of these primes, and is the same modulo        *)
(* ptxtSpace.                                                              *)
(***************************************************************************)
LOCAL Centred(x, c, ptxtSpace) ==
  IF 2 * x > ptxtSpace \/ (2 * x = ptxtSpace /\ c < 0) THEN x - ptxtSpace ELSE x
LOCAL Without(c, Q, QInv, ptxtSpace) ==
  c - Q * Centred(((c % ptxtSpace) * QInv) % ptxtSpace, c, ptxtSpace)
DivisibleBy(delta, ptxtSpace, Q) ==
  Computed([j \in DOMAIN delta |->
              Without(delta[j], Q, InvMod(Q % ptxtSpace, ptxtSpace), ptxtSpace)])

LOCAL WithoutDelta(cx, d, dropped, delta) ==
  [delta |-> delta,
   dcrt |-> DivNum(cx, Sub(cx, removePrimes(d, dropped), FFT(cx, delta, (DOMAIN d) \ dropped)),
                   productOfPrimes(cx, dropped))]
scaleDownToSet(cx, d, S, ptxtSpace) ==
  WithoutDelta(cx, d, (DOMAIN d) \ S,
               DivisibleBy(toPoly(cx, removePrimes(d, S)), ptxtSpace,
                           productOfPrimes(cx, (DOMAIN d) \ S)))

(***************************************************************************)
(* breakIntoDigits: a digit is the table modulo those primes of its set    *)
(* that are there, and from this polynomial modulo all primes.  The later  *)
(* digits lose it and are divided by the product of all primes of its set, *)
(* those that are not there included.                                      *)
(***************************************************************************)
NextDigits(cx, later, digit, there, i) ==
  [j \in DOMAIN later |-> DivNum(cx, Sub(cx, later[j], digit), productOfPrimes(cx, cx.digits[i]))]

\* later[j] for j in i..n are what is left of the digits that come.
RECURSIVE DigitsFrom(_, _, _, _, _)
LOCAL ThenDigits(cx, allPrimes, later, digit, i, n) ==
  <<digit>>
    \o DigitsFrom(cx, allPrimes,
                  Computed(NextDigits(cx, [j \in (i + 1)..n |-> later[j]], digit, DOMAIN later[i], i)),
                  i + 1, n)
DigitsFrom(cx, allPrimes, later, i, n) ==
  IF i > n THEN <<>>
  ELSE ThenDigits(cx, allPrimes, later, addPrimes(cx, later[i], allPrimes \ DOMAIN later[i]), i, n)

\* The digits are those up to the last one that has primes in S.
NrDigits(cx, S) ==
  CHOOSE n \in 0..Len(cx.digits) : /\ S \subseteq UNION {cx.digits[j] : j \in 1..n}
                                   /\ n > 0 => S \intersect cx.digits[n] # {}
breakIntoDigits(cx, d) ==
  DigitsFrom(cx, (DOMAIN d) \union cx.special,
             [j \in 1..NrDigits(cx, DOMAIN d) |-> removePrimes(d, (DOMAIN d) \ cx.digits[j])],
             1, NrDigits(cx, DOMAIN d))
================================================================================

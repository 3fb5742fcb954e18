---------------------------------- MODULE Ctxt ----------------------------------
(***************************************************************************)
(* The operations on ciphertexts of the BGV scheme (Ctxt.cpp): which parts *)
(* a result has, modulo which primes, for which plaintext space, with      *)
(* which factor, and how much noise it may have.                           *)
(*                                                                         *)
(* Sizes are compared in logarithms in the code and as integers here,      *)
(* rounded up for noise and down for a size that is left.                  *)
(***************************************************************************)
EXTENDS Keys

\* Above every product of primes: noise of this size is never correct.
MaxNoise == 2^30
CappedTimes(a, b) == IF b # 0 /\ a > MaxNoise \div b THEN MaxNoise ELSE a * b
CappedPlus(a, b) == IF a > MaxNoise - b THEN MaxNoise ELSE a + b
LOCAL CeilDiv(a, b) == a \div b + (IF a % b = 0 THEN 0 ELSE 1)

\* a / b < c / d
RECURSIVE LessRatio(_, _, _, _)
LessRatio(a, b, c, d) ==
  IF a \div b # c \div d THEN a \div b < c \div d
  ELSE c % d # 0 /\ (a % b = 0 \/ LessRatio(d, c % d, b, a % b))

Handles(c) == {c.parts[i].handle : i \in DOMAIN c.parts}
Modulus(cx, c) == productOfPrimes(cx, c.primeSet)
isEmpty(c) == c.parts = <<>>
isBase(handle, keyID) ==
  handle.powerOfS = 1 /\ handle.powerOfX = 1 /\ (keyID < 0 \/ handle.secretKeyID = keyID)
inCanonicalForm(c, keyID) ==
  /\ Len(c.parts) <= 2
  /\ Len(c.parts) > 0 => isOne(c.parts[1].handle)
  /\ Len(c.parts) > 1 => isBase(c.parts[2].handle, keyID)

\* noise * normBnd <= 0.48 * Q, in the polynomial basis
LargestNoise(cx, Q) == 48 * (Q \div cx.normBnd100) + (48 * (Q % cx.normBnd100)) \div cx.normBnd100
isCorrect(cx, c) == c.noiseBound <= LargestNoise(cx, Modulus(cx, c))

\* Whether c has less capacity, the ratio of modulus and noise, than d.
LOCAL AtLeastOne(n) == IF n < 1 THEN 1 ELSE n
LessCapacity(cx, c, d) ==
  LessRatio(Modulus(cx, c), AtLeastOne(c.noiseBound), Modulus(cx, d), AtLeastOne(d.noiseBound))

\* All special primes or none, and an interval of the primes for ciphertexts.
verifyPrimeSet(cx, S) ==
  /\ S \intersect cx.special \in {{}, cx.special}
  /\ \A i, k \in S \intersect cx.ctxt : i..k \subseteq S

getKeyID(c) ==
  LET others == SelectSeq(c.parts, LAMBDA part : ~isOne(part.handle))
  IN IF others = <<>> THEN 0 ELSE Head(others).handle.secretKeyID

--------------------------------------------------------------------------------
(***************************************************************************)
(* Parts.                                                                  *)
(***************************************************************************)
EachPart(c, f(_)) == [c EXCEPT !.parts = [i \in DOMAIN @ |-> [@[i] EXCEPT !.dcrt = f(@)]]]

\* Mutant of addPart: appended also to a part of the same handle.
addPart_Appended(cx, c, dcrt, handle) ==
  [c EXCEPT !.parts = Append(@, Part(handle, removePrimes(dcrt, (DOMAIN dcrt) \ c.primeSet)))]

\* Added to the part of the same handle, else appended.
addPart(cx, c, dcrt, handle) ==
  IF \E j \in DOMAIN c.parts : SameHandle(c.parts[j].handle, handle)
  THEN [c EXCEPT !.parts =
          [j \in DOMAIN @ |-> IF SameHandle(@[j].handle, handle)
                              THEN [@[j] EXCEPT !.dcrt = Add(cx, @, dcrt)] ELSE @[j]]]
  ELSE [c EXCEPT !.parts = Append(@, Part(handle, removePrimes(dcrt, (DOMAIN dcrt) \ c.primeSet)))]

\* What a noise in the part of this handle grows by.
LOCAL KeyFactor(sk, handle) == IF isOne(handle) THEN 1 ELSE sk.skBounds[handle.secretKeyID + 1]^handle.powerOfS
LOCAL OverParts(c, f(_)) == FoldLeft(LAMBDA x, i : x + f(i), 0, [i \in DOMAIN c.parts |-> i])

modSwitchAddedNoiseBound(cx, sk, c) ==
  CeilDiv(OverParts(c, LAMBDA i : KeyFactor(sk, c.parts[i].handle)) * cx.phim * c.ptxtSpace, 2)

mulIntFactor(cx, c, e) ==
  IF e = 1 THEN c
  ELSE [EachPart(c, LAMBDA d : MulNum(cx, d, balRem(e, c.ptxtSpace)))
          EXCEPT !.intFactor = (@ * e) % c.ptxtSpace,
                 !.noiseBound = CappedTimes(@, IF balRem(e, c.ptxtSpace) < 0 THEN -balRem(e, c.ptxtSpace)
                                               ELSE balRem(e, c.ptxtSpace))]

GCD(a, b) == CHOOSE g \in 1..a : a % g = 0 /\ b % g = 0 /\ \A h \in (g + 1)..a : ~(a % h = 0 /\ b % h = 0)
reducePtxtSpace(c, newPtxtSpace) ==
  [c EXCEPT !.ptxtSpace = GCD(c.ptxtSpace, newPtxtSpace),
            !.intFactor = @ % GCD(c.ptxtSpace, newPtxtSpace)]

--------------------------------------------------------------------------------
(***************************************************************************)
(* Switching the modulus.  Up, the added primes scale everything.  Down,   *)
(* every part is divided by the primes that go, with a rounding error that *)
(* its secret multiplies.                                                  *)
(***************************************************************************)
LOCAL AddPrimes(cx, c, added) ==
  IF added = {} THEN c
  ELSE [EachPart(c, LAMBDA d : addPrimesAndScale(cx, d, added))
          EXCEPT !.noiseBound = CappedTimes(@, productOfPrimes(cx, added)), !.primeSet = @ \union added]
modUpToSet(cx, c, S) == AddPrimes(cx, c, S \ c.primeSet)

\* Mutant of NoiseAfterSwitch: no rounding error.
NoiseAfterSwitch_Scaled(sk, c, scaled, Q) == CeilDiv(c.noiseBound, Q)

NoiseAfterSwitch(sk, c, scaled, Q) ==
  CeilDiv(CappedPlus(c.noiseBound,
                     OverParts(c, LAMBDA i : Norm(scaled[i].delta) * KeyFactor(sk, c.parts[i].handle))), Q)
LOCAL Switched(cx, sk, c, kept, scaled) ==
  [c EXCEPT !.parts = [i \in DOMAIN @ |-> Part(@[i].handle, scaled[i].dcrt)],
            !.noiseBound = NoiseAfterSwitch(sk, c, scaled, productOfPrimes(cx, c.primeSet \ kept)),
            !.primeSet = kept]
modDownToSet(cx, sk, c, S) ==
  IF c.primeSet \subseteq S THEN c
  ELSE Switched(cx, sk, c, c.primeSet \intersect S,
                Computed([i \in DOMAIN c.parts |-> scaleDownToSet(cx, c.parts[i].dcrt, S, c.ptxtSpace)]))

LOCAL First(S) == CHOOSE i \in S : \A j \in S : i <= j
bringToSet(cx, sk, c, S) ==
  IF S = {} THEN modDownToSet(cx, sk, modUpToSet(cx, c, {First(cx.ctxt)}), {First(cx.ctxt)})
  ELSE modDownToSet(cx, sk, modUpToSet(cx, c, S), S)

(***************************************************************************)
(* dropSmallAndSpecialPrimes: in exchange for small primes, more primes    *)
(* for ciphertexts are added, until the noise without those dropped is     *)
(* eight times the error of the switch.                                    *)
(***************************************************************************)
RECURSIVE Compensated(_, _, _, _, _)
Compensated(cx, target, candidates, noise, needed) ==
  IF noise >= needed \/ candidates = {} THEN target
  ELSE Compensated(cx, target \union {First(candidates)}, candidates \ {First(candidates)},
                   CappedTimes(noise, cx.q[First(candidates)]), needed)
dropSmallAndSpecialPrimes(cx, sk, c) ==
  IF c.primeSet \intersect cx.small = {} THEN modDownToSet(cx, sk, c, cx.ctxt)
  ELSE bringToSet(cx, sk, c,
         Compensated(cx, c.primeSet \intersect cx.ctxt, cx.ctxt \ c.primeSet, c.noiseBound,
                     CappedTimes(8 * modSwitchAddedNoiseBound(cx, sk, c),
                                 productOfPrimes(cx, c.primeSet \ cx.ctxt))))

--------------------------------------------------------------------------------
(***************************************************************************)
(* Key switching.  A part is broken into digits, each of which multiplies  *)
(* the column of the matrix for it, modulo the special primes as well.     *)
(***************************************************************************)
\* Mutant of keySwitchDigits: the products with a go to the key that is switched from.
keySwitchDigits_FromKey(cx, c, W, digits) ==
  FoldLeft(LAMBDA t, i : addPart(cx, addPart(cx, t, Mul(cx, digits[i], W.a[i]), W.fromKey),
                                 Mul(cx, digits[i], W.b[i]), One),
           c, [i \in DOMAIN digits |-> i])

keySwitchDigits(cx, c, W, digits) ==
  FoldLeft(LAMBDA t, i : addPart(cx, addPart(cx, t, Mul(cx, digits[i], W.a[i]), Base(W.toKeyID)),
                                 Mul(cx, digits[i], W.b[i]), One),
           c, [i \in DOMAIN digits |-> i])

\* The digit as a polynomial: it is the same modulo its own primes alone.
LOCAL DigitNorm(cx, S, digits, i) ==
  Norm(toPoly(cx, removePrimes(digits[i], (DOMAIN digits[i]) \ (S \intersect cx.digits[i]))))
LOCAL SwitchDigits(cx, c, S, W, digits) ==
  [keySwitchDigits(cx, c, W, digits)
     EXCEPT !.noiseBound =
       CappedPlus(@, CappedTimes(W.noiseBound, FoldLeft(LAMBDA x, i : x + DigitNorm(cx, S, digits, i), 0,
                                                        [i \in DOMAIN digits |-> i])))]
keySwitchPart(cx, c, part, W) == SwitchDigits(cx, c, DOMAIN part.dcrt, W, breakIntoDigits(cx, part.dcrt))

\* For a negative keyID, a matrix to any key.
MatrixFor(sk, handle, keyID) ==
  IF keyID >= 0 THEN getKeySWmatrix(sk, handle, keyID) ELSE getAnyKeySWmatrix(sk, handle)
\* Every part that needs a matrix has one.
CanReLinearize(sk, handles, keyID) ==
  \A h \in handles : ~isOne(h) /\ ~isBase(h, keyID) => MatrixFor(sk, h, keyID) # NoMatrix

LOCAL OnePart(cx, sk, t, part, keyID) ==
  IF isOne(part.handle) \/ isBase(part.handle, keyID)
  THEN addPart(cx, t, addPrimesAndScale(cx, part.dcrt, cx.special), part.handle)
  ELSE keySwitchPart(cx, reducePtxtSpace(t, MatrixFor(sk, part.handle, keyID).ptxtSpace), part,
                     MatrixFor(sk, part.handle, keyID))
LOCAL SwitchKeys(cx, sk, c, keyID) ==
  FoldLeft(LAMBDA t, part : OnePart(cx, sk, t, part, keyID),
           [c EXCEPT !.parts = <<>>, !.primeSet = @ \union cx.special,
                     !.noiseBound = CappedTimes(@, productOfPrimes(cx, cx.special))],
           c.parts)

reLinearize(cx, sk, c, keyID) ==
  IF isEmpty(c) \/ inCanonicalForm(c, keyID) THEN c
  ELSE SwitchKeys(cx, sk, dropSmallAndSpecialPrimes(cx, sk, c), keyID)

LOCAL WithoutOthers(cx, sk, c) ==
  IF c.primeSet \subseteq cx.ctxt THEN c ELSE dropSmallAndSpecialPrimes(cx, sk, c)
cleanUp(cx, sk, c) == WithoutOthers(cx, sk, reLinearize(cx, sk, c, 0))

--------------------------------------------------------------------------------
(***************************************************************************)
(* Constants, and changes of the plaintext space.                          *)
(***************************************************************************)
LOCAL PlusPart(cx, c, poly, f) ==
  [addPart(cx, c, MulNum(cx, FFT(cx, poly, c.primeSet), f), One)
     EXCEPT !.noiseBound = CappedPlus(@, CappedTimes(Norm(poly), IF f < 0 THEN -f ELSE f))]
addConstant(cx, c, poly) ==
  PlusPart(cx, c, poly, IF c.ptxtSpace <= 2 THEN 1
                        ELSE balRem(((Modulus(cx, c) % c.ptxtSpace) * c.intFactor) % c.ptxtSpace, c.ptxtSpace))
multByConstant(cx, c, poly) ==
  [EachPart(c, LAMBDA d : Mul(cx, d, FFT(cx, poly, c.primeSet)))
     EXCEPT !.noiseBound = CappedTimes(@, Norm(poly))]
negate(cx, c) == EachPart(c, LAMBDA d : Negate(cx, d))

LOCAL DividedBy(cx, c, n) ==
  [EachPart(c, LAMBDA d : DivNum(cx, d, n))
     EXCEPT !.noiseBound = CeilDiv(@, n), !.ptxtSpace = @ \div n, !.intFactor = @ % (c.ptxtSpace \div n)]
CanDivideByP(cx, c) == c.ptxtSpace % cx.p = 0 /\ c.ptxtSpace > cx.p
divideByP(cx, c) == DividedBy(cx, c, cx.p)
\* With (Q + 1) / 2, the inverse of two modulo Q.
divideBy2(cx, c) == DividedBy(cx, c, 2)

\* DummyEncrypt: the plaintext as the only part.  The object keeps its
\* plaintext space and, as recryption relies on, its integer factor.
DummyEncrypt(cx, c, ptxt) ==
  LET f == productOfPrimes(cx, cx.ctxt) % c.ptxtSpace
      tmp == IF f = 1 THEN ptxt ELSE balanced_MulMod(ptxt, f, c.ptxtSpace)
  IN [c EXCEPT !.parts = <<Part(One, FFT(cx, tmp, cx.ctxt))>>, !.primeSet = cx.ctxt,
               !.noiseBound = noiseBoundForMod(c.ptxtSpace, cx.phim)]

--------------------------------------------------------------------------------
(***************************************************************************)
(* addCtxt: the plaintext spaces and the primes are made the same, then    *)
(* the integer factors: each operand is multiplied so that they agree, and *)
(* of the pairs of numbers the extended Euclidean algorithm finds, the one *)
(* that gives the least noise is taken.                                    *)
(***************************************************************************)
LOCAL Magnitude(e, p) == IF balRem(e, p) < 0 THEN -balRem(e, p) ELSE balRem(e, p)
NoiseNorm(noise1, noise2, e, p) ==
  CappedPlus(CappedTimes(noise1, Magnitude(e[1], p)), CappedTimes(noise2, Magnitude(e[2], p)))

IsUnit(e, p) == e % p # 0

\* r0 = t0 * ratio and r1 = t1 * ratio, modulo the plaintext space
RECURSIVE Harmonize(_, _, _, _, _, _, _, _, _)
LOCAL Better(cx, ptxtSpace, noise1, noise2, best, e) ==
  IF /\ IsUnit(e[1], cx.p)
     /\ NoiseNorm(noise1, noise2, e, ptxtSpace) < NoiseNorm(noise1, noise2, best, ptxtSpace)
  THEN e ELSE best
Harmonize(cx, ptxtSpace, noise1, noise2, best, r0, t0, r1, t1) ==
  IF r1 = 0 THEN best
  ELSE Harmonize(cx, ptxtSpace, noise1, noise2,
                 Better(cx, ptxtSpace, noise1, noise2, best,
                        <<(r0 % r1) % ptxtSpace, (t0 - t1 * (r0 \div r1)) % ptxtSpace>>),
                 r1, t1, r0 % r1, t0 - t1 * (r0 \div r1))
Factors(cx, c, other) ==
  IF c.intFactor = other.intFactor THEN <<1, 1>>
  ELSE LET ratio == (other.intFactor * InvMod(c.intFactor, c.ptxtSpace)) % c.ptxtSpace
       IN Harmonize(cx, c.ptxtSpace, c.noiseBound, other.noiseBound, <<ratio, 1>>, c.ptxtSpace, 0, ratio, 1)

LOCAL SumOfParts(cx, c, other, negative) ==
  [FoldLeft(LAMBDA t, part : addPart(cx, t, IF negative THEN Negate(cx, part.dcrt) ELSE part.dcrt, part.handle),
            c, other.parts) EXCEPT !.noiseBound = CappedPlus(@, other.noiseBound)]
LOCAL Scaled(cx, c, other, e, negative) ==
  SumOfParts(cx, mulIntFactor(cx, c, e[1]), mulIntFactor(cx, other, e[2]), negative)
LOCAL Harmonized(cx, c, other, negative) == Scaled(cx, c, other, Factors(cx, c, other), negative)
LOCAL Matched(cx, c, other, negative) ==
  Harmonized(cx, modUpToSet(cx, c, other.primeSet), modUpToSet(cx, other, c.primeSet), negative)
addCtxt(cx, c, other, negative) ==
  CASE isEmpty(other) -> c
    [] isEmpty(c) /\ ~isEmpty(other) -> IF negative THEN negate(cx, other) ELSE other
    [] OTHER -> Matched(cx, reducePtxtSpace(c, other.ptxtSpace), reducePtxtSpace(other, c.ptxtSpace), negative)

--------------------------------------------------------------------------------
(***************************************************************************)
(* Multiplication.  Both operands are switched to a common set of primes   *)
(* with about the size at which their noise is that of the switch; every   *)
(* pair of parts gives a part.                                             *)
(***************************************************************************)
CanMultiply(handles1, handles2) ==
  \A h1 \in handles1, h2 \in handles2 :
    ~isOne(h1) /\ ~isOne(h2) => h1.secretKeyID = h2.secretKeyID /\ h1.powerOfX = h2.powerOfX
mulHandle(h1, h2) ==
  IF isOne(h1) THEN h2 ELSE IF isOne(h2) THEN h1
  ELSE Handle(h1.powerOfS + h2.powerOfS, h1.powerOfX, h1.secretKeyID)
ProductHandles(handles1, handles2) == {mulHandle(h1, h2) : h1 \in handles1, h2 \in handles2}

\* Mutant of ProductFactor: the product of the primes is not among the factors.
ProductFactor_OfOperands(cx, c1, c2) == IF c1.ptxtSpace > 2 THEN (c1.intFactor * c2.intFactor) % c1.ptxtSpace ELSE 1

ProductFactor(cx, c1, c2) ==
  IF c1.ptxtSpace > 2
  THEN (((c1.intFactor * c2.intFactor) % c1.ptxtSpace) * (Modulus(cx, c1) % c1.ptxtSpace)) % c1.ptxtSpace
  ELSE 1

tensorProduct(cx, c1, c2) ==
  FoldLeft(LAMBDA t, part1 :
             FoldLeft(LAMBDA u, part2 : addPart(cx, u, Mul(cx, part2.dcrt, part1.dcrt),
                                                mulHandle(part1.handle, part2.handle)),
                      t, c2.parts),
           [parts |-> <<>>, primeSet |-> c1.primeSet, ptxtSpace |-> c1.ptxtSpace,
            intFactor |-> ProductFactor(cx, c1, c2), noiseBound |-> CappedTimes(c1.noiseBound, c2.noiseBound)],
           c1.parts)

\* modulus * adn / noise / 2
LOCAL HalfOfScaled(Q, adn, noise) ==
  CappedPlus(CappedTimes(adn, Q \div noise), CappedTimes(adn, Q % noise) \div noise) \div 2
HighEnd(cx, sk, c) ==
  HalfOfScaled(Modulus(cx, c), modSwitchAddedNoiseBound(cx, sk, c), AtLeastOne(c.noiseBound))
\* The interval is four bits wide.
computeIntervalForMul(cx, sk, c1, c2) ==
  LET hi == First({HighEnd(cx, sk, c1), HighEnd(cx, sk, c2)}) IN [lo |-> CeilDiv(hi, 16), hi |-> hi]
LOCAL CommonPrimeSet(cx, interval, c1, c2) ==
  getSet4Size(cx, interval.lo, interval.hi, {c1.primeSet, c2.primeSet})
naturalPrimeSet(cx, sk, c) == CommonPrimeSet(cx, computeIntervalForMul(cx, sk, c, c), c, c)

LOCAL ProductModulo(cx, sk, c, other, S) ==
  tensorProduct(cx, bringToSet(cx, sk, c, S), bringToSet(cx, sk, other, S))
LOCAL ProductOf(cx, sk, c, other) ==
  ProductModulo(cx, sk, c, other, CommonPrimeSet(cx, computeIntervalForMul(cx, sk, c, other), c, other))

\* With c and other the same ciphertext, this is squaring.
multLowLvl(cx, sk, c, other) ==
  CASE isEmpty(c) -> c
    [] ~isEmpty(c) /\ isEmpty(other) -> other
    [] OTHER -> ProductOf(cx, sk, reducePtxtSpace(c, other.ptxtSpace), reducePtxtSpace(other, c.ptxtSpace))
multiplyBy(cx, sk, c, other) == reLinearize(cx, sk, multLowLvl(cx, sk, c, other), 0)

\* The operands with more capacity are multiplied first.
UnLinearProduct(cx, sk, c, other1, other2) ==
  CASE LessCapacity(cx, c, other1) /\ LessCapacity(cx, c, other2) ->
         multLowLvl(cx, sk, c, multLowLvl(cx, sk, other1, other2))
    [] ~(LessCapacity(cx, c, other1) /\ LessCapacity(cx, c, other2))
         /\ (LessCapacity(cx, c, other2) \/ LessCapacity(cx, other1, other2)) ->
         multLowLvl(cx, sk, multLowLvl(cx, sk, c, other2), other1)
    [] OTHER -> multLowLvl(cx, sk, multLowLvl(cx, sk, c, other1), other2)
multiplyBy2(cx, sk, c, other1, other2) == reLinearize(cx, sk, UnLinearProduct(cx, sk, c, other1, other2), 0)

--------------------------------------------------------------------------------
(***************************************************************************)
(* Automorphisms X -> X^k.                                                 *)
(***************************************************************************)
ctxtAutomorph(cx, c, k) ==
  [c EXCEPT !.parts =
     [i \in DOMAIN @ |->
        Part(IF isOne(@[i].handle) THEN @[i].handle
             ELSE [@[i].handle EXCEPT !.powerOfX = (@ * k) % cx.m], automorph(cx, @[i].dcrt, k))]]

\* Step by step, each with the matrix for the first step of what is left of k.
RECURSIVE AutomorphSteps(_, _, _, _, _)
LOCAL StepBy(cx, sk, c, k, keyID, amt) ==
  AutomorphSteps(cx, sk, reLinearize(cx, sk, ctxtAutomorph(cx, c, amt), keyID),
                 (k * InvMod(amt, cx.m)) % cx.m, keyID)
AutomorphSteps(cx, sk, c, k, keyID) ==
  IF k = 1 THEN c ELSE StepBy(cx, sk, c, k, keyID, getNextKSWmatrix(sk, k, keyID).fromKey.powerOfX)

CanAutomorph(sk, c, k) ==
  k = 1 \/ isEmpty(c) \/ (isReachable(sk, k, getKeyID(c)) /\ CanReLinearize(sk, Handles(c), getKeyID(c)))
smartAutomorph(cx, sk, c, k) ==
  IF isEmpty(c) \/ k = 1 THEN c
  ELSE AutomorphSteps(cx, sk, reLinearize(cx, sk, c, getKeyID(c)), k, getKeyID(c))

\* The power of p that the automorphism is given by.
FrobeniusPower(cx, j) == frobeniusPow(cx.al, j % cx.al.ordP)
frobeniusAutomorph(cx, sk, c, j) == IF j = 0 THEN c ELSE smartAutomorph(cx, sk, c, FrobeniusPower(cx, j))
================================================================================

-------------------------------- MODULE Library --------------------------------
(***************************************************************************)
(* An application of the library: it makes a secret key and key-switching  *)
(* matrices, encrypts two plaintexts and calls operations on two           *)
(* ciphertexts a and b, of which a gets the results.  x and y are what     *)
(* they should decrypt to: the same operations on polynomials modulo       *)
(* Phi_m(X) and the plaintext space, without primes, parts or noise.       *)
(*                                                                         *)
(* Where the code throws an exception, the operation cannot be called.     *)
(* A ciphertext that is not correct any more is used no further.           *)
(***************************************************************************)
EXTENDS Ctxt

CONSTANTS
  Contexts,           \* the rings and chains of moduli
  SecretKeys(_),      \* the sequences of secret polynomials of a context
  Strategies(_),      \* the sequences of sets of matrices that are added
  Plaintexts(_),      \* the pairs of plaintexts that are encrypted
  Constants(_),       \* the plaintexts that are added and multiplied with
  Operations(_),      \* the operations that are called
  MaxOps(_)           \* bound: how many operations a sequence has

VARIABLES cx, sk, a, b, x, y, called
vars == <<cx, sk, a, b, x, y, called>>

--------------------------------------------------------------------------------
(***************************************************************************)
(* What the operations promise: polynomials with coefficients modulo the   *)
(* plaintext space.                                                        *)
(***************************************************************************)
Value(space, poly) == [space |-> space, poly |-> Computed([j \in DOMAIN poly |-> poly[j] % space])]
LOCAL Common(v, w) == GCD(v.space, w.space)

\* Coefficients of X^0..X^(m - 1) modulo Phi_m(X).
LOCAL ModuloPhi(coeffs) == [j \in 0..(cx.phim - 1) |-> coeffs[j] - coeffs[Folded(cx.m, j)]]

Sum(v, w) == Value(Common(v, w), [j \in DOMAIN v.poly |-> v.poly[j] + w.poly[j]])
Difference(v, w) == Value(Common(v, w), [j \in DOMAIN v.poly |-> v.poly[j] - w.poly[j]])
Product(v, w) ==
  Value(Common(v, w),
        ModuloPhi(Computed([e \in 0..(cx.m - 1) |->
          FoldSet(LAMBDA j, s : s + (IF (e - j) % cx.m \in DOMAIN w.poly
                                     THEN v.poly[j] * w.poly[(e - j) % cx.m] ELSE 0),
                  0, DOMAIN v.poly)])))
Substituted(v, k) ==
  Value(v.space,
        ModuloPhi(Computed([e \in 0..(cx.m - 1) |->
          FoldSet(LAMBDA j, s : s + (IF (j * k) % cx.m = e THEN v.poly[j] ELSE 0), 0, DOMAIN v.poly)])))
Quotient(v, n) == Value(v.space \div n, [j \in DOMAIN v.poly |-> v.poly[j] \div n])
Divisible(v, n) == \A j \in DOMAIN v.poly : v.poly[j] % n = 0

--------------------------------------------------------------------------------
(***************************************************************************)
(* Keys and encryption.                                                    *)
(***************************************************************************)
NoCtxt == <<>>

Keys ==
  \E polys \in SecretKeys(cx), strategies \in Strategies(cx) :
    sk' = FoldLeft(LAMBDA s, name : IF name = "1 -> 0" THEN GenKeySWmatrix(cx, s, 1, 1, 1, 0)
                                    ELSE AddMatrices(cx, s, name, 0),
                   FoldLeft(LAMBDA s, poly : ImportSecKey(cx, s, poly, 3), NoKeys, polys), strategies)

GenerateKeys ==
  /\ called = <<>>
  /\ Keys
  /\ called' = <<"GenerateKeys">>
  /\ UNCHANGED <<cx, a, b, x, y>>

\* a with the public key, b with the secret key that was imported last.
EncryptBoth ==
  /\ Len(called) = 1
  /\ \E ptxts \in Plaintexts(cx) :
       /\ a' = Encrypt(cx, sk, ptxts[1], cx.p2r, Small(cx, 2), Small(cx, 7), Small(cx, 4))
       /\ b' = skEncrypt(cx, sk, ptxts[2], cx.p2r, Len(sk.sKeys) - 1, 3, Small(cx, 5))
       /\ x' = Value(cx.p2r, ptxts[1])
       /\ y' = Value(cx.p2r, ptxts[2])
  /\ called' = Append(called, "Encrypt")
  /\ UNCHANGED <<cx, sk>>

--------------------------------------------------------------------------------
(***************************************************************************)
(* The operations.                                                         *)
(***************************************************************************)
Call(name) ==
  /\ Len(called) \in 2..(MaxOps(cx) + 1)
  /\ name \in Operations(cx)
  /\ isCorrect(cx, a) /\ isCorrect(cx, b)
  /\ called' = Append(called, name)
  /\ UNCHANGED <<cx, sk>>

Gets(result, value) == a' = result /\ x' = value /\ UNCHANGED <<b, y>>

AddCtxt == Call("addCtxt") /\ Gets(addCtxt(cx, a, b, FALSE), Sum(x, y))
SubCtxt == Call("subCtxt") /\ Gets(addCtxt(cx, a, b, TRUE), Difference(x, y))
Negative == Call("negate") /\ Gets(negate(cx, a), Difference(Value(x.space, [j \in DOMAIN x.poly |-> 0]), x))
AddConstant ==
  /\ Call("addConstant")
  /\ \E poly \in Constants(cx) : Gets(addConstant(cx, a, poly), Sum(x, Value(x.space, poly)))
MultByConstant ==
  /\ Call("multByConstant")
  /\ \E poly \in Constants(cx) : Gets(multByConstant(cx, a, poly), Product(x, Value(x.space, poly)))

MultLowLvl ==
  /\ Call("multLowLvl")
  /\ CanMultiply(Handles(a), Handles(b))
  /\ Gets(multLowLvl(cx, sk, a, b), Product(x, y))
Square ==
  /\ Call("square")
  /\ CanMultiply(Handles(a), Handles(a))
  /\ CanReLinearize(sk, ProductHandles(Handles(a), Handles(a)), 0)
  /\ Gets(multiplyBy(cx, sk, a, a), Product(x, x))
MultiplyBy ==
  /\ Call("multiplyBy")
  /\ CanMultiply(Handles(a), Handles(b))
  /\ CanReLinearize(sk, ProductHandles(Handles(a), Handles(b)), 0)
  /\ Gets(multiplyBy(cx, sk, a, b), Product(x, y))
MultiplyBy2 ==
  /\ Call("multiplyBy2")
  /\ CanMultiply(Handles(a) \union Handles(b), Handles(a) \union Handles(b))
  /\ CanReLinearize(sk, ProductHandles(Handles(b), ProductHandles(Handles(a), Handles(b))), 0)
  /\ Gets(multiplyBy2(cx, sk, a, b, b), Product(x, Product(y, y)))

ReLinearize ==
  /\ Call("reLinearize")
  /\ CanReLinearize(sk, Handles(a), 0)
  /\ Gets(reLinearize(cx, sk, a, 0), x)
CleanUp ==
  /\ Call("cleanUp")
  /\ CanReLinearize(sk, Handles(a), 0)
  /\ Gets(cleanUp(cx, sk, a), x)
DropPrimes == Call("dropPrimes") /\ Gets(dropSmallAndSpecialPrimes(cx, sk, a), x)
BringToSet ==
  /\ Call("bringToSet")
  /\ \E S \in {naturalPrimeSet(cx, sk, a), {}, cx.small \union cx.ctxt} : Gets(bringToSet(cx, sk, a, S), x)

Automorph ==
  /\ Call("automorph")
  /\ \E k \in cx.units \ {1} : Gets(ctxtAutomorph(cx, a, k), Substituted(x, k))
SmartAutomorph ==
  /\ Call("smartAutomorph")
  /\ \E k \in cx.units \ {1} : CanAutomorph(sk, a, k) /\ Gets(smartAutomorph(cx, sk, a, k), Substituted(x, k))
Frobenius ==
  /\ Call("frobenius")
  /\ \E j \in {-1, 1} :
       /\ CanAutomorph(sk, a, FrobeniusPower(cx, j))
       /\ Gets(frobeniusAutomorph(cx, sk, a, j), Substituted(x, FrobeniusPower(cx, j)))

ReducePtxtSpace ==
  Call("reducePtxtSpace") /\ a.ptxtSpace > cx.p /\ Gets(reducePtxtSpace(a, cx.p), Value(cx.p, x.poly))
DivideByP ==
  Call("divideByP") /\ CanDivideByP(cx, a) /\ Divisible(x, cx.p) /\ Gets(divideByP(cx, a), Quotient(x, cx.p))
DivideBy2 ==
  /\ Call("divideBy2")
  /\ a.ptxtSpace % 2 = 0 /\ a.ptxtSpace > 2 /\ Divisible(x, 2)
  /\ Gets(divideBy2(cx, a), Quotient(x, 2))
\* Decryption takes the factor that the object keeps out of the plaintext.
Dummy ==
  /\ Call("DummyEncrypt")
  /\ \E poly \in Constants(cx) :
       LET inverse == InvMod(a.intFactor, a.ptxtSpace)
       IN Gets(DummyEncrypt(cx, a, poly), Value(a.ptxtSpace, [j \in DOMAIN poly |-> poly[j] * inverse]))

Swap == Call("swap") /\ a' = b /\ b' = a /\ x' = y /\ y' = x

Init ==
  /\ cx \in {buildModChain(c.m, c.p, c.r, c.small, c.ctxt, c.special, c.nDgts, c.normBnd100) : c \in Contexts}
  /\ sk = NoKeys
  /\ a = NoCtxt /\ b = NoCtxt /\ x = NoCtxt /\ y = NoCtxt
  /\ called = <<>>

Next ==
  \/ GenerateKeys \/ EncryptBoth
  \/ AddCtxt \/ SubCtxt \/ Negative \/ AddConstant \/ MultByConstant
  \/ MultLowLvl \/ Square \/ MultiplyBy \/ MultiplyBy2
  \/ ReLinearize \/ CleanUp \/ DropPrimes \/ BringToSet
  \/ Automorph \/ SmartAutomorph \/ Frobenius
  \/ ReducePtxtSpace \/ DivideByP \/ DivideBy2 \/ Dummy \/ Swap

Spec == Init /\ [][Next]_vars

--------------------------------------------------------------------------------
(***************************************************************************)
(* Properties.                                                             *)
(***************************************************************************)
Encrypted == Len(called) > 1
Checked(P(_, _)) == Encrypted => P(a, x) /\ P(b, y)

\* Whatever the primes, parts and factors of a ciphertext are, as long as its
\* noise bound is small enough (isCorrect, Ctxt.cpp:125) it has the plaintext
\* space of the plain calculation and decrypts to its result (keys.cpp:1327).
DecryptsRight ==
  Checked(LAMBDA c, v : isCorrect(cx, c) => c.ptxtSpace = v.space /\ Decrypt(cx, sk, c) = v.poly)

LOCAL Percent(n, percent) == (n \div 100) * percent + ((n % 100) * percent) \div 100

\* What a ciphertext decrypts to before the reduction modulo the plaintext
\* space is not larger than its noise bound, which every operation updates
\* without knowing the plaintext (Ctxt.h:356).
NoiseBounded ==
  Checked(LAMBDA c, v :
    isCorrect(cx, c) =>
      \A f \in Range(BeforeReduction(cx, sk, c)) :
        (IF f < 0 THEN -f ELSE f) <= Percent(c.noiseBound, cx.normBnd100))

\* The primes of a ciphertext are those of each of its parts; they have all
\* special primes or none and an interval of the others (Ctxt.cpp:186), no
\* two parts belong to the same power of a secret, and the integer factor
\* has an inverse.
PartsAgree ==
  Checked(LAMBDA c, v :
    /\ verifyPrimeSet(cx, c.primeSet)
    /\ \A i \in DOMAIN c.parts :
         /\ DOMAIN c.parts[i].dcrt = c.primeSet
         /\ \A j \in DOMAIN c.parts : SameHandle(c.parts[i].handle, c.parts[j].handle) => i = j
    /\ c.intFactor % cx.p # 0 /\ c.intFactor \in 1..(c.ptxtSpace - 1))

\* Every column of a key-switching matrix, decrypted with the key it switches
\* to, is the secret it switches from, times the special primes and those of
\* the digits before, plus a small error (KeySwitch::verify,
\* keySwitching.cpp:78): a multiple of the plaintext space that is at most
\* that space times phi(m).  This holds for every column; the noise bound
\* that the matrix keeps is its last column's alone (keys.cpp:1235).
MatricesSwitch ==
  Len(called) = 1 =>
    \A n \in DOMAIN sk.keySwitching : \A i \in DOMAIN sk.keySwitching[n].b :
      LET W == sk.keySwitching[n]
          error == toPoly(cx, Sub(cx, Add(cx, W.b[i], Mul(cx, W.a[i], sk.sKeys[W.toKeyID + 1])),
                                  MulNum(cx, PowerOf(cx, sk.sKeys[W.fromKey.secretKeyID + 1], W.fromKey),
                                         Scale(cx, i))))
      IN Norm(error) <= W.ptxtSpace * cx.phim /\ \A j \in DOMAIN error : error[j] % W.ptxtSpace = 0

\* The automorphisms that at most d of those with a matrix compose.
LOCAL ComposedOf(d) ==
  FoldLeft(LAMBDA S, step : S \union {(e.n * k) % cx.m : e \in Range(Edges(sk, 0)), k \in S},
           {1}, [step \in 1..d |-> step])
LOCAL StepsTo(k) == CHOOSE d \in 0..cx.phim : k \in ComposedOf(d) /\ (d > 0 => k \notin ComposedOf(d - 1))

\* An automorphism is reachable exactly when matrices compose it, and the
\* matrix that getNextKSWmatrix returns leaves one that needs a step less
\* (keys.cpp:122): smartAutomorph ends after the fewest steps.
NextMatrixLeads ==
  Len(called) = 1 =>
    \A k \in cx.units \ {1} :
      /\ isReachable(sk, k, 0) <=> k \in ComposedOf(cx.phim)
      /\ isReachable(sk, k, 0) =>
           \E rest \in cx.units :
             /\ (rest * getNextKSWmatrix(sk, k, 0).fromKey.powerOfX) % cx.m = k
             /\ StepsTo(k) = StepsTo(rest) + 1

\* The operations that switch keys leave the parts for one and a single
\* secret, and cleanUp leaves none but ciphertext primes behind
\* (Ctxt.cpp:729, 797, 2545).
Relinearizing == {"square", "multiplyBy", "multiplyBy2", "reLinearize", "cleanUp", "smartAutomorph", "frobenius"}
Relinearized ==
  [][/\ Last(called') \in Relinearizing => inCanonicalForm(a', getKeyID(a'))
     /\ Last(called') = "cleanUp" => a'.primeSet \subseteq cx.ctxt]_vars
================================================================================

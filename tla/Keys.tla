---------------------------------- MODULE Keys ----------------------------------
(***************************************************************************)
(* Secret keys, encryption, decryption and the matrices that switch a      *)
(* ciphertext from one key to another (keys.cpp, keySwitching.cpp).        *)
(*                                                                         *)
(* A ciphertext is a record of its parts, each a table (DoubleCRT) and the *)
(* handle of the secret it is multiplied with, s_ID^powerOfS(X^powerOfX);  *)
(* the set of its primes; the plaintext space; the factor the plaintext is *)
(* multiplied with; and a bound on what it decrypts to before it is        *)
(* reduced modulo the plaintext space.                                     *)
(*                                                                         *)
(* The code's noise bounds hold with high probability, in the norm of the  *)
(* canonical embedding.  Here the random polynomials are given by numbers, *)
(* their seeds, and a bound is the sum of the absolute values of the       *)
(* coefficients, which is never less than that norm.                       *)
(*                                                                         *)
(* A secret key sk is a record with its keys sKeys and their skBounds,     *)
(* pubEncrKey, the matrices keySwitching, and for each key keySwitchMap:   *)
(* the index of the matrix for the first step from s(X^k), -1 without one. *)
(***************************************************************************)
EXTENDS DoubleCRT

Norm(poly) == FoldSet(LAMBDA j, x : x + (IF poly[j] < 0 THEN -poly[j] ELSE poly[j]), 0, DOMAIN poly)

\* Coefficients -1, 0 and 1.
Small(cx, seed) == Computed([j \in 0..(cx.phim - 1) |-> ((seed * (j + 2) + j * j) % 3) - 1])
Uniform(cx, S, seed) ==
  Rows(cx, S, LAMBDA i, k : 7919 * seed + 104729 * k + 31 * k * k * (i + seed) + seed * seed)

Handle(powerOfS, powerOfX, secretKeyID) ==
  [powerOfS |-> powerOfS, powerOfX |-> powerOfX, secretKeyID |-> secretKeyID]
One == Handle(0, 1, 0)
Base(keyID) == Handle(1, 1, keyID)
isOne(handle) == handle.powerOfS = 0
SameHandle(h1, h2) == (isOne(h1) /\ isOne(h2)) \/ h1 = h2
Part(handle, dcrt) == [handle |-> handle, dcrt |-> dcrt]

--------------------------------------------------------------------------------
(***************************************************************************)
(* RLWE1: p*e - c1*s, so that adding c1*s leaves a multiple of p.          *)
(***************************************************************************)
RLWE1(cx, c1, s, p, e) ==
  [dcrt |-> Sub(cx, MulNum(cx, FFT(cx, e, DOMAIN c1), p), Mul(cx, c1, s)), bound |-> p * Norm(e)]

balRem(a, q) == IF a > q \div 2 THEN a - q ELSE a
balanced_MulMod(f, a, q) == Computed([j \in DOMAIN f |-> balRem(((f[j] % q) * a) % q, q)])
noiseBoundForMod(modulus, phim) == (modulus \div 2) * phim

(***************************************************************************)
(* Encrypt: a small multiple r of the public encryption of zero, errors e0 *)
(* and e1 times the plaintext space, and the plaintext times the product   *)
(* of the primes.  skEncrypt makes the encryption of zero from a secret.   *)
(***************************************************************************)
Plaintext(cx, ptxt, ptxtSpace) ==
  FFT(cx, balanced_MulMod(ptxt, productOfPrimes(cx, cx.ctxt) % ptxtSpace, ptxtSpace), cx.ctxt)

LOCAL EncryptionOfZero(cx, pk, ptxtSpace, r, e, i) ==
  Add(cx, Mul(cx, pk.parts[i].dcrt, FFT(cx, r, cx.ctxt)), MulNum(cx, FFT(cx, e, cx.ctxt), ptxtSpace))
Encrypt(cx, sk, ptxt, ptxtSpace, r, e0, e1) ==
  [parts |-> <<Part(One, Add(cx, EncryptionOfZero(cx, sk.pubEncrKey, ptxtSpace, r, e0, 1),
                             Plaintext(cx, ptxt, ptxtSpace))),
               Part(Base(0), EncryptionOfZero(cx, sk.pubEncrKey, ptxtSpace, r, e1, 2))>>,
   primeSet |-> cx.ctxt, ptxtSpace |-> ptxtSpace, intFactor |-> 1,
   noiseBound |-> Norm(r) * sk.pubEncrKey.noiseBound
                    + ptxtSpace * (Norm(e0) + Norm(e1) * sk.skBounds[1])
                    + noiseBoundForMod(ptxtSpace, cx.phim)]

LOCAL OfInstance(cx, ptxt, ptxtSpace, skIdx, c1, c0) ==
  [parts |-> <<Part(One, Add(cx, c0.dcrt, Plaintext(cx, ptxt, ptxtSpace))), Part(Base(skIdx), c1)>>,
   primeSet |-> cx.ctxt, ptxtSpace |-> ptxtSpace, intFactor |-> 1,
   noiseBound |-> c0.bound + noiseBoundForMod(ptxtSpace, cx.phim)]
skEncrypt(cx, sk, ptxt, ptxtSpace, skIdx, seed, e) ==
  OfInstance(cx, ptxt, ptxtSpace, skIdx, Uniform(cx, cx.ctxt, seed),
             RLWE1(cx, Uniform(cx, cx.ctxt, seed), sk.sKeys[skIdx + 1], ptxtSpace, e))

--------------------------------------------------------------------------------
(***************************************************************************)
(* Decrypt: every part is multiplied with its secret, which is brought to  *)
(* the primes of the ciphertext.  The sum, as a polynomial around zero, is *)
(* reduced modulo the plaintext space and divided by the factors.          *)
(***************************************************************************)
setPrimes(cx, d, S) == [i \in S |-> addPrimes(cx, d, S \ DOMAIN d)[i]]

PowerOf(cx, key, handle) == Exp(cx, automorph(cx, key, handle.powerOfX), handle.powerOfS)
LOCAL PartTimesKey(cx, sk, c, part) ==
  IF isOne(part.handle) THEN part.dcrt
  ELSE Mul(cx, PowerOf(cx, setPrimes(cx, sk.sKeys[part.handle.secretKeyID + 1], c.primeSet), part.handle),
           part.dcrt)
\* f, the plaintext before modular reduction
BeforeReduction(cx, sk, c) ==
  toPoly(cx, FoldLeft(LAMBDA d, part : Add(cx, d, PartTimesKey(cx, sk, c, part)),
                      Zero(cx, c.primeSet), c.parts))

PlaintextFactor(cx, c) == (productOfPrimes(cx, c.primeSet) * c.intFactor) % c.ptxtSpace

LOCAL Divided(f, factorInv, ptxtSpace) ==
  Computed([j \in DOMAIN f |-> ((f[j] % ptxtSpace) * factorInv) % ptxtSpace])
Reduced(cx, c, f) ==
  Divided(f, IF c.ptxtSpace > 2 THEN InvMod(PlaintextFactor(cx, c), c.ptxtSpace) ELSE 1, c.ptxtSpace)
Decrypt(cx, sk, c) == Reduced(cx, c, BeforeReduction(cx, sk, c))

--------------------------------------------------------------------------------
(***************************************************************************)
(* Key-switching matrices.  Column i hides the secret that is switched     *)
(* from, times the special primes and the primes of the digits before i.   *)
(***************************************************************************)
NoMatrix == [fromKey |-> Handle(-1, -1, -1), toKeyID |-> -1]

getKeySWmatrix(sk, from, toIdx) ==
  LET All == {i \in DOMAIN sk.keySwitching : /\ sk.keySwitching[i].toKeyID = toIdx
                                             /\ SameHandle(sk.keySwitching[i].fromKey, from)}
      mapped == IF from.powerOfS = 1 /\ from.secretKeyID = toIdx /\ toIdx + 1 \in DOMAIN sk.keySwitchMap
                THEN sk.keySwitchMap[toIdx + 1][from.powerOfX] ELSE -1
  IN CASE mapped \in All -> sk.keySwitching[mapped]
       [] mapped \notin All /\ All # {} -> sk.keySwitching[CHOOSE i \in All : \A j \in All : i <= j]
       [] OTHER -> NoMatrix
haveKeySWmatrix(sk, from, toIdx) == getKeySWmatrix(sk, from, toIdx).toKeyID >= 0

getAnyKeySWmatrix(sk, from) ==
  LET All == {i \in DOMAIN sk.keySwitching : SameHandle(sk.keySwitching[i].fromKey, from)}
      mapped == IF from.powerOfS = 1 /\ from.secretKeyID + 1 \in DOMAIN sk.keySwitchMap
                THEN sk.keySwitchMap[from.secretKeyID + 1][from.powerOfX] ELSE -1
  IN CASE mapped \in All -> sk.keySwitching[mapped]
       [] mapped \notin All /\ All # {} -> sk.keySwitching[CHOOSE i \in All : \A j \in All : i <= j]
       [] OTHER -> NoMatrix

\* What column i multiplies the secret with.
Scale(cx, i) ==
  FoldLeft(LAMBDA x, j : x * productOfPrimes(cx, cx.digits[j]), productOfPrimes(cx, cx.special),
           [j \in 1..(i - 1) |-> j])

\* Mutant of ScaledBy: the primes of the column's own digit too.
ScaledBy_OwnDigit(cx, i) == <<cx.special>> \o SubSeq(cx.digits, 1, i)

ScaledBy(cx, i) == <<cx.special>> \o SubSeq(cx.digits, 1, i - 1)
LOCAL Column(cx, fromKey, a, toKey, p, i, seed) ==
  LET instance == RLWE1(cx, a, toKey, p, Small(cx, seed + i))
  IN [a |-> a, bound |-> instance.bound,
      b |-> Add(cx, instance.dcrt,
                FoldLeft(LAMBDA d, S : MulNum(cx, d, productOfPrimes(cx, S)),
                         fromKey, ScaledBy(cx, i)))]
LOCAL OfColumns(columns, handle, toIdx, p) ==
  [fromKey |-> handle, toKeyID |-> toIdx, ptxtSpace |-> p,
   a |-> [i \in DOMAIN columns |-> columns[i].a],
   b |-> [i \in DOMAIN columns |-> columns[i].b],
   noiseBound |-> Last(columns).bound]
LOCAL NewMatrix(cx, sk, handle, toIdx, p, seed) ==
  OfColumns(Computed([i \in DOMAIN cx.digits |->
                        Column(cx, PowerOf(cx, sk.sKeys[handle.secretKeyID + 1], handle),
                               Uniform(cx, fullPrimes(cx), seed + i), sk.sKeys[toIdx + 1], p, i, seed)]),
            handle, toIdx, p)

GenKeySWmatrix(cx, sk, fromSPower, fromXPower, fromIdx, toIdx) ==
  IF \/ fromSPower <= 0 \/ fromXPower <= 0
     \/ fromSPower = 1 /\ fromXPower = 1 /\ fromIdx = toIdx
     \/ haveKeySWmatrix(sk, Handle(fromSPower, fromXPower, fromIdx), toIdx)
  THEN sk
  ELSE [sk EXCEPT !.keySwitching =
          Append(@, NewMatrix(cx, sk, Handle(fromSPower, fromXPower, fromIdx), toIdx,
                              sk.pubEncrKey.ptxtSpace, 10 * Len(@)))]

(***************************************************************************)
(* ImportSecKey: the first key gets a public encryption key.  Every key    *)
(* gets the matrices for its own powers.                                   *)
(***************************************************************************)
LOCAL PublicKey(cx, c1, c0) ==
  [parts |-> <<Part(One, c0.dcrt), Part(Base(0), c1)>>, primeSet |-> cx.ctxt,
   ptxtSpace |-> cx.p2r, intFactor |-> 1, noiseBound |-> c0.bound]
LOCAL WithKey(cx, sk, sKey, bound) ==
  [sk EXCEPT !.sKeys = Append(@, sKey), !.skBounds = Append(@, bound),
             !.pubEncrKey = IF sk.sKeys # <<>> THEN @
                            ELSE PublicKey(cx, Uniform(cx, cx.ctxt, 5),
                                           RLWE1(cx, Uniform(cx, cx.ctxt, 5), sKey, cx.p2r, Small(cx, 1)))]
ImportSecKey(cx, sk, poly, maxDegKswitch) ==
  FoldLeft(LAMBDA s, e : GenKeySWmatrix(cx, s, e, 1, Len(sk.sKeys), Len(sk.sKeys)),
           WithKey(cx, sk, FFT(cx, poly, fullPrimes(cx)), Norm(poly)),
           [e \in 1..(maxDegKswitch - 1) |-> e + 1])
NoKeys == [sKeys |-> <<>>, skBounds |-> <<>>, pubEncrKey |-> <<>>, keySwitching |-> <<>>,
           keySwitchMap |-> <<>>]

(***************************************************************************)
(* setKeySwitchMap: breadth first from X back along the matrices           *)
(* s(X^n) -> s(X).  What is found gets the matrix it was found with.       *)
(***************************************************************************)
\* Mutant of Discovered: a node that was found is found again.
Discovered_Again(cx, map, node, edge) ==
  [map |-> [map EXCEPT ![(node * edge.n) % cx.m] = edge.matrix],
   found |-> IF map[(node * edge.n) % cx.m] = -1 THEN <<(node * edge.n) % cx.m>> ELSE <<>>]

Discovered(cx, map, node, edge) ==
  IF map[(node * edge.n) % cx.m] # -1 THEN [map |-> map, found |-> <<>>]
  ELSE [map |-> [map EXCEPT ![(node * edge.n) % cx.m] = edge.matrix],
        found |-> <<(node * edge.n) % cx.m>>]

RECURSIVE Search(_, _, _, _)
LOCAL Enqueued(queue, d) == [map |-> d.map, queue |-> queue \o d.found]
LOCAL Neighbours(cx, edges, map, node, queue) ==
  FoldLeft(LAMBDA st, edge : Enqueued(st.queue, Discovered(cx, st.map, node, edge)),
           [map |-> map, queue |-> queue], edges)
Search(cx, edges, map, queue) ==
  IF queue = <<>> THEN map
  ELSE LET next == Neighbours(cx, edges, map, Head(queue), Tail(queue))
       IN Search(cx, edges, next.map, next.queue)

\* The automorphisms of key keyID that have a matrix.
Edges(sk, keyID) ==
  FoldLeft(LAMBDA es, i : IF /\ sk.keySwitching[i].toKeyID = keyID
                             /\ sk.keySwitching[i].fromKey.powerOfS = 1
                             /\ sk.keySwitching[i].fromKey.secretKeyID = keyID
                          THEN Append(es, [n |-> sk.keySwitching[i].fromKey.powerOfX, matrix |-> i]) ELSE es,
           <<>>, [i \in DOMAIN sk.keySwitching |-> i])
setKeySwitchMap(cx, sk, keyID) ==
  [sk EXCEPT !.keySwitchMap =
     [id \in 1..(IF keyID >= Len(@) THEN keyID + 1 ELSE Len(@)) |->
        IF id # keyID + 1 THEN (IF id \in DOMAIN @ THEN @[id] ELSE <<>>)
        ELSE Search(cx, Edges(sk, keyID), [k \in 0..(cx.m - 1) |-> -1], <<1>>)]]

isReachable(sk, k, keyID) == keyID < Len(sk.keySwitchMap) /\ sk.keySwitchMap[keyID + 1][k] >= 0
getNextKSWmatrix(sk, fromXPower, fromID) ==
  IF sk.keySwitchMap[fromID + 1][fromXPower] >= 0
  THEN sk.keySwitching[sk.keySwitchMap[fromID + 1][fromXPower]] ELSE NoMatrix

--------------------------------------------------------------------------------
(***************************************************************************)
(* The strategies: which matrices a dimension of the slots gets, or the    *)
(* Frobenius automorphisms, dimension 0 here.  A dimension that is not     *)
(* native needs another one for g^-ord.                                    *)
(***************************************************************************)
MIN_THRESH == 8

LOCAL Automorphisms(cx, sk, powers, keyID) ==
  FoldLeft(LAMBDA s, k : GenKeySWmatrix(cx, s, 1, k, keyID, keyID), sk, powers)
LOCAL OrderOf(cx, i) == IF i = 0 THEN cx.al.ordP ELSE cx.al.ords[i]
LOCAL Native(cx, i) == i = 0 \/ cx.al.native[i]
LOCAL ToPow(cx, i, j) == IF i = 0 THEN frobeniusPow(cx.al, j) ELSE genToPow(cx.al, i, j)
LOCAL Steps(cx, i, js) ==
  [n \in DOMAIN js |-> ToPow(cx, i, js[n])]
    \o (IF Native(cx, i) THEN <<>> ELSE <<ToPow(cx, i, -OrderOf(cx, i))>>)

KSGiantStepSize(D) == CHOOSE g \in 1..D : g * g >= D /\ (g - 1) * (g - 1) < D

add1Dmats4dim(cx, i) == Steps(cx, i, [j \in 1..(OrderOf(cx, i) - 1) |-> j])
addSome1Dmats4dim(cx, i) ==
  Steps(cx, i, LET g == KSGiantStepSize(OrderOf(cx, i))
               IN SelectSeq([j \in 1..(OrderOf(cx, i) - 1) |-> j], LAMBDA j : j < g \/ j % g = 0))
addMinimal1Dmats4dim(cx, i) ==
  Steps(cx, i, <<1>>)
    \o (IF OrderOf(cx, i) <= MIN_THRESH THEN <<>> ELSE <<ToPow(cx, i, KSGiantStepSize(OrderOf(cx, i)))>>)

\* The dimensions in their order, then the Frobenius automorphisms.
LOCAL AllDimensions(cx) == [i \in 1..Len(cx.al.gens) |-> i] \o <<0>>
Strategy(cx, name) ==
  CASE name = "all" -> SetToSortSeq(cx.units, <)
    [] name = "full" -> FlattenSeq([n \in DOMAIN AllDimensions(cx) |-> add1Dmats4dim(cx, AllDimensions(cx)[n])])
    [] name = "bsgs" -> FlattenSeq([n \in DOMAIN AllDimensions(cx) |-> addSome1Dmats4dim(cx, AllDimensions(cx)[n])])
    [] name = "minimal" -> FlattenSeq([n \in DOMAIN AllDimensions(cx) |-> addMinimal1Dmats4dim(cx, AllDimensions(cx)[n])])
    [] name = "some" -> <<cx.m - 1>>

AddMatrices(cx, sk, name, keyID) == setKeySwitchMap(cx, Automorphisms(cx, sk, Strategy(cx, name), keyID), 0)
================================================================================

----------------------------- MODULE EncryptedArray -----------------------------
(***************************************************************************)
(* Moving data between the slots of a ciphertext (EncryptedArray.cpp), on  *)
(* the plaintext that it encrypts: a polynomial modulo Phi_m(X) and p^r.   *)
(* al is a PAlgebraMod; a dimension i counts from 1.  At the end the same  *)
(* operations on plain slots.                                              *)
(***************************************************************************)
EXTENDS PAlgebra

multByConstant(al, ctxt, c) == MulMod(ctxt, c, al.PhimXMod, al.q)
smartAutomorph(al, ctxt, k) == PowerSubstituted(ctxt, k, al.m, al.PhimXMod, al.q)
Sum(al, x, y) == PolyAdd(x, y, al.q)
Difference(al, x, y) == PolyAdd(x, PolyScale(-1, y, al.q), al.q)

\* The part of x in the slots where the mask is one, and the rest.
Kept(al, x, mask) == multByConstant(al, x, mask)
Other(al, x, mask) == Difference(al, x, Kept(al, x, mask))

(***************************************************************************)
(* rotate1D: an automorphism moves the slots; in a dimension that is not   *)
(* native those that wrap around come back as conjugates, so that they are *)
(* taken from T, a second automorphism by -ord more, with a mask.          *)
(***************************************************************************)
MaskedSum(al, ctxt, T, mask) ==
  Difference(al, Sum(al, multByConstant(al, ctxt, mask), T), multByConstant(al, T, mask))

\* The automorphism that moves dimension i by j positions.
Moved(al, ctxt, i, j) == smartAutomorph(al, ctxt, genToPow(al, i, j))

Unwrapped(al, ctxt, i, mask) == MaskedSum(al, ctxt, Moved(al, ctxt, i, -al.ords[i]), mask)

rotate1DBy(al, ctxt, i, amt) ==
  IF amt = 0 THEN ctxt
  ELSE IF al.native[i] THEN Moved(al, ctxt, i, amt)
  ELSE Unwrapped(al, Moved(al, ctxt, i, amt), i, al.maskTable[i][amt])

rotate1D(al, ctxt, i, k) == rotate1DBy(al, ctxt, i, k % al.ords[i])

shift1D(al, ctxt, i, k) ==
  LET sz == al.ords[i]
      amt == k % sz
      mask == al.maskTable[i][sz - amt]
  IN IF k <= -sz \/ k >= sz THEN Constant(0, PolyLength(ctxt))
     ELSE IF k = 0 THEN ctxt
     ELSE Moved(al, IF k < 0 THEN Kept(al, ctxt, mask) ELSE Other(al, ctxt, mask), i,
                IF k < 0 THEN amt - sz ELSE amt)

(***************************************************************************)
(* One dimension of rotate and shift: the slots where the mask is one go   *)
(* by v, the others, which the dimensions after i carry into the next      *)
(* coordinate, by v + 1.  (shift adds the two parts in the other order.)   *)
(***************************************************************************)
\* Mutant of NextMask: the carry of the dimensions after i is forgotten.
NextMask_NoCarry(al, mask, i, v) == al.maskTable[i][v]

\* mask * (maskTable[i][v] - maskTable[i][v + 1]) + maskTable[i][v + 1]
NextMask(al, mask, i, v) ==
  Sum(al, multByConstant(al, Difference(al, al.maskTable[i][v], al.maskTable[i][v + 1]), mask),
      al.maskTable[i][v + 1])

BothParts(al, kept, other, i, v) == Sum(al, rotate1D(al, kept, i, v), rotate1D(al, other, i, v + 1))

\* s: the ciphertext and the mask that the dimensions after i leave; dimensions 1 to n.
Dimension(al, s, i, v) ==
  [ctxt |-> BothParts(al, Kept(al, s.ctxt, s.mask), Other(al, s.ctxt, s.mask), i, v),
   mask |-> IF i > 1 THEN NextMask(al, s.mask, i, v) ELSE s.mask]
Dimensions(al, amt, s, first, last) ==
  FoldLeft(LAMBDA t, i : Dimension(al, t, i, coordinate(al, i, amt)), s,
           [j \in 1..(last - first + 1) |-> last + 1 - j])

\* The last dimension, which no carry reaches.
LastDimension(al, ctxt, i, v) == [ctxt |-> rotate1D(al, ctxt, i, v), mask |-> al.maskTable[i][v]]

(***************************************************************************)
(* When the last dimension is not native its mask serves both its own      *)
(* rotation and the carry into the one before it, i, which is rotated by w *)
(* before the two parts are combined.                                      *)
(***************************************************************************)
LastTwoParts(al, ctxt, T, mask, i, w) ==
  [ctxt |-> BothParts(al, Kept(al, ctxt, mask), Other(al, T, mask), i, w),
   mask |-> IF i > 1 THEN NextMask(al, mask, i, w) ELSE mask]
LastTwo(al, moved, i, v, w) ==
  LastTwoParts(al, moved, Moved(al, moved, i, -al.ords[i]), al.maskTable[i][v], i - 1, w)

rotateBy(al, ctxt, amt, n) ==
  IF n = 1 THEN rotate1D(al, ctxt, 1, amt)
  ELSE IF amt = 0 THEN ctxt
  ELSE IF al.native[n] \/ coordinate(al, n, amt) = 0
  THEN Dimensions(al, amt, LastDimension(al, ctxt, n, coordinate(al, n, amt)), 1, n - 1).ctxt
  ELSE Dimensions(al, amt,
                  LastTwo(al, Moved(al, ctxt, n, coordinate(al, n, amt)), n, coordinate(al, n, amt),
                          coordinate(al, n - 1, amt)),
                  1, n - 2).ctxt

rotate(al, ctxt, k) == rotateBy(al, ctxt, k % al.nslots, numOfGens(al))

\* shift: as rotate, but the first dimension is shifted, also backwards.
FirstShifted(al, s, v) ==
  Sum(al, shift1D(al, Kept(al, s.ctxt, s.mask), 1, v), shift1D(al, Other(al, s.ctxt, s.mask), 1, v + 1))

shift(al, ctxt, k) ==
  LET amt == k % al.nslots
      n == numOfGens(al)
      v1 == coordinate(al, 1, amt) - (IF k < 0 THEN al.ords[1] ELSE 0)
  IN IF n = 1 THEN shift1D(al, ctxt, 1, k)
     ELSE IF k <= -al.nslots \/ k >= al.nslots THEN Constant(0, PolyLength(ctxt))
     ELSE IF k = 0 THEN ctxt
     ELSE FirstShifted(al, Dimensions(al, amt, LastDimension(al, ctxt, n, coordinate(al, n, amt)), 2, n - 1),
                       v1)

(***************************************************************************)
(* runningSums and totalSums double the distance; the latter walks down    *)
(* the bits of the number of slots, and adds one slot where a bit is set.  *)
(***************************************************************************)
RECURSIVE runningSumsFrom(_, _, _)
runningSumsFrom(al, ctxt, shamt) ==
  IF shamt >= al.nslots THEN ctxt
  ELSE runningSumsFrom(al, Sum(al, ctxt, shift(al, ctxt, shamt)), 2 * shamt)
runningSums(al, ctxt) == runningSumsFrom(al, ctxt, 1)

NumBits(n) == CHOOSE k \in 1..n : 2^(k - 1) <= n /\ n < 2^k

totalSums(al, orig) ==
  LET n == al.nslots
      k == NumBits(n)
      bit(i) == (n \div 2^i) % 2
      \* For each bit from the second highest on: the sum is doubled, and with a set bit
      \* orig is added at the distance reached.
      steps == FlattenSeq([j \in 1..(k - 1) |->
                 LET i == k - 1 - j
                     e == n \div 2^(i + 1)
                 IN <<[doubles |-> TRUE, by |-> e]>>
                      \o (IF bit(i) = 1 THEN <<[doubles |-> FALSE, by |-> 2 * e]>> ELSE <<>>)])
  IN FoldLeft(LAMBDA ctxt, s :
                Sum(al, ctxt, rotate(al, IF s.doubles THEN ctxt ELSE orig, s.by)),
              orig, steps)

--------------------------------------------------------------------------------
(***************************************************************************)
(* The same operations on unencrypted slots (Ptxt.cpp), which the tests    *)
(* compare ciphertexts with: the slots are an array indexed from 0, each   *)
(* slot a vector of coefficients modulo q.                                 *)
(***************************************************************************)
LOCAL Abs(k) == IF k < 0 THEN -k ELSE k
clear(al) == [i \in 0..(al.nslots - 1) |-> Constant(0, al.ordP)]

PtxtRotate(al, slots, amount) == [i \in DOMAIN slots |-> slots[(i - amount) % al.nslots]]

PtxtShift(al, slots, amount) ==
  IF Abs(amount) >= al.nslots THEN clear(al)
  ELSE [i \in DOMAIN slots |->
          IF i - amount < 0 \/ i - amount >= al.nslots THEN Constant(0, al.ordP)
          ELSE PtxtRotate(al, slots, amount)[i]]

\* c_i = index / (product of the orders after i), by divisions from the first on.
indexToCoord(al, index) ==
  LET left[i \in 0..numOfGens(al)] ==
        IF i = 0 THEN index ELSE left[i - 1] % prod(al.ords, i + 1)
  IN [i \in 1..numOfGens(al) |-> left[i - 1] \div prod(al.ords, i + 1)]

coordToIndex(al, coords) ==
  FoldLeft(LAMBDA s, i : s + coords[i] * prod(al.ords, i + 1), 0, [i \in 1..Len(coords) |-> i])

PtxtRotate1D(al, slots, dim, amount) ==
  LET New(index) == coordToIndex(al, [indexToCoord(al, index) EXCEPT ![dim] = (amount + @) % al.ords[dim]])
  IN [i \in DOMAIN slots |-> slots[CHOOSE j \in DOMAIN slots : New(j) = i]]

PtxtShift1D(al, slots, dim, amount) ==
  LET sz == al.ords[dim]
      Old(i) == [indexToCoord(al, i) EXCEPT ![dim] = @ - amount]
  IN CASE amount = 0 -> slots
       [] amount # 0 /\ (al.nslots = 1 \/ Abs(amount) >= sz) -> clear(al)
       [] OTHER -> [i \in DOMAIN slots |->
                      IF Old(i)[dim] < 0 \/ Old(i)[dim] >= sz THEN Constant(0, al.ordP)
                      ELSE slots[coordToIndex(al, Old(i))]]

\* slots[i] += slots[i - 1], from the second slot on
PtxtRunningSums(al, slots) ==
  LET sums[i \in DOMAIN slots] == IF i = 0 THEN slots[0] ELSE PolyAdd(slots[i], sums[i - 1], al.q)
  IN [i \in DOMAIN slots |-> sums[i]]

PtxtTotalSums(al, slots) ==
  [i \in DOMAIN slots |-> PtxtRunningSums(al, slots)[al.nslots - 1]]

(***************************************************************************)
(* The same operations of PlaintextArray (EncryptedArray.cpp), which clear *)
(* what would be shifted out and then rotate, by the addresses of the      *)
(* hypercube.                                                              *)
(***************************************************************************)
LOCAL MovedTo(slots, New(_)) == [i \in DOMAIN slots |-> slots[CHOOSE j \in DOMAIN slots : New(j) = i]]
LOCAL Cleared(al, slots, Out(_)) == [j \in DOMAIN slots |-> IF Out(j) THEN Constant(0, al.ordP) ELSE slots[j]]

PaRotate(al, data, k) == MovedTo(data, LAMBDA j : mcMod(j + k, al.nslots))
PaRotate1D(al, data, dim, k) == MovedTo(data, LAMBDA j : addCoord(al.ords, j, dim, k))
PaShift(al, data, k) == PaRotate(al, Cleared(al, data, LAMBDA j : j + k >= al.nslots \/ j + k < 0), k)
PaShift1D(al, data, dim, k) ==
  LET Out(j) == LET c == coordinate(al, dim, j) IN c + k >= al.ords[dim] \/ c + k < 0
  IN PaRotate1D(al, Cleared(al, data, Out), dim, k)
================================================================================

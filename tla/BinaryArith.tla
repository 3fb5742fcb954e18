------------------------------ MODULE BinaryArith ------------------------------
(***************************************************************************)
(* Numbers whose bits are encrypted one by one: arithmetic                 *)
(* (binaryArith.cpp), comparison (binaryCompare.cpp), table lookup         *)
(* (tableLookup.cpp) and products of many ciphertexts (Ctxt.cpp).          *)
(*                                                                         *)
(* A number is a sequence of ciphertexts, the lowest bit first.  A         *)
(* ciphertext is the bit it decrypts to, or Empty for one without parts    *)
(* and for a null pointer, which these functions treat alike.  Recryption  *)
(* when too few levels are left does not change a number and is left out.  *)
(***************************************************************************)
EXTENDS Integers, SequencesExt, TLC

Empty == -1
PlusBit(x, y) == IF x = Empty THEN y ELSE IF y = Empty THEN x ELSE (x + y) % 2
TimesBit(x, y) == IF Empty \in {x, y} THEN Empty ELSE x * y
PlusOne(x) == IF x = Empty THEN 1 ELSE 1 - x
SumBits(xs) == FoldLeft(PlusBit, Empty, xs)

isSet(v, i) == i \in DOMAIN v
\* Bit i of v, counted from 1, or nothing.
BitOf(v, i) == IF isSet(v, i) THEN v[i] ELSE Empty

LOCAL Least(x, y) == IF x <= y THEN x ELSE y
LOCAL Most(x, y) == IF x <= y THEN y ELSE x
LOCAL NumBits(n) == IF n = 0 THEN 0 ELSE CHOOSE k \in 1..n : 2^(k - 1) <= n /\ n < 2^k
vecCopy(v, sizeLimit) == IF sizeLimit > 0 THEN SubSeq(v, 1, Least(sizeLimit, Len(v))) ELSE v

--------------------------------------------------------------------------------
(***************************************************************************)
(* Bit by bit.                                                             *)
(***************************************************************************)
binaryMask(bits, mask) == [i \in DOMAIN bits |-> TimesBit(bits[i], mask)]
binaryCond(cond, trueValue, falseValue) ==
  [i \in DOMAIN trueValue |->
     PlusBit(binaryMask(trueValue, cond)[i], binaryMask(falseValue, PlusOne(cond))[i])]
concatBinaryNums(a, b) == a \o b
splitBinaryNums(input, leftSize) ==
  <<SubSeq(input, 1, leftSize), SubSeq(input, leftSize + 1, Len(input))>>
leftBitwiseShift(input, shamt) ==
  [i \in DOMAIN input |-> IF i <= shamt THEN Empty ELSE input[i - shamt]]
bitwiseRotate(input, rotamt) ==
  [i \in DOMAIN input |-> input[1 + ((i - 1 - (rotamt % Len(input))) % Len(input))]]
bitwiseXOR(lhs, rhs) == [i \in DOMAIN lhs |-> PlusBit(lhs[i], rhs[i])]
bitwiseAnd(lhs, rhs) == [i \in DOMAIN lhs |-> TimesBit(lhs[i], rhs[i])]
bitwiseOr(lhs, rhs) == [i \in DOMAIN lhs |-> PlusBit(PlusBit(bitwiseAnd(lhs, rhs)[i], lhs[i]), rhs[i])]
bitwiseNot(input) == [i \in DOMAIN input |-> PlusOne(input[i])]

--------------------------------------------------------------------------------
(***************************************************************************)
(* Products of n ciphertexts, in two parts of which the first has the      *)
(* largest power of two smaller than n.                                    *)
(***************************************************************************)
FirstPart(n) == 2^(NumBits(n - 1) - 1)

RECURSIVE incrementalProduct(_)
incrementalProduct(v) ==
  IF Len(v) <= 1 THEN v
  ELSE LET n1 == FirstPart(Len(v))
           first == incrementalProduct(SubSeq(v, 1, n1))
           rest == incrementalProduct(SubSeq(v, n1 + 1, Len(v)))
       IN first \o binaryMask(rest, first[n1])

RECURSIVE totalProduct(_)
totalProduct(v) ==
  IF Len(v) <= 3 THEN FoldLeft(TimesBit, v[1], Tail(v))
  ELSE LET n1 == FirstPart(Len(v))
       IN TimesBit(totalProduct(SubSeq(v, 1, n1)), totalProduct(SubSeq(v, n1 + 1, Len(v))))

innerProduct(v1, v2) ==
  SumBits([i \in 1..Least(Len(v1), Len(v2)) |-> TimesBit(v1[i], v2[i])])

--------------------------------------------------------------------------------
(***************************************************************************)
(* Addition.  The carry into a bit is the sum of the products q(i-1, j)    *)
(* that AddDag computes.                                                   *)
(***************************************************************************)
LOCAL Ordered(lhs, rhs) == IF Len(rhs) >= Len(lhs) THEN <<lhs, rhs>> ELSE <<rhs, lhs>>
\* Mutant of CarryProducts: no carry out of the highest bit.
CarryProducts_NoCarryOut(a, b, i) ==
  [j \in 1..(IF i > Len(b) THEN 0 ELSE Least(i - 1, Len(a))) |->
     FoldLeft(LAMBDA q, t : TimesBit(q, PlusBit(b[t], BitOf(a, t))), TimesBit(b[j], a[j]),
              [k \in 1..(i - 1 - j) |-> j + k])]
CarryProducts(a, b, i) ==
  [j \in 1..(IF i > Len(b) + 1 THEN 0 ELSE Least(i - 1, Len(a))) |->
     FoldLeft(LAMBDA q, t : TimesBit(q, PlusBit(b[t], BitOf(a, t))), TimesBit(b[j], a[j]),
              [k \in 1..(i - 1 - j) |-> j + k])]

addTwoNumbers(lhs, rhs, sizeLimit) ==
  LET a == Ordered(lhs, rhs)[1]
      b == Ordered(lhs, rhs)[2]
  IN IF lhs = <<>> THEN vecCopy(rhs, sizeLimit)
     ELSE IF rhs = <<>> THEN vecCopy(lhs, sizeLimit)
     ELSE [i \in 1..(IF sizeLimit = 0 THEN Len(b) + 1 ELSE sizeLimit) |->
             SumBits(<<PlusBit(BitOf(b, i), BitOf(a, i))>> \o CarryProducts(a, b, i))]

negateBinary(input) ==
  LET carryBits == incrementalProduct(bitwiseNot(input))
  IN [i \in DOMAIN input |->
        IF i = 1 THEN PlusOne(PlusOne(input[i])) ELSE PlusBit(PlusOne(input[i]), carryBits[i - 1])]
subtractBinary(lhs, rhs) == addTwoNumbers(lhs, negateBinary(rhs), Len(lhs))

\* Two bits <<lsb, msb>> with the sum of three; empty ones are left out.
three4TwoBits(u, v, w) ==
  LET set == SelectSeq(<<u, v, w>>, LAMBDA x : x # Empty)
  IN CASE Len(set) = 0 -> <<Empty, Empty>>
       [] Len(set) = 1 -> <<set[1], Empty>>
       [] Len(set) = 2 -> <<PlusBit(set[1], set[2]), TimesBit(set[1], set[2])>>
       [] Len(set) = 3 ->
            <<PlusBit(PlusBit(u, v), w), PlusBit(TimesBit(u, v), TimesBit(PlusBit(u, v), w))>>

\* Two numbers <<lsb, msb>> with the sum of three.
three4Two(u, v, w, sizeLimit) ==
  LET p == SortSeq(<<u, v, w>>, LAMBDA x, y : Len(x) < Len(y))
      limit == IF sizeLimit = 0 THEN Len(p[3]) + 1 ELSE sizeLimit
      lsbSize == Least(limit, Len(p[3]))
      msbSize == IF Len(p[2]) = Len(p[3]) /\ lsbSize < limit THEN lsbSize + 1 ELSE lsbSize
      \* The positions that all have, two have, or only the longest has.
      pair(i) == IF i <= Len(p[1]) THEN three4TwoBits(p[1][i], p[2][i], p[3][i])
                 ELSE IF i <= Len(p[2]) THEN three4TwoBits(p[2][i], p[3][i], Empty)
                 ELSE <<BitOf(p[3], i), Empty>>
      last == SumBits(<<BitOf(p[1], lsbSize), BitOf(p[2], lsbSize), BitOf(p[3], lsbSize)>>)
  IN IF p[3] = <<>> THEN <<<<>>, <<>>>>
     ELSE IF p[1] = <<>> THEN <<vecCopy(p[2], sizeLimit), vecCopy(p[3], sizeLimit)>>
     ELSE <<[i \in 1..lsbSize |-> IF i < msbSize THEN pair(i)[1] ELSE last],
            [i \in 1..msbSize |-> IF i = 1 THEN Empty ELSE pair(i - 1)[2]]>>

\* Three numbers are replaced by two until only two are left; the leftover ones come first.
ThreeForTwo(numbers, sizeLimit) ==
  LET nTriples == Len(numbers) \div 3
      leftOver == SubSeq(numbers, 3 * nTriples + 1, Len(numbers))
  IN leftOver \o FlattenSeq([i \in 1..nTriples |->
       three4Two(numbers[3 * i - 2], numbers[3 * i - 1], numbers[3 * i], sizeLimit)])
RECURSIVE AddPairs(_, _)
AddPairs(numbers, sizeLimit) ==
  IF Len(numbers) > 2 THEN AddPairs(ThreeForTwo(numbers, sizeLimit), sizeLimit)
  ELSE addTwoNumbers(numbers[1], numbers[2], sizeLimit)
addManyNumbers(numbers, sizeLimit) ==
  IF numbers = <<>> \/ \A i \in DOMAIN numbers : numbers[i] = <<>> THEN <<>>
  ELSE IF Len(numbers) = 1 THEN numbers[1]
  ELSE AddPairs(numbers, sizeLimit)

--------------------------------------------------------------------------------
(***************************************************************************)
(* Multiplication: the shifted products with each bit, added.              *)
(***************************************************************************)
LOCAL ProductSize(lhs, rhs, sizeLimit) ==
  IF sizeLimit > 0 THEN Least(sizeLimit, Len(lhs) + Len(rhs)) ELSE Len(lhs) + Len(rhs)

\* b may be negative: its products are extended with their signs.
multByNegative(a, b, sizeLimit) ==
  LET resSize == ProductSize(a, b, sizeLimit)
      bit(i, j) == IF j < i THEN Empty ELSE TimesBit(a[i], b[Least(j - i + 1, Len(b))])
  IN addManyNumbers([i \in 1..Least(Len(a), resSize) |-> [j \in 1..resSize |-> bit(i, j)]], resSize)

\* With one bit in rhs it is lhs that is multiplied with it, after the copy to product.
multTwoNumbers(lhs, rhs, rhsTwosComplement, sizeLimit) ==
  LET resSize == ProductSize(lhs, rhs, sizeLimit)
      larger == Most(Len(lhs), Len(rhs))
      number(i) == [j \in 1..Least(i - 1 + larger, resSize) |->
                      IF j < i THEN Empty ELSE TimesBit(BitOf(lhs, j - i + 1), rhs[i])]
  IN IF lhs = <<>> \/ rhs = <<>> \/ lhs = <<Empty>> THEN <<>>
     ELSE IF Len(lhs) = 1 THEN binaryMask(vecCopy(rhs, resSize), lhs[1])
     ELSE IF rhsTwosComplement THEN multByNegative(lhs, rhs, sizeLimit)
     ELSE IF Len(rhs) = 1 THEN IF rhs[1] = Empty THEN <<>> ELSE vecCopy(lhs, resSize)
     ELSE addManyNumbers([i \in 1..Least(Len(rhs), resSize) |-> number(i)], resSize)

--------------------------------------------------------------------------------
(***************************************************************************)
(* Counting up to fifteen bits.  The names are those of the code's scheme; *)
(* with few bits asked for, the upper ciphertexts are not computed and are *)
(* Empty here.                                                             *)
(* One thread is in the pool; with more, two of these sums would run at    *)
(* the same time in ciphertexts of which b9 and d3 are the same.           *)
(***************************************************************************)
seven4Three(in, sizeLimit) ==
  LET b == three4TwoBits(in[1], in[2], in[3])
      b34 == three4TwoBits(in[4], in[5], in[6])
      c == three4TwoBits(in[7], b[1], b34[1])
      c3 == PlusBit(b[2], b34[2])
      c4 == TimesBit(b[2], b34[2])
  IN <<c[1],
       IF sizeLimit < 2 THEN Empty ELSE PlusBit(c[2], c3),
       IF sizeLimit < 3 THEN Empty ELSE PlusBit(TimesBit(c[2], c3), c4)>>

fifteen4Four(in, sizeLimit) ==
  LET sum(i) == three4TwoBits(in[i], in[i + 1], in[i + 2])
      lsb(i) == sum(i)[1]
      msb(i) == sum(i)[2]
      c == three4TwoBits(lsb(1), lsb(4), lsb(7))
      c34 == three4TwoBits(msb(1), msb(4), msb(7))
      d == three4TwoBits(lsb(10), lsb(13), c[1])
      d34 == three4TwoBits(msb(10), msb(13), c[2])
      e == three4TwoBits(c34[1], d[2], d34[1])
      e3 == PlusBit(c34[2], d34[2])
      e4 == TimesBit(c34[2], d34[2])
  IN <<d[1],
       IF sizeLimit < 2 THEN Empty ELSE e[1],
       IF sizeLimit < 3 THEN Empty ELSE PlusBit(e[2], e3),
       IF sizeLimit < 4 THEN Empty ELSE PlusBit(e4, TimesBit(e[2], e3))>>

fifteenOrLess4Four(in, sizeLimit) ==
  LET set == SelectSeq(in, LAMBDA x : x # Empty)
      padded == set \o [i \in 1..7 |-> Empty]
  IN IF Len(set) > 7 THEN fifteen4Four(in, sizeLimit)
     ELSE IF Len(set) > 3 THEN seven4Three(padded, sizeLimit) \o <<Empty>>
     ELSE three4TwoBits(padded[1], padded[2], padded[3]) \o <<Empty, Empty>>

--------------------------------------------------------------------------------
(***************************************************************************)
(* Comparison.  e[i] becomes "equal from bit i up" and g[i] "greater, with *)
(* bit i the highest that differs", by products of the upper bits.         *)
(***************************************************************************)
RECURSIVE compProducts(_, _)
compProducts(e, g) ==
  LET n == Len(e)
      n1 == n - 2^(NumBits(n - 1) - 1)
      lower == compProducts(SubSeq(e, 1, n1), SubSeq(g, 1, Least(n1, Len(g))))
      upper == compProducts(SubSeq(e, n1 + 1, n), SubSeq(g, n1 + 1, Len(g)))
      all == upper.e[1]
  IN IF n <= 1 THEN [e |-> e, g |-> g]
     ELSE [e |-> [lower.e EXCEPT ![1] = TimesBit(@, all)] \o upper.e,
           g |-> binaryMask(lower.g, all) \o upper.g]

compEqGt(a, b) ==
  LET bNot == bitwiseNot(b)
      products == compProducts([i \in DOMAIN b |-> PlusBit(bNot[i], BitOf(a, i))],
                               [i \in DOMAIN a |-> TimesBit(bNot[i], a[i])])
      \* runningSums: the sum of the bits from i up.
      sums == [i \in DOMAIN a |-> SumBits(Reverse(SubSeq(products.g, i, Len(a))))]
  IN [e |-> products.e, ag |-> sums]

\* mu says that the shorter number is larger, which is aa only if it is not the longer one.
compareTwoNumbers(aa, bb, twosComplement) ==
  LET a == Ordered(aa, bb)[1]
      b == Ordered(aa, bb)[2]
      flip(x) == IF twosComplement THEN PlusBit(PlusBit(x, Last(aa)), Last(bb)) ELSE x
      result(eg) ==
        LET chosen == [i \in DOMAIN a |-> TimesBit(PlusBit(a[i], b[i]), flip(eg.ag[i]))]
        IN [mu |-> flip(eg.ag[1]),
            ni |-> flip(PlusBit(PlusOne(eg.ag[1]), eg.e[1])),
            max |-> [i \in DOMAIN b |-> IF i <= Len(a) THEN PlusBit(chosen[i], b[i]) ELSE b[i]],
            min |-> [i \in DOMAIN a |-> PlusBit(chosen[i], a[i])]]
  IN IF a = <<>> THEN [mu |-> Empty, ni |-> 1, max |-> b, min |-> <<>>]
     ELSE result(compEqGt(a, b))

--------------------------------------------------------------------------------
(***************************************************************************)
(* Tables with an encrypted index.  The bits of the index are numbers      *)
(* here, since the products have to be right modulo any plaintext space;   *)
(* products[j + 1] is 1 for the index j and 0 for others.                  *)
(***************************************************************************)
RECURSIVE recursiveProducts(_, _)
recursiveProducts(size, array) ==
  LET N == Least(size, 2^Len(array))
      nBits == IF N < 2^(Len(array) - 1) THEN NumBits(N - 1) ELSE Len(array)
      both == array[1] * array[2]
      power == 2^(NumBits(nBits) - 1)
      n1 == IF nBits <= power THEN power \div 2 ELSE power
      products1 == recursiveProducts(2^n1, SubSeq(array, 1, n1))
      products2 == recursiveProducts(2^(nBits - n1), SubSeq(array, n1 + 1, nBits))
  IN IF N <= 2 THEN SubSeq(<<1 - array[1], array[1]>>, 1, N)
     ELSE IF N <= 4
          THEN SubSeq(<<1 + both - array[2] - array[1], array[1] - both, array[2] - both, both>>, 1, N)
     ELSE [i \in 1..size |-> products1[1 + ((i - 1) % 2^n1)] * products2[1 + ((i - 1) \div 2^n1)]]

\* size is the size the products already have, or 0.
computeAllProducts(size, array) ==
  LET nBits == IF size > 0 THEN Least(Len(array), NumBits(size - 1)) ELSE Len(array)
      n == IF size = 0 THEN 2^nBits ELSE size
      products == recursiveProducts(n, SubSeq(array, 1, nBits))
  IN IF nBits < 1 THEN [i \in 1..size |-> 0]
     ELSE [i \in 1..n |-> IF i <= Len(products) THEN products[i] ELSE 0]

tableLookup(table, idx) ==
  LET products == computeAllProducts(Len(table), idx)
  IN FoldLeft(LAMBDA out, i : out + products[i] * table[i], 0, [i \in DOMAIN table |-> i])
tableWriteIn(table, idx) ==
  LET products == computeAllProducts(Len(table), idx)
  IN [i \in DOMAIN table |-> table[i] + products[i]]

\* f gives the scaled and rounded value for an index as a signed or unsigned number.
buildLookupTable(f, nbits_in, sign_in, nbits_out, sign_out) ==
  LET index(i) == IF sign_in /\ i >= 2^(nbits_in - 1) THEN i - 2 * 2^(nbits_in - 1) ELSE i
      largest_value == IF sign_out THEN 2^(nbits_out - 1) - 1 ELSE 2^nbits_out - 1
      smallest_value == IF sign_out THEN -(2^(nbits_out - 1)) ELSE 0
  IN [i \in 1..2^nbits_in |->
        Most(smallest_value, Least(largest_value, f[index(i - 1)])) % 2^nbits_out]
================================================================================

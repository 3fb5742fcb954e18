------------------------------ MODULE MCAlgorithms ------------------------------
(***************************************************************************)
(* The algorithms of the library that compute without state, each called   *)
(* once with every argument of a small set, and the modular arithmetic of  *)
(* the DPU (SpMulMod), which this module extends.  A call is answered in   *)
(* one step; the properties compare the answer with a reference.  One      *)
(* algorithm takes its steps here, the addition by threads (AddDag).       *)
(***************************************************************************)
EXTENDS SpMulMod, AddDag, FiniteSets, TLC

VARIABLES
  call,       \* a record: the algorithm (alg) and its arguments
  returned    \* <<>>, then <<the answer>>

avars == <<call, returned>>

\* 20161 - 1 = 2^6 * 3^2 * 5 * 7, and 13 is a primitive root.
FftPrime == 20161
FftGenerator == 13

Fft ==
  INSTANCE Pgfft WITH
    P <- FftPrime, G <- FftGenerator,
    PGFFT_NEW_FFT_THRESH <- 3, PGFFT_FFT_RDUP <- 2, PGFFT_BRC_THRESH <- 3, PGFFT_BRC_Q <- 1

Mod == INSTANCE Cmodulus WITH P <- FftPrime, G <- FftGenerator

Nt == INSTANCE NumbTh
EA == INSTANCE EncryptedArray
Bin == INSTANCE BinaryArith
PN == INSTANCE PermNetwork
Re == INSTANCE Recryption

--------------------------------------------------------------------------------
(***************************************************************************)
(* The arguments.                                                          *)
(***************************************************************************)
\* The basis vectors of length n and a vector without zeros.
Inputs(n) ==
  {[j \in 0..(n - 1) |-> IF j = i THEN 1 ELSE 0] : i \in 0..(n - 1)}
    \union {[j \in 0..(n - 1) |-> j * j + 1]}

ApplyCalls ==
  UNION {{[alg |-> "apply", n |-> n, x |-> x] : x \in Inputs(n)}
           : n \in {1, 2, 3, 4, 5, 6, 7, 8, 9, 10, 12, 14, 15, 16}}

\* Truncated transforms of 16 elements with 2 layers above new_fft_base.
Truncations == {<<xn, yn>> \in {4, 8, 12, 16} \X {4, 8, 12, 16} : TRUE}
TruncatedCalls ==
  {[alg |-> "truncated", xn |-> t[1], yn |-> t[2], x |-> [j \in 0..15 |-> IF j < t[1] THEN j * j + 1 ELSE 0]]
     : t \in Truncations}

\* What is left in the array iFFT works in: zeros, or values of a larger modulus.
Leftovers(m) == {[i \in 0..(m - 1) |-> c * i] : c \in {0, 7}}
CmodulusCalls ==
  UNION {{[alg |-> "Cmodulus", m |-> m, x |-> x, stale |-> stale]
            : x \in Inputs(Mod!PhiM(m)), stale \in Leftovers(m)}
           : m \in {3, 4, 5, 6, 7, 8, 9, 10, 12, 14, 15, 16}}

GeneratorCalls ==
  {[alg |-> "findGenerators", m |-> m, p |-> p]
     : m \in 3..40, p \in {2, 3, 5, 7, 11, 13, 17, 19}}
CyclotomicCalls == {[alg |-> "Cyclotomic", n |-> n] : n \in 1..60}

CRTCalls ==
  {[alg |-> "intVecCRT", vp |-> v, p |-> c[1], vq |-> w, q |-> c[2]]
     : v \in {<<x, -1>> : x \in -3..3}, w \in {<<y, 1>> : y \in 0..6} \union {<<y>> : y \in 0..6},
       c \in {<<3, 5>>, <<5, 3>>, <<5, 7>>, <<4, 9>>, <<2, 3>>}}
InterpolateCalls ==
  UNION {{[alg |-> "interpolateMod", x |-> x, y |-> y, p |-> 3, e |-> e]
            : y \in [1..Len(x) -> 0..(3^e - 1)]}
           : x \in {<<0, 1>>, <<0, 2>>, <<2, 1>>}, e \in 1..2}

SmallMatrices == {<<<<a1, b1>>, <<c1, d1>>>> : a1 \in {1, 3, 4}, b1 \in {0, 1, 5}, c1 \in {0, 2, 3}, d1 \in {1, 2, 7}}
MatrixCalls ==
  {[alg |-> "prime_power_matrix", A |-> A, b |-> <<3, 5>>, p |-> c[1], r |-> c[2]]
     : A \in SmallMatrices, c \in {<<2, 1>>, <<2, 2>>, <<2, 3>>, <<2, 4>>, <<2, 7>>, <<3, 3>>}}

(***************************************************************************)
(* Algebras <<m, p, r>>: with none to three dimensions, the first,         *)
(* the last or none of them not native, slots of one or more coefficients, *)
(* and modulo a prime or a power of one.  The algebra is built once, when  *)
(* the call is chosen.                                                     *)
(***************************************************************************)
Algebras ==
  {<<3, 2, 1>>, <<15, 19, 1>>, <<17, 13, 1>>, <<24, 5, 1>>, <<15, 2, 2>>, <<31, 2, 1>>, <<32, 17, 1>>, <<40, 41, 1>>}
SlotValues(al) ==
  EA!Computed([i \in 0..(al.nslots - 1) |->
                 EA!Computed([j \in 0..(al.ordP - 1) |-> (3 * (i + 1) + j * j * i + j) % al.q])])
SlotCalls(al) ==
  LET Distances == -(al.nslots + 1)..(al.nslots + 1)
      Dims == 1..EA!numOfGens(al)
  IN [alg : {"rotate", "shift"}, al : {al}, v : {SlotValues(al)}, k : Distances]
       \union [alg : {"rotate1D", "shift1D"}, al : {al}, v : {SlotValues(al)}, dim : Dims, k : -5..5]
       \union [alg : {"runningSums", "totalSums"}, al : {al}, v : {SlotValues(al)}]

(***************************************************************************)
(* Permutations: all of up to five elements, and of more those that        *)
(* multiply and add modulo n, also with two elements exchanged.            *)
(* Generators <<orders, which are good, bound of the depth>> lead to       *)
(* networks of one layer or many, to orders that are split into good parts *)
(* or bad ones, and some to none; ranks order the neighbours.              *)
(***************************************************************************)
Affine(n) ==
  {[i \in 0..(n - 1) |-> (a1 * i + b1) % n] : a1 \in {x \in 1..(n - 1) : Nt!Coprime(x, n)}, b1 \in {0, 1}}
SomePermutations(n) ==
  IF n <= 5 THEN {f \in [0..(n - 1) -> 0..(n - 1)] : \A i, j \in 0..(n - 1) : f[i] = f[j] => i = j}
  ELSE Affine(n) \union {[f EXCEPT ![0] = f[n - 2], ![n - 2] = f[0]] : f \in Affine(n)}
Ranks == {[x \in 0..80 |-> x], [x \in 0..80 |-> -x], [x \in 0..80 |-> (7 * x) % 83]}
Networks ==
  {<<<<3>>, <<TRUE>>, 1>>, <<<<2, 3>>, <<FALSE, FALSE>>, 3>>, <<<<2, 3>>, <<TRUE, FALSE>>, 3>>,
   <<<<6>>, <<TRUE>>, 3>>, <<<<6>>, <<FALSE>>, 4>>, <<<<6, 2>>, <<TRUE, FALSE>>, 5>>, <<<<4, 2>>, <<FALSE, TRUE>>, 3>>,
   <<<<7>>, <<FALSE>>, 5>>, <<<<11>>, <<FALSE>>, 3>>, <<<<13>>, <<FALSE>>, 6>>, <<<<7, 2>>, <<FALSE, TRUE>>, 12>>,
   <<<<2, 2>>, <<TRUE, TRUE>>, 2>>, <<<<2, 2>>, <<TRUE, FALSE>>, 3>>, <<<<16>>, <<TRUE>>, 3>>, <<<<12>>, <<FALSE>>, 6>>}
Descriptors(orders, good) == [i \in DOMAIN orders |-> [order |-> orders[i], good |-> good[i]]]
Trees(n) == [orders |-> n[1], bound |-> n[3], t |-> PN!buildOptimalTrees(Descriptors(n[1], n[2]), n[3])]
NetworkCalls(trees) ==
  [alg : {"buildNetwork"}, trees : {trees}, pi : SomePermutations(EA!getSize(trees.orders)), rank : Ranks]
PermutationCalls(al) ==
  LET Of(d) == PN!buildOptimalTrees(Descriptors(al.ords, al.native), d)
  IN UNION {[alg : {"applyToCtxt"}, al : {al}, v : {SlotValues(al)}, t : {t}, pi : SomePermutations(al.nslots)]
              : t \in {x \in {Of(d) : d \in {3, 5}} : x.cost < PN!NTL_MAX_LONG}}
BenesCalls ==
  [alg : {"GeneralBenesNetwork"}, pi : UNION {SomePermutations(n) : n \in 2..13}]
    \union [alg : {"optimalBenes"}, n : 2..8, budget : 1..6, good : BOOLEAN]

(***************************************************************************)
(* Numbers of up to three bits, and of two ciphertexts that may be empty.  *)
(***************************************************************************)
Numbers == UNION {[1..n -> {0, 1}] : n \in 0..3}
NumbersWithEmpty == UNION {[1..n -> {Bin!Empty, 0, 1}] : n \in 0..2}
Pairs == (Numbers \X Numbers) \union (NumbersWithEmpty \X NumbersWithEmpty)
EqualPairs == {p \in Pairs : Len(p[1]) = Len(p[2]) /\ p[1] # <<>>}
ManyNumbers ==
  {[i \in 1..n |-> [k \in 1..((i * s) % 4) |-> (((i + k) * t) \div 2) % 2]] : n \in 0..7, s \in 1..3, t \in 1..3}
FifteenBits == {low \o high : low \in [1..5 -> {Bin!Empty, 0, 1}],
                               high \in {<<0, 1, 1, 0, 1, 1, 1, 0, 1, 1>>, <<1, -1, -1, 1, -1, -1, 0, -1, -1, -1>>,
                                         [i \in 1..10 |-> -1]}}
BinaryCalls ==
  [alg : {"addTwoNumbers"}, x : Pairs, limit : {0, 1, 2, 5}]
    \union [alg : {"addManyNumbers"}, x : ManyNumbers, limit : {0, 2, 4}]
    \union [alg : {"multTwoNumbers"}, x : {p \in Pairs : Len(p[1]) > 1 /\ Len(p[2]) > 1}, limit : {0, 2, 4},
             signed : BOOLEAN]
    \union [alg : {"subtractBinary", "bitwise"}, x : EqualPairs]
    \union [alg : {"compareTwoNumbers"}, x : {p \in Pairs : Len(p[1]) \in 1..Len(p[2])}, signed : {FALSE}]
    \union [alg : {"compareTwoNumbers"}, x : EqualPairs, signed : {TRUE}]
    \union [alg : {"fifteenOrLess4Four"}, x : FifteenBits, limit : 1..4]
    \union [alg : {"products"}, x : Numbers \union [1..7 -> {0, 1}]]
    \union {[alg |-> "tableLookup", x |-> x, size |-> size]
              : x \in UNION {[1..n -> {0, 1}] : n \in 1..5}, size \in 2..32}
LookupCalls == {c \in BinaryCalls : c.alg = "tableLookup" => c.size \in (2^(Len(c.x) - 1) + 1)..2^Len(c.x)}

(***************************************************************************)
(* Polynomials of every degree up to 34, and up to 9 with encrypted        *)
(* coefficients; with k baby steps, k is not above half of the degree.     *)
(* All digits of all numbers of a few digits (with r as 0, the digits of   *)
(* the space, or more than it has).  Recryption from keys                  *)
(* <<p, r, e, e'>>, with and without digits divided away, with e' below r  *)
(* or not, and of numbers within the noise that e is chosen for: with what *)
(* was added to make the parts divisible, within half of p^e.              *)
(***************************************************************************)
Poly(d, s, q) == [i \in 0..d |-> IF i < d THEN (i * i * (s + 1) + 3 * i + s) % q ELSE IF s = 0 THEN 1 ELSE q - s]
PolyCalls ==
  {c \in [alg : {"polyEval"}, d : 0..34, s : 0..3, q : {5, 8, 9}, x : {3}, k : {0, 1, 2, 3, 4}] : c.k = 0 \/ 2 * c.k <= c.d}
    \union [alg : {"polyEvalEncrypted"}, d : 0..9, s : 0..1, q : {9}, x : {2, 3}]
    \union [alg : {"power"}, x : {2}, q : {9}, e : 1..18]
DigitCalls ==
  UNION {[alg : {"extractDigits"}, p : {t[1]}, n : {t[2]}, r : {0, t[2], t[2] + 1}, x : 0..(t[1]^t[2] - 1)]
           : t \in {<<2, 4>>, <<3, 3>>, <<5, 2>>}}
    \union UNION {[alg : {"extendExtractDigits"}, p : {t[1]}, r : {t[2]}, e : {t[3]}, rounds : 1..2,
                    x : 0..(t[1]^(t[2] + t[3]) - 1)]
                     : t \in {<<2, 3, 2>>, <<3, 2, 1>>, <<3, 3, 1>>, <<5, 2, 1>>}}
Balanced(x, q) == Re!Balanced(x, q)
Held(z, s, q) == Balanced(z[1] + s * z[2], q)
InNoise(c) ==
  LET q == c.p^c.e + 1
      divisible == [i \in 1..2 |-> Re!newMakeDivisible(c.z[i], c.p, c.p^c.ePrime, q, c.coin)]
      n == Held(c.z, c.s, q) + (divisible[1] + c.s * divisible[2] - Held(c.z, c.s, q)) \div q
  IN 2 * n \in (1 - c.p^c.e)..(c.p^c.e - 1)
RecryptCalls ==
  UNION {LET half == t[1]^t[3] \div 2
         IN {c \in [alg : {"thinReCrypt"}, p : {t[1]}, r : {t[2]}, e : {t[3]}, ePrime : {t[4]},
                     z : (-half..half) \X {-half, 2}, s : {-1, 1}, coin : IF t[1] = 2 THEN 0..1 ELSE {0},
                     force : -1..1, rounds : {2}] : InNoise(c)}
           : t \in {<<2, 1, 3, 1>>, <<2, 2, 4, 1>>, <<2, 2, 3, 2>>, <<2, 3, 4, 0>>, <<2, 3, 5, 2>>,
                    <<3, 1, 2, 0>>, <<3, 1, 2, 1>>, <<3, 2, 3, 1>>, <<5, 1, 2, 1>>}}

(***************************************************************************)
(* Additions by one thread, two or three, of the same capacity everywhere  *)
(* or not, with an empty ciphertext, and with the shorter operand last.    *)
(***************************************************************************)
SomeBits(values, capacities) ==
  [k \in DOMAIN values |-> [value |-> values[k], capacity |-> capacities[k]]]
Addition(x, y, limit, nthreads) == [a |-> x, b |-> y, sizeLimit |-> limit, nthreads |-> nthreads]
MCAdditions ==
  LET x == SomeBits(<<3, 5>>, <<300, 300>>)
      y == SomeBits(<<7, 11, 13>>, <<300, 300, 300>>)
      z == SomeBits(<<7, 11, 13, 17>>, <<300, 300, 300, 300>>)
      lower == SomeBits(<<3, 5>>, <<300, 200>>)
      mixed == SomeBits(<<7, -1, 13>>, <<300, 0, 100>>)
      \* For these the parents of a node are both needed no more.
      u == SomeBits(<<5, 7>>, <<400, 600>>)
      v == SomeBits(<<5, 7, 9, 11>>, <<400, 520, 400, 600>>)
      long == SomeBits(<<7, 11, 13, 17, 19>>, <<100, 300, 200, 90, 300>>)
  IN {Addition(x, y, 0, n) : n \in 1..2} \union {Addition(lower, mixed, 3, n) : n \in 1..2}
       \union {Addition(z, x, 4, 1), Addition(long, y, 7, 1), Addition(u, v, 0, 1), Addition(x, x, 0, 2), Addition(y, y, 0, 2), Addition(x, x, 0, 3)}

Calls ==
  ApplyCalls \union TruncatedCalls \union CmodulusCalls \union GeneratorCalls
    \union CyclotomicCalls \union CRTCalls \union InterpolateCalls \union LookupCalls \union BenesCalls
    \union PolyCalls \union DigitCalls \union RecryptCalls
    \union {c \in MatrixCalls : (c.A[1][1] * c.A[2][2] - c.A[1][2] * c.A[2][1]) % c.p # 0}

--------------------------------------------------------------------------------
(***************************************************************************)
(* The answers.                                                            *)
(***************************************************************************)
Called(alg) == call.alg = alg /\ returned = <<>>
Return(answer) == returned' = <<answer>> /\ UNCHANGED call

Apply == Called("apply") /\ Return(Fft!apply(call.x, [i \in 0..(call.n - 1) |-> 0], call.n))

\* The transform, and the inverse of what the transform gives when all inputs are kept.
Truncated ==
  /\ Called("truncated")
  /\ LET tab == Fft!compute_table(4)
         y == Fft!new_fft_short(call.x, call.yn, call.xn, 4, tab)
     IN Return([y |-> y,
                z |-> IF call.xn <= call.yn THEN Fft!new_ifft_short1(y, call.yn, 4, tab) ELSE call.x])

Transform ==
  /\ Called("Cmodulus")
  /\ LET y == Mod!Table(Mod!FFT_aux(call.x, call.m))
     IN Return([y |-> y, x |-> Mod!iFFT(call.stale, y, call.m)])

FindGenerators == Called("findGenerators") /\ call.m % call.p # 0
                    /\ Return(Nt!findGenerators(call.m, call.p, <<>>))
Cyclotomic == Called("Cyclotomic") /\ Return(Nt!Cyclotomic(call.n))
IntVecCRT == Called("intVecCRT") /\ Return(Nt!intVecCRT(call.vp, call.p, call.vq, call.q))
InterpolateMod ==
  Called("interpolateMod") /\ Return(Nt!interpolateMod(call.x, call.y, call.p, call.e))
PrimePowerMatrix ==
  /\ Called("prime_power_matrix")
  /\ Return([inverse |-> Nt!ppInvert(call.A, call.p, call.r),
             solution |-> Nt!ppsolve(call.A, call.b, call.p, call.r)])

Encoded == EA!embedInSlots(call.al, call.v)
Rotate == Called("rotate") /\ Return(EA!rotate(call.al, Encoded, call.k))
Shift == Called("shift") /\ Return(EA!shift(call.al, Encoded, call.k))
Rotate1D == Called("rotate1D") /\ Return(EA!rotate1D(call.al, Encoded, call.dim, call.k))
Shift1D == Called("shift1D") /\ Return(EA!shift1D(call.al, Encoded, call.dim, call.k))
RunningSums == Called("runningSums") /\ Return(EA!runningSums(call.al, Encoded))
TotalSums == Called("totalSums") /\ Return(EA!totalSums(call.al, Encoded))

BenesNetwork == Called("GeneralBenesNetwork") /\ Return(PN!Bn!GeneralBenesNetwork(call.pi))
OptimalBenes == Called("optimalBenes") /\ Return(PN!Bn!optimalBenes(call.n, call.budget, call.good))
BuildNetwork == Called("buildNetwork") /\ Return(PN!buildNetwork(call.pi, call.trees.t, call.rank))
ApplyToCtxt ==
  /\ Called("applyToCtxt")
  /\ Return(PN!applyToCtxt(PN!buildNetwork(call.pi, call.t, CHOOSE r \in Ranks : TRUE), call.al, Encoded))

AddTwoNumbers ==
  Called("addTwoNumbers") /\ Return(Bin!addTwoNumbers(call.x[1], call.x[2], call.limit))
AddManyNumbers == Called("addManyNumbers") /\ Return(Bin!addManyNumbers(call.x, call.limit))
MultTwoNumbers ==
  Called("multTwoNumbers") /\ Return(Bin!multTwoNumbers(call.x[1], call.x[2], call.signed, call.limit))
SubtractBinary == Called("subtractBinary") /\ Return(Bin!subtractBinary(call.x[1], call.x[2]))
CompareTwoNumbers ==
  Called("compareTwoNumbers") /\ Return(Bin!compareTwoNumbers(call.x[1], call.x[2], call.signed))
FifteenOrLess4Four ==
  Called("fifteenOrLess4Four") /\ Return(Bin!fifteenOrLess4Four(call.x, call.limit))
Bitwise ==
  /\ Called("bitwise")
  /\ LET x == call.x[1]
         y == call.x[2]
         both == Bin!splitBinaryNums(Bin!concatBinaryNums(x, y), Len(x))
     IN Return([xor |-> Bin!bitwiseXOR(x, y), or |-> Bin!bitwiseOr(x, y), not |-> Bin!bitwiseNot(x),
                cond |-> Bin!binaryCond(y[1], x, y), shift |-> Bin!leftBitwiseShift(both[2], 1),
                rotated |-> Bin!bitwiseRotate(both[1], -1)])
Products ==
  /\ Called("products")
  /\ call.x # <<>>
  /\ Return([incremental |-> Bin!incrementalProduct(call.x), total |-> Bin!totalProduct(call.x),
             inner |-> Bin!innerProduct(call.x, Tail(call.x))])
\* A table of the index times 3, less 9, in 4 bits with sign.
TableLookup ==
  /\ Called("tableLookup")
  /\ LET table == Bin!buildLookupTable([i \in 0..31 |-> 3 * i - 9], Len(call.x), FALSE, 4, TRUE)
     IN Return([found |-> Bin!tableLookup(SubSeq(table, 1, call.size), call.x),
                written |-> Bin!tableWriteIn([i \in 1..call.size |-> i], call.x)])

PolyEval ==
  /\ Called("polyEval")
  /\ Return(Re!polyEval(Re!Fresh(0, call.q), Poly(call.d, call.s, call.q), Re!Fresh(call.x, call.q), call.k))
PolyEvalEncrypted ==
  /\ Called("polyEvalEncrypted")
  /\ LET coeffs == [i \in 1..(call.d + 1) |-> Re!Fresh(Poly(call.d, call.s, call.q)[i - 1], call.q)]
     IN Return(Re!polyEvalEncrypted(Re!Fresh(0, call.q), coeffs, Re!Fresh(call.x, call.q)))
Power == Called("power") /\ Return(Re!power(Re!Fresh(call.x, call.q), call.e))
ExtractDigits ==
  Called("extractDigits") /\ Return(Re!extractDigits(Re!Fresh(call.x, call.p^call.n), call.r, call.p))
ExtendExtractDigits ==
  /\ Called("extendExtractDigits")
  /\ Return(Re!extendExtractDigits(Re!Fresh(call.x, call.p^(call.r + call.e)), call.r, call.e, call.p, call.rounds))
ThinReCrypt ==
  /\ Called("thinReCrypt")
  /\ Return(Re!thinReCrypt(call.z, call.s, call.p, call.r, call.e, call.ePrime, call.coin, call.force, call.rounds))

AlgorithmNext ==
  \/ Apply \/ Truncated \/ Transform
  \/ FindGenerators \/ Cyclotomic \/ IntVecCRT \/ InterpolateMod \/ PrimePowerMatrix
  \/ Rotate \/ Shift \/ Rotate1D \/ Shift1D \/ RunningSums \/ TotalSums
  \/ BenesNetwork \/ OptimalBenes \/ BuildNetwork \/ ApplyToCtxt
  \/ AddTwoNumbers \/ AddManyNumbers \/ MultTwoNumbers \/ SubtractBinary \/ CompareTwoNumbers
  \/ FifteenOrLess4Four \/ Bitwise \/ Products \/ TableLookup
  \/ PolyEval \/ PolyEvalEncrypted \/ Power \/ ExtractDigits \/ ExtendExtractDigits \/ ThinReCrypt

NoCall == [alg |-> "none"]
NoArithmetic == op = "none" /\ a = 0 /\ b = 0 /\ pi = 1 /\ result = 0
NoAddition ==
  /\ add = <<>> /\ next = <<>> /\ level = <<>> /\ middle = <<>> /\ left = <<>>
  /\ ct = <<>> /\ owner = <<>> /\ cells = <<>> /\ growing = 0
  /\ raced = FALSE /\ sum = <<>> /\ work = <<>> /\ stack = <<>>

MCInit ==
  \/ Init /\ call = NoCall /\ returned = <<>> /\ NoAddition
  \/ DagInit /\ call = [alg |-> "AddDag"] /\ returned = <<>> /\ NoArithmetic
  \/ /\ NoArithmetic /\ NoAddition
     /\ returned = <<>>
     /\ \/ call \in Calls
        \/ \E al \in {EA!PAlgebraMod(c[1], c[2], c[3]) : c \in Algebras} :
             call \in SlotCalls(al) \union PermutationCalls(al)
        \/ \E trees \in {Trees(n) : n \in Networks} :
             trees.t.cost < PN!NTL_MAX_LONG /\ call \in NetworkCalls(trees)

MCNext ==
  \/ (Add \/ Mul) /\ UNCHANGED <<avars, dag_vars>>
  \/ AlgorithmNext /\ UNCHANGED <<vars, dag_vars>>
  \/ call.alg = "AddDag" /\ DagNext /\ UNCHANGED <<vars, avars>>

MCSpec == MCInit /\ [][MCNext]_<<vars, avars, dag_vars>>

--------------------------------------------------------------------------------
Answered(alg) == call.alg = alg /\ returned # <<>>
Answer == returned[1]

(***************************************************************************)
(* The transform of PGFFT.cpp is the discrete Fourier transform: in place  *)
(* with a bit-reverse copy for powers of two, by Bluestein's method with   *)
(* full or truncated transforms for other lengths.  The exponents i*i are  *)
(* reduced, lengths rounded up and outputs folded differently in each      *)
(* (PGFFT.cpp:484-1813).  A transform of one element leaves what it was    *)
(* given, as the constructor chooses no work for it.  Truncation loses     *)
(* nothing that is asked for: the first yn values are those of the whole   *)
(* transform, in bit-reversed order, and the inverse gives 16 times the    *)
(* elements (PGFFT.cpp:1048-1389).                                         *)
(***************************************************************************)
FftIsDft ==
  /\ Answered("apply") /\ call.n > 1 => Answer = Fft!DFT(call.x, call.n)
  /\ Answered("truncated") =>
       /\ \A i \in 0..(call.yn - 1) :
            Answer.y[i] = Fft!DFT(call.x, 16)[Fft!Reversed(i, 4)]
       /\ call.xn <= call.yn =>
            \A i \in 0..(call.xn - 1) : Answer.z[i] = Fft!Times(16, call.x[i])

(***************************************************************************)
(* FFT evaluates a polynomial in the primitive m-th roots of unity, and    *)
(* iFFT gives it back whatever an earlier transform, of this or another    *)
(* prime, has left in the array it works in (CModulus.cpp:586-678,         *)
(* DoubleCRT.cpp:1085,1160).                                               *)
(***************************************************************************)
TransformsInvert ==
  Answered("Cmodulus") =>
    Mod!EvaluatesAtUnits(call.x, Answer.y, call.m) /\ Answer.x = call.x

(***************************************************************************)
(* What a ring is made of.  The generators represent every unit modulo m   *)
(* once as a product of their powers and those of p, which the slots and   *)
(* the hypercube rest on (NumbTh.cpp:263-427).  Cyclotomic computes half   *)
(* of the coefficients as a power series, mirrors and stretches them; the  *)
(* product over the divisors of n is X^n - 1 (NumbTh.cpp:534-660).  What   *)
(* is put together from residues is right modulo the whole: incremental    *)
(* Chinese remaindering keeps the residues modulo p, takes those modulo q  *)
(* and stays within half of p*q around zero, so that a negative            *)
(* coefficient is not turned into a large one (NumbTh.cpp:915); lifting    *)
(* from p to its powers, digit by digit or by squaring, is right modulo    *)
(* the power for interpolation, inverses and linear systems                *)
(* (NumbTh.cpp:1004-1076, 1236-1480).                                      *)
(***************************************************************************)
RingRight ==
  /\ Answered("findGenerators") => Nt!GeneratorsRepresent(call.m, call.p, <<>>)
  /\ Answered("Cyclotomic") => Nt!CyclotomicProduct(call.n)
  /\ Answered("intVecCRT") =>
       \A i \in 1..2 :
         /\ (Answer[i] - call.vp[i]) % call.p = 0
         /\ Answer[i] % call.q = (IF i <= Len(call.vq) THEN call.vq[i] ELSE 0) % call.q
         /\ 2 * call.vp[i] \in -call.p..call.p => 2 * Answer[i] \in -(call.p * call.q)..(call.p * call.q)
  /\ Answered("interpolateMod") =>
       \A j \in 1..Len(call.x) :
         Nt!polyEvalMod(Answer, call.x[j], call.p^call.e) = call.y[j]
  /\ Answered("prime_power_matrix") =>
       /\ Nt!MatTimes(Answer.inverse, call.A, call.p^call.r) = Nt!MatIdentity(2)
       /\ Nt!VecTimes(Answer.solution, call.A, call.p^call.r)
            = [i \in 1..2 |-> call.b[i] % call.p^call.r]

\* The order of a network, its rotations and all ways to do its levels together.
Identity(n) == [i \in 0..(n - 1) |-> i]
SumOf(s) == Nt!FoldLeft(LAMBDA x, y : x + y, 0, s)
Rotations(layers) == SumOf([i \in DOMAIN layers |-> Cardinality(PN!AmountsOf(layers[i]) \ {0})])
Collapses(nlev, budget) ==
  {s \in UNION {[1..l -> 1..nlev] : l \in 1..(IF budget < nlev THEN budget ELSE nlev)} : SumOf(s) = nlev}

(***************************************************************************)
(* Encoding, moving or adding the slots by automorphisms and masks, and    *)
(* decoding gives what the same operation gives on the slots themselves,   *)
(* in Ptxt and in PlaintextArray, for each distance, either direction and  *)
(* a dimension of either kind (EncryptedArray.cpp:66-354,695-1000;         *)
(* Ptxt.cpp:542-799).  A network takes every slot to where the permutation *)
(* wants it, in the cube and in a ciphertext, with no more layers and      *)
(* rotations than were planned, in whatever order the neighbours of a node *)
(* are listed (BenesNetwork.cpp:26-325, matching.cpp:48-330,               *)
(* permutations.cpp:124-360, PermNetwork.cpp:33-259); levels are done      *)
(* together at the least cost (OptimizePermutations.cpp:122-350).          *)
(***************************************************************************)
SlotsMove ==
  LET Decodes(slots) == EA!decodePlaintext(call.al, Answer) = slots
      Agree(slots, others) == Decodes(slots) /\ slots = others
  IN /\ Answered("GeneralBenesNetwork") => PN!Bn!testNetwork(Answer, call.pi)
     /\ Answered("optimalBenes") =>
          LET nlev == 2 * PN!Bn!depth(call.n) - 1
              tab == PN!Bn!buildBenesCostTable(call.n, PN!Bn!depth(call.n), call.good)
              Cost(s) == SumOf([i \in DOMAIN s |-> tab[SumOf(SubSeq(s, 1, i - 1))][s[i] - 1]])
          IN /\ Answer.solution \in Collapses(nlev, call.budget)
             /\ \A s \in Collapses(nlev, call.budget) : Answer.cost <= Cost(s)
             /\ Answer.cost = Cost(Answer.solution)
     /\ Answered("buildNetwork") =>
          /\ PN!applyToCube(Answer, call.trees.orders, Identity(EA!getSize(call.trees.orders))) = call.pi
          /\ Len(Answer) <= call.trees.bound
          /\ Rotations(Answer) <= call.trees.t.cost
     /\ Answered("applyToCtxt") => Decodes(PN!applyPermToVec(call.v, call.pi))
     /\ Answered("rotate") =>
          Agree(EA!PtxtRotate(call.al, call.v, call.k), EA!PaRotate(call.al, call.v, call.k))
     /\ Answered("shift") =>
          Agree(EA!PtxtShift(call.al, call.v, call.k), EA!PaShift(call.al, call.v, call.k))
     /\ Answered("rotate1D") =>
          Agree(EA!PtxtRotate1D(call.al, call.v, call.dim, call.k),
                EA!PaRotate1D(call.al, call.v, call.dim, call.k))
     /\ Answered("shift1D") =>
          Agree(EA!PtxtShift1D(call.al, call.v, call.dim, call.k),
                EA!PaShift1D(call.al, call.v, call.dim, call.k))
     /\ Answered("runningSums") => Decodes(EA!PtxtRunningSums(call.al, call.v))
     /\ Answered("totalSums") => Decodes(EA!PtxtTotalSums(call.al, call.v))

--------------------------------------------------------------------------------
(***************************************************************************)
(* Numbers of bits, as whole numbers.                                      *)
(***************************************************************************)
BitValue(x) == IF x = Bin!Empty THEN 0 ELSE x
NumberOf(v) == Nt!FoldLeft(LAMBDA s, i : s + BitValue(v[i]) * 2^(i - 1), 0, [i \in DOMAIN v |-> i])
SignedNumber(v) == NumberOf(v) - (IF BitValue(v[Len(v)]) = 1 THEN 2^Len(v) ELSE 0)
Numbered(v, signed) == IF signed THEN SignedNumber(v) ELSE NumberOf(v)
TotalOf(ns) == Nt!FoldLeft(LAMBDA s, n : s + n, 0, ns)
Indicator(condition) == IF condition THEN 1 ELSE 0
\* Equal, or modulo the bits that were asked for.
Matches(v, n, limit) == IF limit = 0 THEN NumberOf(v) = n ELSE NumberOf(v) % 2^limit = n % 2^limit

(***************************************************************************)
(* The circuits on encrypted bits compute what their names say on the      *)
(* numbers, for operands of different lengths, with empty ciphertexts and  *)
(* for fewer bits than the result has (binaryArith.cpp:518-1310,           *)
(* binaryCompare.cpp:30-250, tableLookup.cpp:29-260, Ctxt.cpp:2888-2960).  *)
(***************************************************************************)
CircuitsCompute ==
  LET x == NumberOf(call.x[1])
      y == NumberOf(call.x[2])
  IN /\ Answered("addTwoNumbers") => Matches(Answer, x + y, call.limit)
     /\ Answered("addManyNumbers") =>
          Matches(Answer, TotalOf([i \in DOMAIN call.x |-> NumberOf(call.x[i])]), call.limit)
     /\ Answered("multTwoNumbers") => Matches(Answer, x * Numbered(call.x[2], call.signed), Len(Answer))
     /\ Answered("multTwoNumbers") /\ call.limit = 0 => Len(Answer) >= Len(call.x[1]) + Len(call.x[2])
     /\ Answered("subtractBinary") => Matches(Answer, x - y, Len(call.x[1]))
     /\ Answered("compareTwoNumbers") =>
          LET m == Numbered(call.x[1], call.signed)
              n == Numbered(call.x[2], call.signed)
          IN /\ BitValue(Answer.mu) = Indicator(m > n) /\ BitValue(Answer.ni) = Indicator(m < n)
             /\ Numbered(Answer.max, call.signed) = (IF m > n THEN m ELSE n)
             /\ Numbered(Answer.min, call.signed) = (IF m > n THEN n ELSE m)
     /\ Answered("fifteenOrLess4Four") =>
          Matches(Answer, TotalOf([i \in 1..15 |-> BitValue(call.x[i])]), call.limit)
     /\ Answered("bitwise") =>
          LET half == 2^(Len(call.x[1]) - 1)
          IN /\ \A i \in DOMAIN call.x[1] :
                  NumberOf(<<Answer.or[i]>>) + NumberOf(<<Answer.or[i]>>) - NumberOf(<<Answer.xor[i]>>)
                    = NumberOf(<<call.x[1][i]>>) + NumberOf(<<call.x[2][i]>>)
             /\ NumberOf(Answer.not) = 2 * half - 1 - x
             /\ NumberOf(Answer.cond) = (IF BitValue(call.x[2][1]) = 1 THEN x ELSE y)
             /\ NumberOf(Answer.shift) = (2 * y) % (2 * half)
             /\ NumberOf(Answer.rotated) = x \div 2 + (x % 2) * half
     /\ Answered("products") =>
          LET all(n) == Indicator(\A i \in 1..n : call.x[i] = 1)
          IN /\ Answer.incremental = [n \in DOMAIN call.x |-> all(n)]
             /\ Answer.total = all(Len(call.x))
             /\ BitValue(Answer.inner)
                  = TotalOf([i \in 1..(Len(call.x) - 1) |-> call.x[i] * call.x[i + 1]]) % 2
     /\ Answered("tableLookup") =>
          LET index == NumberOf(call.x)
              value == IF 3 * index - 9 > 7 THEN 7 ELSE IF 3 * index - 9 < -8 THEN -8 ELSE 3 * index - 9
          IN /\ Answer.found = (IF index < call.size THEN value % 16 ELSE 0)
             /\ Answer.written = [i \in 1..call.size |-> i + Indicator(index = i - 1)]

(***************************************************************************)
(* The digits of x in base p, around zero for odd p, lowest first.         *)
(***************************************************************************)
Digit(x, p) == IF p = 2 THEN x % 2 ELSE Balanced(x, p)
DigitsOf(x, p, n) ==
  LET rest[j \in 0..n] == IF j = 0 THEN x ELSE (rest[j - 1] - Digit(rest[j - 1], p)) \div p
  IN [j \in 1..n |-> Digit(rest[j - 1], p)]
Holds(c, x, space) == c.ok /\ c.space = space /\ c.x = x % space
DigitsHold(n, spaces) == Len(Answer) = n /\ \A j \in 1..n : Holds(Answer[j], DigitsOf(call.x, call.p, n)[j], spaces[j])

(***************************************************************************)
(* Recryption gives back, modulo p^r, what the ciphertext held, whichever  *)
(* way the digits are extracted and a remainder in the middle is rounded:  *)
(* no assertion fails on the way, each number that is divided by p is a    *)
(* multiple, and the digits are known modulo as many powers of p as what   *)
(* is put together from them needs, also with the digit that is not        *)
(* extracted for p = 2 (recryption.cpp:76-140, 793-910, 1000-1120,         *)
(* extractDigits.cpp:28-310).  Polynomials, with and without a factor      *)
(* modulo p for the leading coefficient, have the value of Horner's rule   *)
(* in the depth of the logarithm of their degree (polyEval.cpp:17-420).    *)
(***************************************************************************)
RecryptionRestores ==
  LET p == call.p
      value == Nt!polyEvalMod(Poly(call.d, call.s, call.q), call.x, call.q)
  IN /\ Answered("polyEval") =>
          /\ Holds(Answer, value, call.q)
          /\ call.k = 0 => 2^Answer.depth < 2 * (call.d + 1)
     /\ Answered("polyEvalEncrypted") => Holds(Answer, value, call.q)
     /\ Answered("power") => Holds(Answer, call.x^call.e, call.q) /\ 2^Answer.depth < 2 * call.e
     /\ Answered("extractDigits") => DigitsHold(call.n, [j \in 1..call.n |-> p^(call.n - j + 1)])
     /\ Answered("extendExtractDigits") =>
          DigitsHold(call.r, [j \in 1..call.r |-> p^(call.r + call.e - j + 1)])
     /\ Answered("thinReCrypt") => Holds(Answer, Held(call.z, call.s, p^call.e + 1), p^call.r)

================================================================================

# Verification of the DPU offloading of HElib, and of the library it offloads

The repository offloads methods of HElib (`src/HElib`, modified) to the DPUs of
a UPMEM machine: the host side is `src/HElib-dpu/src/*.cpp`, the programs that
run on the DPUs are `src/HElib-dpu/src/dpu/*.c`. Every offloaded method has the
same promise: it leaves the data as the CPU method would have left it. What can
break the promise is how the data is cut into pieces and put together again, by
a host that plans, allocates, sends, launches and reads back, and by DPUs whose
tasklets share memory without locks. The first half of the modules is about
this. The second half is about what the CPU methods promise themselves: the
transforms, the representation of ciphertexts, keys, noise and slots of HElib.

## The system

| part | state | operations | interacts with |
|---|---|---|---|
| DPU programs `dpu_add_ctxt.c`, `dpu_mul_ctxt.c` | two rows in MRAM, size, prime; per tasklet a cache in WRAM and a position | main, `ctxt_add`/`ctxt_mul` | tasklets share the row; the host writes before the launch and reads after it |
| modular arithmetic in these programs | none | `AddMod`, `MulMod` | called for every element; inverse and shift come from NTL on the host |
| `dpu_add_ctxt`, `dpu_mul_ctxt` (host) with `DoubleCRT::dpu_Op_AddFun`/`MulFun` | rows of the polynomial, plan, iterators over the DPU set | check of index sets, plan, alloc, four transfer loops, launch, read back | DPU programs; the SDK's transfers |
| bit-reverse copy in `CModulus.cpp`, `dpu_COBRA_1`, `dpu_BasicBitReverseCopy`, `dpu_cobra.c`, `dpu_basic_bit_reverse_copy.c` | thread-local tables of reversed indices, plan, result array | dispatch on the length, build tables, plan, alloc, iterations of send, launch, receive, free | called by the threads of NTL's pool (`DoubleCRT::FFT`); they share the machine's DPUs |
| FFT and IFFT layers in `helib_pgfft_dpu.cpp` and the butterfly programs | arrays of complex numbers, plan, iterators; per tasklet a cache and a position | layers (two versions), butterfly loops, last two and first two layers | `PGFFT.cpp` |
| `PGFFT`, `Cmodulus`, `bluestein` | tables of roots; the array `iFFT` works in, kept by each thread | transforms, inverses, truncated transforms | `DoubleCRT`, embeddings |
| `Context`, `DoubleCRT` | primes and digits; a table of values for each prime | transforms, arithmetic, adding, removing and scaling by primes, digits | everything above |
| keys and key switching | secret keys, matrices, a map of first steps | key generation, matrices by strategy, encryption, decryption | `Ctxt` |
| `Ctxt` | parts, primes, plaintext space, integer factor, noise bound | addition, multiplication, constants, relinearisation, automorphisms, switching of moduli | keys, `DoubleCRT` |
| `PAlgebra`, `EncryptedArray`, `Ptxt` | the hypercube of the slots, masks | encode, decode, rotate, shift, sums | `Ctxt` |
| `NumbTh` | none | factors, generators, cyclotomics, Chinese remaindering, lifting | parameters, `PAlgebra` |
| permutation networks (`permutations`, `PermNetwork`, `matching`, `BenesNetwork`, `OptimizePermutations`) | trees of dimensions, layers of shift amounts | choice of layers, breaking a permutation, application | `EncryptedArray`, `Ctxt` |
| binary circuits (`binaryArith`, `binaryCompare`, `tableLookup`) | a plan of products with locks and a pool of scratch ciphertexts, shared by threads | addition, multiplication, comparison, counting, tables | `Ctxt`, NTL's thread pool |
| `polyEval`, `extractDigits`, `recryption` | tables of powers that are filled when they are asked for | polynomials on a ciphertext, digits in base p, recryption | `Ctxt`, `EncryptedArray` |
| timers | counters in maps | start, stop | measurement only |

With `USE_DPU=1` only COBRA is called by the library itself (`CModulus.cpp:373`);
the other offloaded methods are called by the tests (`test_dpu_*`) and by call
sites that are commented out. `PROJECT.json` lists every component with its
sources, and under `hazards` the lines where the code can go wrong in a way a
test would hardly reach.

What is hard on the DPU side: tasklets that interleave on one row; divisions of
sizes that are not powers of two; loops that address the same data by separate
iterators; more work than DPUs; several threads that allocate from one machine;
counters of 8 bits; 60-bit products on a machine without 128-bit integers.
Nothing is persistent and the SDK's transfers are synchronous, so there is no
recovery and no message to lose: an error of the SDK ends the program
(`DPU_ASSERT`). What is hard in the library: sequences of operations after which
parts, primes, factors and the noise bound of a ciphertext must still fit
together; paths of key switches; automorphisms that move slots of dimensions of
different kinds; lengths that are no powers of two in the transforms;
threads that share ciphertexts which are given away when the last of them has
read them.

What makes a part correct: (1) an offloaded method implements the abstract
`Elementwise`; (2) no two tasklets work on the same elements; (3) the plan covers
all data once and fits the DPUs; (4) transfers in separate loops meet on the
right DPU; (5) DPUs are returned to the machine; (6) every call returns; (7) a
transform is the discrete Fourier transform and its inverse undoes it; (8) a
ciphertext decrypts to what the same operations make of the plaintexts as long
as its noise bound says so, and the bound is one; (9) an operation on the slots
of a ciphertext is the same operation on the slots; (10) a circuit on encrypted
bits computes what its name says on the numbers, also with several threads.

## Modules

| module | models |
|---|---|
| `Elementwise` | the promise: cells go, in any order and grouping, once from their old value to the one the CPU method stores |
| `TaskletShares` | how a row is divided among tasklets and into chunks (operators only) |
| `CtxtKernel` | the tasklets of one DPU that combine two rows; `Leave`, `Enter` (main), `Read` (both `mram_read`), `Write` (computation, `mram_write`, loop) |
| `EqualShares` | lemmas about shares, places and powers of two that all the proofs use |
| `CtxtKernelProofs` | proofs about `CtxtKernel` |
| `SpMulMod`, `SpMulModProofs` | `AddMod`, `MulMod` with the widths of `long` and `unsigned long long` as constants; proofs of what is right with which widths |
| `CtxtOffload`, `CtxtOffloadProofs` | the host methods from the dry-run, context and index-set checks to `dpu_free`, one action per transfer or loop iteration of the plan, with the DPUs as concurrent single steps; proofs about the plan, the transfers and the refinement |
| `BitReversal` | `RevInc` and the tables of `BRC_init`, with the reference definition |
| `CobraOffload` | threads that bit-reverse-copy arrays on the CPU, on one DPU or as COBRA on several DPUs in iterations, sharing a pool of DPUs |
| `CobraOffloadProofs` | proofs about the reversed indices, the plan, the use of the pool and the copy itself |
| `ButterflyShares` | how the butterflies of a layer are divided among tasklets: several to a block, or several blocks to a tasklet |
| `ButterflyKernel` | the tasklets of the multi-tasklet butterfly programs: `Leave`, `Enter`, `Read`, `Write` and the calls of the loop for each block |
| `TwoLayersKernel` | the tasklets of the programs of the last two and the first two layers, and those that go on without a block |
| `FftKernelsProofs` | proofs about `ButterflyKernel` and `TwoLayersKernel`, as `MCFftKernels` runs them |
| `FftLayer`, `FftLayer2` | the two versions of `dpu_new_fft_ifft_layer`: plan, transfers by block, `butterfly0`, launch, read back, iterations |
| `ArrayOffload` | the butterfly-loop and two-layer hosts: arrays cut into portions, a last portion, conversion |
| `FftOffloadProofs` | proofs about the three host modules, as `MCFftOffload` calls them: plan, transfers, refinement |
| `PrimeField` | arithmetic modulo a prime with roots of unity, in place of the complex numbers |
| `Pgfft` | `PGFFT.cpp`: tables, layers, truncated and whole transforms, inverses, both bit-reverse copies, the strategies |
| `Cmodulus` | `FFT`, `iFFT` (with the array that is left over) and Bluestein's method modulo a prime |
| `NumbTh`, `Polynomials` | remainders, generators, cyclotomics, CRT, interpolation, matrices modulo prime powers; polynomials over a ring |
| `PAlgebra` | the hypercube, the factors modulo p^r, masks, encoding and decoding of slots |
| `EncryptedArray` | rotations, shifts and sums by automorphisms and masks; the same on plain slots |
| `Benes` | Benes networks of any size and how their levels are best done together; colouring a bipartite graph by maximum flows |
| `PermNetwork` | permutations of slots: the choice of the layers, a permutation as moves along dimensions, their application to a cube and a ciphertext |
| `AddDag` | `AddDAG`: the plan, one action per product, and the threads that work it off, one action per step under the locks of the nodes |
| `AddDagProofs` | proofs about it |
| `BinaryArith` | the other circuits on encrypted bits, as functions |
| `PolyEval` | polynomials evaluated on a ciphertext: baby and giant steps, Paterson-Stockmeyer, encrypted coefficients, tables of powers |
| `Recryption` | digits in base p, the polynomials that lift digits, the thin digit extraction and recryption for one slot |
| `Context`, `DoubleCRT` | the chain of primes and the choice of sets; the tables and their operations |
| `Keys` | secret keys, encryption, decryption, key-switching matrices, strategies, the map of first steps |
| `Ctxt` | the BGV operations: parts, primes, factors, noise |
| `Library` | an application: keys, two ciphertexts, any sequence of operations, beside the plain calculation |
| `MC*` | values of the constants for TLC; `MCFftKernels` and `MCFftOffload` also put modules together and keep blocks, elements, sizes and butterflies as constants, for their proofs; `MCAlgorithms` calls each algorithm once with every argument of small sets |

Composition: `CtxtOffload` runs a DPU in one step. It may, because
`CtxtKernel` implements `Elementwise` and is the only writer of the row while it
runs (`ImplementsElementwise`, theorem `Implements`); the condition of that
theorem, whole chunks, is tested in `CtxtOffload!KernelResults`, and for other
sizes the step allows every element to be left out or combined twice. In the
same way `FftLayer2` and `ArrayOffload` run `ButterflyKernel` and
`TwoLayersKernel` in one step. What the loops on arrays leave to the kernels, that the
tasklets divide a portion, is tested: `MCFftOffload` gives `ArrayOffload` the elements
of a portion that no tasklet computes and those that two compute (`LoopMissed`,
`LoopRaced`, from `ButterflyShares`), and the step of a DPU leaves the first as they
were and any of the second with an undefined value. `CtxtOffload`, `CobraOffload`, `FftLayer`,
`FftLayer2` and `ArrayOffload` implement `Elementwise` themselves, with the rows,
arrays or layers as cells. `Library` is built from `Ctxt`, `Keys`, `DoubleCRT`,
`Context` and `PAlgebra`; `MCFftKernels` launches `ButterflyKernel` and then
`TwoLayersKernel`; `MCFftOffload` calls the three host modules by turns.

Data: an element in the offload modules is a term that says where it comes from,
so that a wrong partner, factor, prime or position is a different value. In
`CtxtKernel` elements are numbers modulo 5 that are added (theorem `AddModReduces`
says that `AddMod` does so), in `ButterflyKernel` modulo 7. The
transforms of PGFFT compute in the field modulo 20161 = 2^6 * 315 + 1: only
sums, products and roots of unity occur in them, and a field with the same roots
tells a right transform from a wrong one, though not a rounding error. Random
polynomials in `Keys` come from numbers, their seeds. A noise bound is the sum
of absolute values of coefficients, never less than the norm the code estimates,
so that it holds always and not with high probability; logarithms of sizes are
integers that are rounded up for noise and down for what is left. `Decrypt`
reduces on the powerful basis in the code; for the primes and powers of two
that are used as m here this is the basis of the powers of X.

External parts, modelled from their use: an iterator of a DPU set that is moved
past the last DPU stays on it; a transfer leaves out DPUs that were not prepared
and uses the last preparation of a DPU; `dpu_alloc` fails when too few DPUs are
free; NTL's `mulmod_t` holds the normalising shift and the truncated inverse;
NTL's transforms and factorisation are what they compute. A `long` on the DPU is
taken to have 64 bits, as the programs print and size it.

Operators marked as mutants are wrong versions of the definition after them,
each a slip one could make in that line of the code. None of them is used in a
specification; substituted for the definition each one breaks the property
`PROJECT.json` pairs it with, which shows that the property depends on the code.

## Runs

| run | question | bounds |
|---|---|---|
| `ctxt_kernel` | do the tasklets leave the right row, without races? | 4 tasklets, caches of 2 elements, rows of 1 to 16 elements: fewer elements than tasklets, one chunk, two chunks |
| `ctxt_offload` | is a polynomial operation that of `DoubleCRT::Op`? | 5 DPUs (no power of two), 1 to 5 rows, degrees 4 and 8: 4, 2 and 1 slices to a row, some DPUs unused; index sets that do not fit |
| `ctxt_many_rows` | the same with 6 rows: **violated** | 5 DPUs |
| `ctxt_other_degrees` | the same with degree 6: **violated** | 5 DPUs |
| `sp_arith_dpu` | is `MulMod` right with the types of a DPU? **violated** | 9-bit `long` and `unsigned long long` |
| `cobra_offload` | is the array bit-reversed, are DPUs returned, with two threads? | 3 DPUs for each thread, arrays of 8, 32 and 64 elements with q = 2: CPU, one DPU, two blocks on two DPUs, four blocks in two iterations, and the array that does not fit |
| `cobra_all_dpus` | may `NR_DPUS` be all DPUs of the machine? **violated** | 3 DPUs, two threads |
| `fft_kernels` | do the tasklets compute a layer, and the last two, without races? | 4 tasklets; 1 to 8 blocks of 4 to 16 butterflies: blocks shared by tasklets, a block each, two blocks each; factor 1 or not; then fewer blocks than tasklets, one each, several |
| `butterfly_many_blocks` | does a tasklet with many blocks return? **violated** | 1 tasklet, 512 blocks, a `uint8_t` |
| `fft_offload` | is an offloaded layer or loop that of PGFFT? | 4 DPUs of 2 tasklets; layers of 32 and 64 elements: several DPUs to a block, one block each in iterations, several blocks to a DPU; arrays of 4 to 40 elements: one portion, equal portions and a shorter last one |
| `algorithms` | do the sequential algorithms compute what they promise? | transforms of 14 lengths up to 16 and all truncations of 16; 12 values of m; generators for m up to 40; cyclotomics up to 60; eight algebras with none to three dimensions of either kind; `MulMod` with the types of a DPU, scaled to 9 bits; numbers of up to three bits with and without empty ciphertexts, tables of up to 32 entries; all permutations of up to five elements and some of more, in networks for 15 sets of dimensions, good and bad, with three orders of neighbours; additions of 2 to 5 bits with one, two and three threads; polynomials of degree up to 34 modulo 5, 8 and 9, monic or not; all of up to five digits in base 2, four in base 3, three in base 5; recryptions of all phases whose noise fits the exponent chosen |
| `library` | do ciphertexts decrypt right after any sequence of operations? | m = 3, plaintexts modulo 4, two keys; m = 5 modulo 7; m = 8 modulo 3; all strategies of matrices between them; every sequence of three operations (two for m = 8) of 21 |

The bounds reach every branch of the code that is modelled: both outcomes of
every planning loop, one and several chunks, slices and iterations, an early
return, a throw and (in `cobra_all_dpus`) an abort. The division arithmetic does
not change for larger numbers: for the programs with several tasklets and for the
plans and the transfers of all the hosts this is proved. In `library` three operations are enough for a product to be
relinearised, brought to other primes and added to one with another factor; the
chains are so short that they run out of primes, which is the case at their end.

The properties, by run:

* `ctxt_kernel`: `NoRace` (chunks in work are disjoint), `ResultCorrect` (the row
  at the end), `KernelInv` (the inductive invariant), `ImplementsElementwise`,
  `Terminates`.
* `ctxt_offload`: `PlanFits` (more than half of the DPUs and no more than all),
  `PlanInv`, `TransfersMeet` (at the launch every slice is on exactly one DPU
  with the right partner, prime and size), `ImplementsOp`, `Completes`.
* `cobra_offload`: `EvenPlan` (DPUs times iterations are the blocks),
  `PoolConserved` (no DPU is lost, also after a throw), `NoAbort` (with `NR_DPUS`
  for every thread no allocation fails), `ImplementsCopy`, `AllCopied`.
* `fft_kernels`: `NoRace`, `KernelInv` (inductive), `ImplementsElementwise`;
  `OwnBlocks` and `BlocksComputed` (tasklets without a block compute behind the
  blocks, and the blocks of the DPU are computed once all the same),
  `BothTerminate`.
* `fft_offload`: `PlansCover` (every block or element once, in numbers that the tasklets
  divide), `TransfersMeet` (block, factors and `butterfly0` on
  each DPU at a launch), `ImplementsMethod`, `Completes`.
* `algorithms`: `ModularWithinWidth` (with the types of a DPU: every sum, and every
  product that loses no bit); `FftIsDft` (also Bluestein and truncated transforms),
  `TransformsInvert` (modulo a prime, whatever the array held before), `RingRight`
  (generators, cyclotomic polynomials, Chinese remaindering and lifting to prime
  powers); `SlotsMove` (moving encoded slots is moving the
  slots; a permutation network permutes them so, within the layers and rotations that
  were planned); `CircuitsCompute`; `AdditionRight` (no two nodes of an addition share a
  ciphertext, and the sum is right), `AdditionProceeds` (threads never all wait);
  `RecryptionRestores` (a polynomial on a ciphertext is the polynomial, digits are
  those of the number, and a recryption returns the plaintext it was given).
* `library`: `DecryptsRight` (a ciphertext whose bound is small enough decrypts to
  the plain calculation), `NoiseBounded` (what it decrypts to before the last
  reduction is within the bound), `PartsAgree` (parts, primes, factor),
  `MatricesSwitch` (every column of a matrix encrypts the secret it switches from, with
  an error of at most the plaintext space times phi(m); the bound the matrix keeps is
  its last column's only, `keys.cpp:1235`),
  `NextMatrixLeads` (an automorphism is made of matrices where that is possible,
  in the fewest steps), `Relinearized` (the operations that switch keys leave the
  parts of one secret, and `cleanUp` leaves no small primes).

Fairness: weak fairness of every tasklet (the DPU's pipeline issues them in
turn), of the host thread or each pool thread (the operating system schedules
them), and of launched DPUs (the SDK's synchronous launch waits for them). No
action is ever disabled by another actor for good except by an abort, so weak
fairness is enough. `algorithms` and `library` are sequential and state no
fairness; a sequence of operations may end at any time.

### What the violations show

* `ctxt_many_rows`: the plan counts iterations that are never run
  (`helib_double_crt_dpu.cpp:84`, a TODO), so the method is no copy of
  `DoubleCRT::Op` for more rows than DPUs.
* `ctxt_other_degrees`: `per_dpu_size` is rounded down and `last_dpu_size` is
  never used, so the end of a row stays as it was when the degree is no multiple
  of the slices. With more slices than elements the method divides by zero. The
  tests use CKKS, whose degrees are powers of two.
* `sp_arith_dpu`: `MulMod` is NTL's only if `unsigned long long` is twice as wide
  as `long`.
* `cobra_all_dpus`: `NR_DPUS` is a bound for one call, not for the program.
* `butterfly_many_blocks`: the tasklet's counter of blocks is a `uint8_t` and
  never reaches 256, so the launch does not return.

### Known limits of the code

These were met while modelling; they are in the models as the code has them, or
their case is left out of the arguments, and no run is spent on them.

* `dpu_new_fft_ifft_layer` and `_2` drop a remainder when `NR_DPUS` is no power of
  two (`helib_pgfft_dpu.cpp:322,488`). A share of butterflies that is no multiple
  of four overlaps the next one (`dpu_multi_fwd_butterfly_loop.c:72`), and the host
  does not ask for others: with one DPU of 2 tasklets and 12 elements the shares are 6,
  with 4 such DPUs and 44 elements the last portion is 12. A comment of the test says
  the size "needs to be a multiple of 4" (`test_dpu_fwd_butterfly_loop.cpp:9`) and its
  size is 2048; the truncated transforms of `PGFFT.cpp` (lines 1110, 1317, 1386) have
  other multiples of 16, but their calls of the DPUs are commented out. In
  `fft_offload` the size 44 violates `PlansCover`, so its sizes leave such out. For a
  polynomial without a prime the doubling loop of `helib_double_crt_dpu.cpp:54`
  does not end; `dpu_mul` sends its operand again instead of reading the product
  (`helib_pgfft_dpu.cpp:110`); `wtab`, of half a block, is converted with the
  length of the block (`helib_pgfft_dpu.cpp:508`).
* `HyperCube::shift1D` (`hypercube.cpp:67`) works in place and overwrites elements
  it still has to read; a shift by exactly the size changes nothing, where
  `hypercube.h:320` says zeros are shifted in.
* `mcDiv` (`NumbTh.cpp`) adds one where the floor is one less (`mcDiv(-3, 2)` is
  0); nothing calls it. `PolyRed` and `vecRed` subtract q from coefficients of q / 2
  and more: for q = 3 a coefficient 1 becomes -2, outside the interval that
  `NumbTh.h:304` states.
* Where an edge of the flow graph is removed, the edge back is erased with the
  position in a list in place of the node (`matching.cpp:115`); the edges back carry
  no flow and are inserted again, so nothing comes of it.
* The functions that add matrices for a key other than 0 update the map of key 0
  (`keySwitching.cpp:318`).
* `AddDAG` grows the vector of scratch ciphertexts under a lock that those who
  search it do not take (`binaryArith.cpp:429,440,451`). `AddDag` follows an addition
  up to such a read of storage that is given back and stops there (`raced`).
  `fifteen4Four` runs two additions in parallel of which one writes `d3`, an alias
  of `b9`, which the other reads (`binaryArith.cpp:1233,1277,1283`).
* `polyEval` with an explicit number k of baby steps fails an assertion for a degree
  between k and 2k (`polyEval.cpp:234`, one giant step too few), and throws for a
  degree of at most k; the default k = 0 always works. The arguments have k = 0
  or a degree of at least 2k.
* The digits that `extractDigits` returns for fewer than all digits have a larger
  plaintext space than its comment says (`extractDigits.cpp:58`): the space
  belongs to all the digits, and the value is right only modulo the smaller one.
  `RecryptionRestores` is about all the digits and does not vouch for fewer.
* `multTwoNumbers` with an operand of one bit multiplies behind the end of the
  product (`binaryArith.cpp:1057`), or multiplies `lhs` in place of the product
  (`binaryArith.cpp:1074`). `compareTwoNumbers` compares the shorter number with the
  longer one, so that for a longer first number `mu` and `ni` are exchanged
  against what `binaryCompare.h` says; with an empty one `ni` is 1 also when both
  are 0.

## Proofs

`CtxtKernelProofs` (for any number of tasklets, cache size, rows and element
function): `Invariance` proves the inductive invariant `KernelInv`. The type
invariant and the disjointness of chunks are not inductive: a tasklet between
read and write must be known to be at a multiple of the chunk in its own share
(`PositionInv`), its cache to hold what the row still holds (`CacheInv`), and
its share to be combined before that place and untouched after it (`ShareInv`).
Only the writing tasklet changes the row, inside its share, and the shares are
disjoint (lemma `SharesDisjoint`, from `EqualShares`), so the others keep their
conjuncts. `TypeCorrect`, `RaceFree`, `Correct` and `Implements` follow: in the
last one a write is a `Replace`, any other step a stutter. Assumption:
`WholeSizes`, that the tasklets divide the row equally into whole chunks. The
code does not check it; it holds when the size, the tasklets and the cache are
powers of two, which TLC evaluates for the run's sizes.

`FftKernelsProofs`, butterflies (for any number of tasklets, launch, content of the
buffers and butterfly), follows the same argument with one loop more: a tasklet
is at some block (`PositionInv`), its cache holds the pairs and factors it read
and nobody else can have changed (`CacheInv`), its share is made up to there and
untouched from there (`ShareInv`), and what belongs to no share stays
(`RestInv`). `Invariance`, `RaceFree`, `Correct` and `Implements` are proved under
`WholeLaunches`: every launch consists of whole shares (a multiple of four
butterflies for each tasklet) and of fewer blocks for a tasklet than a `uint8_t`
counts. Without the second part `butterfly_many_blocks` shows the loop does not
end; the first part holds for the powers of two the transforms use, which TLC
evaluates for the run's launches (`MCWholeShares`).

`CtxtOffloadProofs`, the plan: `PlanInvariance` proves `PlanInv` for any number of
rows and DPUs, and `PlanAlwaysFits` concludes `PlanFits`. Each planning loop
doubles only while the double is allowed, so its bound holds after it, no number
wraps at 2^32, and the negated guard of the second loop is the lower bound.
Assumption: `SomePrimes`, that a polynomial has a prime; without it the loop never
ends.

`CtxtOffloadProofs`, the data: `TransfersAlwaysMeet` and `OffloadImplementsOp` prove
`TransfersMeet` and the refinement of `Elementwise` with the inductive invariant
`OffloadInv`: `PlanInv`, that there is one iteration (`OneIteration`), and `DataInv`.
The four transfer loops move over the primes and the DPUs separately; what keeps
them together is that an iterator over the DPUs stands at the number of primes it has
passed times `per_loop_dpus` (`Iterators`), which is where the current prime has
its first slice (`Places`). So `DataInv` can say of every transfer what the primes
already passed have left behind, and of the DPUs that have finished that they
hold the result. Assumptions: `FewRows`, no polynomial has more rows than there are
DPUs (otherwise `ctxt_many_rows` shows the violation), and `WholeSlices`, a row is
divided without remainder into slices the DPU programs can work on (otherwise
`ctxt_other_degrees`). The constants of `ctxt_offload` satisfy both; TLC does not
evaluate them, because the powers of two they speak of are those of all numbers.

`CobraOffloadProofs` (any number of threads and DPUs, arrays of any length):
`PlansEven`, `PoolAlwaysConserved` and `NeverAborts` prove the safety invariants of
the bit-reverse copy from `Inv`. Its part `PlanOf` says for each statement of the
plan which power of two is left of the blocks, `IterationOf` that an iteration is
begun only as long as some are left, `HoldsOf` that a thread holds its DPUs exactly
from `dpu_alloc` to `dpu_free`, and the last conjunct that free and allocated DPUs
are together those of the machine. That no allocation fails is then a sum: each of
the other threads holds at most `NR_DPUS`. There is no assumption but those of
the module (`CobraAssumption`, which the run evaluates); `NeverAborts` is about
machines with `NR_DPUS` for every thread, as `NoAbort` states, since for others
`cobra_all_dpus` shows the violation. One of the module's assumptions is that the
lengths in use are finitely many, as the code's table of tables has
`NTL_FFTMaxRoot + 1` entries (`CModulus.cpp:264-271`).

The same module proves what is copied. `TablesReverse` says that the tables of
`BRC_init`, which counts with `RevInc`, hold the reversed indices of any width: the
lowest bit of a number is the highest of its reversal, where `RevInc` either sets a
bit (`RevIncSets`) or clears it and goes on with the bits below (`RevIncCarries`).
`Concatenated` is the lemma behind COBRA: two pieces of a number change places when
it is reversed, so an index of three parts is reversed by reversing each part
(`ThreeParts`), of which the DPU does the lower one and the transposition
(`CobraElement`) and the host the upper and the middle one (`BlockReversed`). The
invariant of the data, `DataInv`, says for each thread which tables it has
(`TablesHeld`), what a DPU holds before and after it has run (`MemoryOf`), and that B
has the elements of exactly the blocks the iterations so far have brought
(`ResultOf`). `CopyImplemented` is the refinement `ImplementsCopy`: a cell of B goes
once from what it was to the element of A with the reversed index, for any lengths,
threads, DPUs and iterations; `CopiesWhole` says that a call that returns normally has
left none out. Both need `Inv`: that no block is copied twice or forgotten is the even
plan.

`FftKernelsProofs`, two layers (any content of the blocks, any computation, any number of
tasklets that is a power of two up to 256): `BlocksOwned` and `BlocksAllComputed`
prove `OwnBlocks` and `BlocksComputed` of the two-layer programs with the inductive
invariant `TwoInv`, which has the parts of the kernel invariants above: where a
tasklet is, what its cache holds, which of its blocks are computed, and that the
others are as they were. All `NR_TASKLETS` tasklets take part, though the division is
made for `nr_tasklets` of them. What carries the proof is therefore that the shares
of all of them cover the blocks and stay within the buffer (`BlockDivision`), under
the assumption `WholeBlocks`: at least as many blocks in the buffer as tasklets, and
blocks that are fewer than the tasklets or a multiple of them. TLC evaluates it for
the run (`MCTwoLayers`).

`FftOffloadProofs` (any number of DPUs, layers of any size, any elements and
butterflies): `PlansAlwaysCover`, `TransfersAlwaysMeet` and `MethodsImplementPgfft`
prove the two safety invariants and the refinement of `fft_offload`. `MethodInv` has
for each of the three hosts what its plan is at the statement it is at
(`LayerPlan`, `Layer2Plan`, `LoopPlan`) and what the caller's array, the converted
copy and the memory of each DPU hold (`LayerData`, `Layer2Data`, `LoopData`). The
host finds a place by counting along an array and along the DPUs; the DPU's
share follows from its number by division. The geometry lemmas show that the two
agree, and that the pieces read back in any number of iterations are put together
to the whole layer. `KernelShares` shows that what
`FftLayer2` sends to a DPU are whole shares for its tasklets, which is what
the butterfly kernel needs, so that the DPU may compute in one step. For the loops on
arrays `LoopDivides` shows the same of every portion: none of its elements is left out
and none computed by two tasklets. There are two assumptions. `PowersOfTwo`: DPUs,
tasklets, and the blocks and sizes of layers are powers of two; with another number of
DPUs a layer drops a remainder. `WholePortions`: the length of an array is a power of
two, or a multiple of four times the tasklets, so that the shorter portion of the last
DPU is one too (`WholeRemainder`). Without it the shares of tasklets overlap; both cases
are among the limits above. The constants of the run satisfy both, by their values;
TLC does not evaluate them, because the powers of two are those of all numbers. The
programs of the two layers divide their blocks as `TwoLayersKernel` says, which
`WholeBlocks` and `BlocksAllComputed` are about.

`SpMulModProofs` (any widths, any modulus the widths admit, all residues):
`AddModReduces`, that `AddMod` is addition modulo n and stays reduced, which discharges
`FunAssumption` of the kernel for `dpu_add_ctxt.c`. For `MulMod`, `WidthDecides` says
when it multiplies all residues right: if `unsigned long long` is twice as wide as
`long`, as NTL's code takes for granted, and not if it is only as wide, as on a DPU,
for any modulus from 4 on. One direction (`MulModMultiplies`) is Barrett's argument: with the
modulus shifted to full width the truncated inverse makes the estimated quotient the
right one or one less (`Estimate`), no product leaves the double width (`Fits`), so the
remainder is below twice the modulus and one correction is enough. In the other direction
the shift by all bits of the type is undefined, and where it leaves nothing three times
the greatest residue comes out as 2n - 3 (`CutProduct`). `AlwaysWithinWidth` is the invariant `ModularWithinWidth` for both widths, those
of a DPU included: every sum is right, and every product that keeps its bits. With
the wider type these are all products; with the types of a DPU they are those
so small that the quotient is estimated as 0 (`SmallProduct`), and `sp_arith_dpu` shows what
comes of the others.

`AddDagProofs` (operands of any length and capacity, any number of threads, any limit of
the result, any ring in place of the bits): `AddsRight` and `AddsOn` prove `AdditionRight`
and `AdditionProceeds` of `DagSpec`, and `MCAlgorithms` runs the same module. The inductive
invariant `IInv` speaks of the two phases. While `init` plans (`Planned`, `CountsUsers`),
the nodes that are made are those before `next` in the order of its loops, each is divided
within its interval, whatever the capacities make `Middle` choose, and `childrenLeft` counts
at least its users. While the threads run (`Run`):

* the calls of a thread are nested, each for a parent of the one outside (`Nested`), and a
  node is locked exactly by the thread one of whose calls holds it (`Locked`). A call for a
  node works on shorter intervals inside that node's, which keeps the locks that the calls
  outside hold from those that the calls inside take (`OuterApart`);
* a ciphertext is where a call relies on it (`Staged`), no two nodes have one cell
  (`CellsApart`), a cell that a thread has taken is nobody's (`Filling`), and a
  ciphertext decrypts to what the comment says its node means (`Contents`). That a
  product of two parents means its node is the recursion `MeaningSplits`;
* those that are still to read a node, its children without ciphertext that are needed
  themselves and the addition to the sum, are no more than `childrenLeft` (`Counted`).
  This is what makes the reuse of a parent's ciphertext right: at 0 there is no reader,
  and a node that has been asked for has one (`Wanted`);
* each bit of the sum has been added up to the place where its thread is (`Summed`).

From `Locked` follows `AddsOn`: a thread that waits for a node waits for one held by a
thread whose own call is for a node with a higher lower end, or the same one and a lower
upper end (`WaitsAhead`), so the wait has no circle. The only assumption is the module's
own (`DagAssumption`), which the run evaluates. `Contents`, `Summed` and the others hold until
a thread looks at the cells while another one moves them (`raced`), after which the code
promises nothing. `AloneNeverRaces` shows that with one thread this does not happen.

Only model-checked: liveness (`Terminates`, `BothTerminate`, `Completes`,
`AllCopied`), which the prover cannot do under fairness; the
transforms, `NumbTh`, `PermNetwork` and the library, which are recursive or whose
invariants are about sums over data.

## Not modelled

Floating-point accuracy and the CKKS scheme, whose correctness is a bound on
rounding; the SDK itself; stack sizes and DMA limits of the DPU; timers, logging,
serialisation and the two vendored copies of `json.hpp`; NTL; random sampling
and the choice of parameters from a security level; the algorithms above
ciphertexts that work on many slots at once (linear maps, replication, products
of matrices), and with them the part of a recryption that moves coefficients to
slots and back;
`dpu_COBRA_2`, which its comment says does not work;
`dpu_toPoly` and `dpu_addCtxt`, which are stubs; `dpu_mul`, which nothing calls.

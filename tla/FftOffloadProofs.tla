---------------------------- MODULE FftOffloadProofs ----------------------------
(***************************************************************************)
(* Proofs about the offloaded parts of a transform, for numbers of DPUs,   *)
(* tasklets, blocks and elements that are powers of two (PowersOfTwo), for *)
(* arrays that the tasklets can divide (WholePortions), and for any        *)
(* elements and butterflies.  The inductive invariant of each method has   *)
(* two parts: what its plan is at the statement it is at (LayerPlan,       *)
(* Layer2Plan, LoopPlan), and what the caller's array, the converted copy  *)
(* and the memory of every DPU hold (LayerData, Layer2Data, LoopData),     *)
(* that is how far the transfers have come, which DPUs have computed, and  *)
(* what has been read back.  A DPU's share of a block is found from its    *)
(* number by division, the host's by counting along; the geometry lemmas   *)
(* show that these are the same place.                                     *)
(***************************************************************************)
EXTENDS MCFftOffload, EqualShares

--------------------------------------------------------------------------------
(***************************************************************************)
(* A layer, in several iterations on the single-tasklet programs           *)
(* (FftLayer).                                                             *)
(***************************************************************************)

(***************************************************************************)
(* What the methods of the layers rely on without a check: the numbers of  *)
(* DPUs and tasklets, and of the blocks and of the elements of a block,    *)
(* are powers of two.                                                      *)
(***************************************************************************)
PowersOfTwo ==
  /\ NR_DPUS \in Powers /\ NR_TASKLETS \in {2^e : e \in 0..8}
  /\ \A l \in Layers : l[1] \in Powers /\ l[2] \in Powers

\* The arguments of a layer.
LayerCall == blocks \in Powers /\ size \in Powers /\ size >= 8

\* A layer's blocks and its size are positive, and its size is twice a power of two.
LEMMA LayerShape ==
  ASSUME LayerCall
  PROVE  /\ blocks \in Nat \ {0} /\ size \in Nat \ {0}
         /\ Layer!half \in Powers /\ Layer!half \in Nat \ {0} /\ Layer!half >= 4
         /\ size = 2 * Layer!half
<1>1. blocks \in Nat \ {0} /\ size \in Nat \ {0}
  BY PowersAre DEF LayerCall
<1>2. Layer!half \in Powers /\ size = 2 * Layer!half
  BY PowersHalve DEF LayerCall, Layer!half
<1>3. Layer!half \in Nat \ {0}
  BY <1>2, PowersAre
<1>4. QED BY <1>1, <1>2, <1>3 DEF LayerCall

\* The layers of the constants are such calls.
LEMMA LayerArguments ==
  ASSUME PowersOfTwo, NEW l \in Layers, blocks = l[1], size = l[2]
  PROVE  LayerCall
<1>1. l \in (Nat \ {0}) \X (Nat \ {0}) /\ l[2] % 8 = 0
  BY MCConstants DEF Layer!LayersConstants
<1>2. l[2] >= 8
  BY <1>1
<1>3. QED BY <1>2 DEF PowersOfTwo, LayerCall

\* Both versions of the method stand for the same part of PGFFT.cpp.
LEMMA SameLayer ==
  /\ Layer2!half = Layer!half /\ Layer2!Elements = Layer!Elements
  /\ \A e : Layer2!NewElement(e) = Layer!NewElement(e)
  /\ Layer2!NewXp = Layer!NewXp
BY DEF Layer!half, Layer2!half, Layer!Elements, Layer2!Elements, Layer!NewElement, Layer2!NewElement,
       Layer!NewXp, Layer2!NewXp

\* What becomes of butterfly number r of the block that begins at b.
Butterfly(b, r) ==
  IF r = 0 THEN Bf0(Given(b + r), Given(b + r + Layer!half))
  ELSE Bf(Given(b + r), Given(b + r + Layer!half), Factor(r))

\* What a layer makes of the two elements of one butterfly.
LEMMA LayerNew ==
  ASSUME LayerCall, NEW m \in Nat, NEW r \in 0..(Layer!half - 1)
  PROVE  /\ Layer!NewElement(m * size + r) = Butterfly(m * size, r)[1]
         /\ Layer!NewElement(m * size + Layer!half + r) = Butterfly(m * size, r)[2]
<1> DEFINE h == Layer!half
           b == m * size
<1>1. size \in Nat \ {0} /\ h \in Nat \ {0} /\ size = 2 * h /\ r \in Nat /\ b \in Nat
  BY LayerShape
<1>2. b + r = size * m + r /\ b + h + r = size * m + (h + r)
  BY <1>1
<1>3. b + r = h * (2 * m) + r /\ b + h + r = h * (2 * m + 1) + r
  BY <1>1
<1> HIDE DEF h, b
<1>4. (b + r) % size = r /\ (b + h + r) % size = h + r
  <2>1. r \in 0..(size - 1) /\ h + r \in 0..(size - 1)
    BY <1>1 DEF h
  <2>2. (size * m + r) % size = r
    BY <1>1, <2>1, PlaceInShare
  <2>3. (size * m + (h + r)) % size = h + r
    BY <1>1, <2>1, PlaceInShare
  <2>4. QED BY <1>2, <2>2, <2>3
<1>5. (b + r) % h = r /\ (b + h + r) % h = r
  <2>1. 2 * m \in Nat /\ 2 * m + 1 \in Nat /\ r \in 0..(h - 1)
    BY DEF h
  <2>2. (h * (2 * m) + r) % h = r
    BY <1>1, <2>1, PlaceInShare
  <2>3. (h * (2 * m + 1) + r) % h = r
    BY <1>1, <2>1, PlaceInShare
  <2>4. QED BY <1>3, <2>2, <2>3
<1>6. Layer!NewElement(b + r) = Butterfly(b, r)[1]
  <2>1. (b + r) - ((b + r) % size) + ((b + r) % h) = b + r
    BY <1>1, <1>4, <1>5
  <2>2. QED BY <1>5, <2>1 DEF Layer!NewElement, Butterfly, h
<1>7. Layer!NewElement(b + h + r) = Butterfly(b, r)[2]
  <2>1. (b + h + r) - ((b + h + r) % size) + ((b + h + r) % h) = b + r /\ b + h + r # b + r
    BY <1>1, <1>4, <1>5
  <2>2. QED BY <1>5, <2>1 DEF Layer!NewElement, Butterfly, h
<1>8. QED BY <1>6, <1>7 DEF h, b

(***************************************************************************)
(* The plan: as long as it is made its numbers are powers of two, so that  *)
(* the divisions leave no remainder.                                       *)
(***************************************************************************)
LayerStart == \E s \in Nat : start = s * size /\ s + nr_iterations * per_iteration_blocks = blocks

LayerPlan ==
  /\ LayerCall
  /\ nr_iterations \in Nat
  /\ pc \in {"plan_iterations", "plan_dpus", "alloc"} => start = 0
  /\ IF pc = "plan_iterations"
     THEN nr_iterations \in Powers /\ nr_iterations <= blocks
     ELSE /\ per_iteration_blocks \in Powers /\ per_block_dpus \in Powers
          /\ Layer!nr_dpus <= NR_DPUS
          /\ LayerStart
  /\ pc \notin {"convert", "done"} => nr_iterations > 0
  /\ pc \notin {"plan_iterations", "plan_dpus"} =>
       Layer!per_dpu_size >= 4 /\ per_block_dpus * Layer!per_dpu_size = Layer!half

\* While the call and the plan stay as they are, so does all that is computed from them.
LEMMA LayerFrame ==
  ASSUME UNCHANGED <<blocks, size, per_iteration_blocks, per_block_dpus>>
  PROVE  /\ Layer!half' = Layer!half /\ Layer!nr_dpus' = Layer!nr_dpus
         /\ Layer!per_dpu_size' = Layer!per_dpu_size /\ Layer!Dpus' = Layer!Dpus
         /\ Layer!Elements' = Layer!Elements
         /\ \A e : Layer!NewElement(e)' = Layer!NewElement(e)
         /\ (LayerCall' <=> LayerCall)
<1>1. Layer!half' = Layer!half /\ Layer!nr_dpus' = Layer!nr_dpus /\ Layer!Elements' = Layer!Elements
  BY DEF Layer!half, Layer!nr_dpus, Layer!Elements
<1>2. Layer!per_dpu_size' = Layer!per_dpu_size /\ Layer!Dpus' = Layer!Dpus
  BY <1>1 DEF Layer!per_dpu_size, Layer!Dpus
<1>3. \A e : Layer!NewElement(e)' = Layer!NewElement(e)
  BY <1>1 DEF Layer!NewElement
<1>4. LayerCall' <=> LayerCall
  BY DEF LayerCall
<1>5. QED BY <1>1, <1>2, <1>3, <1>4

\* The choice of the blocks of an iteration divides the blocks of the call.
LEMMA LayerPlanIterations ==
  ASSUME PowersOfTwo, LayerPlan, Layer!PlanIterations PROVE LayerPlan'
<1>1. /\ pc = "plan_iterations" /\ UNCHANGED <<blocks, size, start>> /\ LayerCall
      /\ nr_iterations \in Powers /\ nr_iterations <= blocks /\ start = 0
      /\ blocks \in Powers /\ NR_DPUS \in Powers
  BY DEF LayerPlan, LayerCall, PowersOfTwo, Layer!PlanIterations, Layer!call
<1>2. /\ LayerCall' /\ nr_iterations \in Nat \ {0} /\ blocks \in Nat \ {0} /\ NR_DPUS \in Nat \ {0}
      /\ size \in Nat
  BY <1>1, PowersAre DEF LayerCall
<1> DEFINE k == blocks \div nr_iterations
<1>3. k \in Powers /\ blocks = nr_iterations * k
  BY <1>1, PowersDivide
<1>4. k \in Nat \ {0}
  BY <1>3, PowersAre
<1>5. CASE k > NR_DPUS
  <2>1. nr_iterations' = 2 * nr_iterations /\ pc' = "plan_iterations"
    BY <1>1, <1>5 DEF Layer!PlanIterations
  <2> HIDE DEF k
  <2>2. k >= 2
    BY <1>2, <1>4, <1>5
  <2>3. nr_iterations * k = 2 * nr_iterations + nr_iterations * (k - 2) /\ nr_iterations * (k - 2) >= 0
    BY <1>2, <1>4, <2>2
  <2> DEFINE x == nr_iterations * (k - 2)
  <2>4. nr_iterations' <= blocks
    <3>1. blocks = 2 * nr_iterations + x /\ x >= 0 /\ x \in Int
      BY <1>2, <1>3, <1>4, <2>3
    <3> HIDE DEF x
    <3>2. QED BY <1>2, <2>1, <3>1
  <2>5. nr_iterations' \in Powers /\ nr_iterations' \in Nat /\ nr_iterations' > 0
    BY <1>1, <1>2, <2>1, PowersAre
  <2>6. QED BY <1>1, <1>2, <2>1, <2>4, <2>5 DEF LayerPlan
<1>6. CASE ~(k > NR_DPUS)
  <2>1. /\ nr_iterations' = nr_iterations /\ pc' = "plan_dpus"
        /\ per_iteration_blocks' = k /\ per_block_dpus' = NR_DPUS \div k
    BY <1>1, <1>6 DEF Layer!PlanIterations
  <2> HIDE DEF k
  <2>2. k <= NR_DPUS
    BY <1>2, <1>4, <1>6
  <2>3. NR_DPUS \div k \in Powers /\ NR_DPUS = k * (NR_DPUS \div k)
    BY <1>1, <1>3, <2>2, PowersDivide
  <2> DEFINE m == NR_DPUS \div k
  <2>4. m \in Nat /\ m * k = NR_DPUS
    <3>1. m \in Nat
      BY <2>3, PowersAre
    <3> HIDE DEF m
    <3>2. m * k = k * m
      BY <1>4, <3>1
    <3>3. QED BY <3>1, <3>2, <2>3 DEF m
  <2>5. Layer!nr_dpus' <= NR_DPUS
    BY <1>2, <2>1, <2>4 DEF Layer!nr_dpus
  <2>6. LayerStart'
    <3>1. start' = 0 * size' /\ 0 + nr_iterations' * per_iteration_blocks' = blocks'
      BY <1>1, <1>2, <1>3, <1>4, <2>1
    <3>2. QED BY <3>1 DEF LayerStart
  <2>7. QED BY <1>1, <1>2, <1>3, <2>1, <2>3, <2>5, <2>6 DEF LayerPlan
<1>7. QED BY <1>5, <1>6

\* The choice of the DPUs of a block divides its butterflies.
LEMMA LayerPlanDpus ==
  ASSUME PowersOfTwo, LayerPlan, Layer!PlanDpus PROVE LayerPlan'
<1> DEFINE h == Layer!half
           p == per_block_dpus
           k == per_iteration_blocks
<1>1. /\ pc = "plan_dpus" /\ UNCHANGED <<blocks, size, nr_iterations, per_iteration_blocks, start>>
      /\ LayerCall /\ k \in Powers /\ p \in Powers /\ p * k <= NR_DPUS /\ LayerStart
      /\ nr_iterations \in Nat /\ nr_iterations > 0 /\ start = 0
  BY DEF LayerPlan, Layer!nr_dpus, Layer!PlanDpus, Layer!call
<1>2. /\ h \in Powers /\ h \in Nat /\ h >= 4 /\ k \in Nat \ {0} /\ p \in Nat \ {0}
      /\ NR_DPUS \in Nat
  BY <1>1, LayerShape, PowersAre DEF PowersOfTwo
<1>3. LayerCall' /\ LayerStart' /\ Layer!half' = h
  BY <1>1 DEF LayerCall, LayerStart, Layer!half
<1>4. CASE h \div p < 4
  <2>1. p' = p \div 2 /\ pc' = "plan_dpus"
    BY <1>1, <1>4 DEF Layer!PlanDpus
  <2> HIDE DEF h
  <2>2. p # 1
    <3>1. h \div 1 = h
      BY <1>2
    <3>2. QED BY <1>2, <1>4, <3>1
  <2>3. p \div 2 \in Powers /\ p = 2 * (p \div 2)
    BY <1>1, <2>2, PowersHalve
  <2> DEFINE m == p \div 2
  <2>4. m * k <= NR_DPUS
    <3>1. m \in Nat /\ p = 2 * m /\ p * k <= NR_DPUS
      BY <1>1, <2>3, PowersAre
    <3> HIDE DEF m
    <3>2. (2 * m) * k = m * k + m * k /\ m * k >= 0
      BY <1>2, <3>1
    <3>3. QED BY <1>2, <3>1, <3>2
  <2>5. Layer!nr_dpus' <= NR_DPUS
    BY <1>1, <2>1, <2>4 DEF Layer!nr_dpus
  <2>6. QED BY <1>1, <1>3, <2>1, <2>3, <2>5 DEF LayerPlan
<1>5. CASE ~(h \div p < 4)
  <2>1. p' = p /\ pc' = "alloc"
    BY <1>1, <1>5 DEF Layer!PlanDpus
  <2> HIDE DEF h
  <2>2. h \div p \in Int /\ h % p \in 0..(p - 1) /\ h = p * (h \div p) + (h % p)
    BY <1>2, DivMod
  <2>3. p <= h
    <3> DEFINE q == h \div p
               r == h % p
    <3> HIDE DEF q, r
    <3>1. q \in Int /\ q >= 4 /\ r >= 0 /\ r \in Int /\ h = p * q + r
      BY <1>5, <2>2 DEF q, r
    <3>2. p * q = p + p * (q - 1) /\ p * (q - 1) >= 0
      BY <1>2, <3>1
    <3>3. QED BY <1>2, <3>1, <3>2
  <2>4. h = p * (h \div p) /\ h \div p >= 4
    BY <1>1, <1>2, <1>5, <2>2, <2>3, PowersDivide
  <2>5. Layer!per_dpu_size' = h \div p /\ Layer!nr_dpus' = p * k
    BY <1>1, <1>3, <2>1 DEF Layer!per_dpu_size, Layer!nr_dpus
  <2>6. QED BY <1>1, <1>3, <2>1, <2>4, <2>5 DEF LayerPlan
<1>6. QED BY <1>4, <1>5

\* The step to the next iteration stays within the blocks.
LEMMA LayerPlanRead ==
  ASSUME PowersOfTwo, LayerPlan, Layer!Read PROVE LayerPlan'
<1>1. /\ pc = "read" /\ UNCHANGED <<blocks, size, per_iteration_blocks, per_block_dpus>>
      /\ pc' \in {"read", "send", "convert"}
  BY DEF Layer!Read, Layer!call
<1>2. /\ LayerCall /\ nr_iterations \in Nat /\ nr_iterations > 0 /\ LayerStart
      /\ size \in Nat /\ per_iteration_blocks \in Nat
  BY <1>1, LayerShape, PowersAre DEF LayerPlan
<1>3. nr_iterations' \in Nat /\ LayerStart' /\ (pc' # "convert" => nr_iterations' > 0)
  <2>1. CASE nr_iterations' = nr_iterations - 1 /\ start' = Layer!Behind
    <3>1. PICK s \in Nat : start = s * size /\ s + nr_iterations * per_iteration_blocks = blocks
      BY <1>2 DEF LayerStart
    <3>2. start' = (s + per_iteration_blocks) * size
      BY <1>2, <2>1, <3>1 DEF Layer!Behind
    <3>3. (s + per_iteration_blocks) + (nr_iterations - 1) * per_iteration_blocks = blocks
      BY <1>2, <3>1
    <3>4. s + per_iteration_blocks \in Nat
      BY <1>2, <3>1
    <3>5. LayerStart'
      BY <1>1, <2>1, <3>2, <3>3, <3>4 DEF LayerStart
    <3>6. pc' # "convert" => nr_iterations # 1
      BY <1>1, <2>1 DEF Layer!Read
    <3>7. QED BY <1>2, <2>1, <3>5, <3>6
  <2>2. CASE UNCHANGED <<nr_iterations, start>>
    BY <1>1, <1>2, <2>2 DEF LayerStart
  <2>3. QED BY <2>1, <2>2 DEF Layer!Read
<1>4. QED BY <1>1, <1>3, LayerFrame DEF LayerPlan

\* Every step of a layer method keeps its plan.
LEMMA LayerPlanStep ==
  ASSUME PowersOfTwo, LayerPlan, [Layer!Next]_(Layer!vars) PROVE LayerPlan'
<1>1. CASE Layer!PlanIterations \/ Layer!PlanDpus \/ Layer!Read
  BY <1>1, LayerPlanIterations, LayerPlanDpus, LayerPlanRead
<1>2. CASE /\ UNCHANGED <<blocks, size, nr_iterations, per_iteration_blocks, per_block_dpus, start>>
           /\ \/ pc' = pc
              \/ pc = "alloc" /\ pc' \in {"send", "abort"}
              \/ pc \in {"send", "launch", "wait", "read"} /\ pc' \in {"send", "launch", "wait", "read"}
              \/ pc = "convert" /\ pc' = "done"
  BY <1>2, LayerFrame DEF LayerPlan, LayerStart
<1>3. QED
  BY <1>1, <1>2
     DEF Layer!Next, Layer!Host, Layer!Alloc, Layer!Send, Layer!Launch, Layer!Return, Layer!Convert,
         Layer!RunDpu, Layer!Stopped, Layer!vars, Layer!call, Layer!plan

(***************************************************************************)
(* Where the butterflies of a block are: p DPUs of a block have q of its   *)
(* h butterflies each.                                                     *)
(***************************************************************************)
LEMMA DpuPlaces ==
  ASSUME NEW p \in Nat \ {0}, NEW q \in Nat \ {0}, NEW h \in Nat, p * q = h, NEW k \in Nat,
         NEW d \in 0..(p * k - 1)
  PROVE  /\ d \div p \in 0..(k - 1) /\ d % p \in 0..(p - 1)
         /\ \A c \in 0..(q - 1) : (d % p) * q + c \in 0..(h - 1)
<1>1. d \div p \in 0..(k - 1) /\ d % p \in 0..(p - 1)
  BY ShareOf
<1> DEFINE j == d % p
<1>2. j \in Nat /\ j < p
  BY <1>1
<1> HIDE DEF j
<1>3. j * q + q <= p * q
  BY <1>2, SharesApart
<1>4. ASSUME NEW c \in 0..(q - 1) PROVE j * q + c \in 0..(h - 1)
  <2>1. j * q \in Nat
    BY <1>2
  <2> DEFINE x == j * q
  <2> HIDE DEF x
  <2>2. x \in Nat /\ x + q <= h
    BY <1>3, <2>1 DEF x
  <2>3. x + c \in 0..(h - 1)
    BY <2>2
  <2>4. QED BY <2>3 DEF x
<1>5. QED BY <1>1, <1>4 DEF j

\* The j-th of the p places of block b, counted through k blocks, and back.
LEMMA ButterflyPlaces ==
  ASSUME NEW p \in Nat \ {0}, NEW k \in Nat, NEW b \in 0..(k - 1), NEW j \in 0..(p - 1)
  PROVE  b * p + j \in 0..(p * k - 1) /\ (b * p + j) \div p = b /\ (b * p + j) % p = j
<1>1. (p * b + j) \div p = b /\ (p * b + j) % p = j /\ p * b + j = b * p + j
  BY PlaceInShare
<1>2. b * p + p <= k * p
  BY SharesApart
<1>3. b * p + j \in 0..(p * k - 1)
  <2> DEFINE x == b * p
             y == p * k
  <2>1. x \in Nat /\ y \in Nat /\ x + p <= y
    BY <1>2
  <2> HIDE DEF x, y
  <2>2. x + j \in 0..(y - 1)
    BY <2>1
  <2>3. QED BY <2>2 DEF x, y
<1>4. QED BY <1>1, <1>3

\* The numbers of the plan once it is made.
LEMMA LayerNumbers ==
  ASSUME PowersOfTwo, LayerPlan, pc \notin {"plan_iterations", "plan_dpus"}
  PROVE  /\ per_block_dpus \in Nat \ {0} /\ per_iteration_blocks \in Nat \ {0}
         /\ Layer!per_dpu_size \in Nat \ {0} /\ per_block_dpus * Layer!per_dpu_size = Layer!half
         /\ Layer!half \in Nat \ {0} /\ size \in Nat \ {0} /\ size = 2 * Layer!half
         /\ blocks \in Nat \ {0}
         /\ Layer!Dpus = 0..(per_block_dpus * per_iteration_blocks - 1)
         /\ Layer!Elements = 0..(blocks * size - 1)
         /\ start \in Nat
<1>1. per_block_dpus \in Nat \ {0} /\ per_iteration_blocks \in Nat \ {0}
  BY PowersAre DEF LayerPlan
<1>2. Layer!per_dpu_size >= 4 /\ per_block_dpus * Layer!per_dpu_size = Layer!half
  BY DEF LayerPlan
<1>3. /\ Layer!half \in Nat \ {0} /\ size \in Nat \ {0} /\ size = 2 * Layer!half
      /\ blocks \in Nat \ {0}
  BY LayerShape DEF LayerPlan
<1>4. Layer!per_dpu_size \in Nat \ {0}
  <2>1. Layer!per_dpu_size \in Int
    BY <1>1, <1>3, DivMod DEF Layer!per_dpu_size
  <2>2. QED BY <1>2, <2>1
<1>5. start \in Nat
  <2>1. PICK s \in Nat : start = s * size
    BY DEF LayerPlan, LayerStart
  <2>2. QED BY <1>3, <2>1
<1>6. QED BY <1>1, <1>2, <1>3, <1>4, <1>5 DEF Layer!Dpus, Layer!nr_dpus, Layer!Elements

\* The butterflies of an iteration's blocks are those of whole blocks of the array.
LEMMA LayerBlock ==
  ASSUME PowersOfTwo, LayerPlan, pc \in {"send", "launch", "wait", "read"},
         NEW b \in 0..(per_iteration_blocks - 1), NEW r \in 0..(Layer!half - 1)
  PROVE  LET e == start + b * size + r
         IN /\ e \in Layer!Elements /\ e + Layer!half \in Layer!Elements
            /\ Layer!NewElement(e) = Butterfly(start + b * size, r)[1]
            /\ Layer!NewElement(e + Layer!half) = Butterfly(start + b * size, r)[2]
<1> DEFINE h == Layer!half
           e == start + b * size + r
<1>1. /\ per_iteration_blocks \in Nat /\ h \in Nat \ {0} /\ size \in Nat \ {0} /\ size = 2 * h
      /\ blocks \in Nat /\ Layer!Elements = 0..(blocks * size - 1) /\ LayerCall
      /\ nr_iterations \in Nat /\ nr_iterations > 0
  BY LayerNumbers DEF LayerPlan
<1>2. PICK s \in Nat : start = s * size /\ s + nr_iterations * per_iteration_blocks = blocks
  BY DEF LayerPlan, LayerStart
<1>3. s + b \in Nat /\ s + b < blocks
  <2>1. /\ nr_iterations * per_iteration_blocks = per_iteration_blocks + (nr_iterations - 1) * per_iteration_blocks
        /\ (nr_iterations - 1) * per_iteration_blocks >= 0
    BY <1>1
  <2> DEFINE x == (nr_iterations - 1) * per_iteration_blocks
  <2>2. blocks = s + per_iteration_blocks + x /\ x >= 0 /\ x \in Int
    BY <1>1, <1>2, <2>1
  <2> HIDE DEF x
  <2>3. QED BY <1>1, <1>2, <2>2
<1>4. start + b * size = (s + b) * size
  BY <1>1, <1>2
<1>5. (s + b) * size + size <= blocks * size
  BY <1>1, <1>3, SharesApart
<1>6. e \in Layer!Elements /\ e + h \in Layer!Elements
  <2> DEFINE x == (s + b) * size
             y == blocks * size
  <2>1. x \in Nat /\ y \in Nat /\ x + size <= y /\ e = x + r
    BY <1>1, <1>3, <1>4, <1>5
  <2>2. r \in Nat /\ r < h
    BY <1>1
  <2> HIDE DEF x, y, h, e
  <2>3. e \in 0..(y - 1) /\ e + h \in 0..(y - 1)
    BY <1>1, <2>1, <2>2
  <2>4. QED BY <1>1, <2>3 DEF y
<1>7. /\ Layer!NewElement((s + b) * size + r) = Butterfly((s + b) * size, r)[1]
      /\ Layer!NewElement((s + b) * size + h + r) = Butterfly((s + b) * size, r)[2]
  BY <1>1, <1>3, LayerNew
<1>8. (s + b) * size + r = e /\ (s + b) * size + h + r = e + h
  BY <1>1, <1>3, <1>4
<1>9. QED BY <1>4, <1>6, <1>7, <1>8

\* Which block and which butterfly of it the k-th butterfly of a DPU is, and that it is butterfly
\* 0 only for the first DPU of a block.
LEMMA LayerDpu ==
  ASSUME PowersOfTwo, LayerPlan, pc \in {"send", "launch", "wait", "read"},
         NEW d \in Layer!Dpus, NEW k \in 0..(Layer!per_dpu_size - 1)
  PROVE  LET r == (d % per_block_dpus) * Layer!per_dpu_size + k
             b == d \div per_block_dpus
         IN /\ b \in 0..(per_iteration_blocks - 1) /\ r \in 0..(Layer!half - 1)
            /\ d % per_block_dpus \in 0..(per_block_dpus - 1)
            /\ Layer!FirstOf(d, k) = start + b * size + r
            /\ r = 0 <=> (d % per_block_dpus = 0 /\ k = 0)
<1> DEFINE p == per_block_dpus
           q == Layer!per_dpu_size
           j == d % p
<1>1. /\ p \in Nat \ {0} /\ per_iteration_blocks \in Nat \ {0} /\ q \in Nat \ {0}
      /\ p * q = Layer!half /\ Layer!half \in Nat /\ size \in Nat /\ start \in Nat
      /\ Layer!Dpus = 0..(p * per_iteration_blocks - 1)
  BY LayerNumbers
<1>2. /\ d \div p \in 0..(per_iteration_blocks - 1) /\ j \in 0..(p - 1)
      /\ j * q + k \in 0..(Layer!half - 1)
  BY <1>1, DpuPlaces
<1> HIDE DEF p, q, j
<1>3. j * q \in Nat /\ (j = 0 => j * q = 0) /\ (j # 0 => j * q # 0)
  BY <1>1, <1>2
<1>4. k \in Nat
  BY <1>1 DEF q
<1>5. j * q + k = 0 <=> (j = 0 /\ k = 0)
  BY <1>3, <1>4
<1>6. Layer!FirstOf(d, k) = start + (d \div p) * size + (j * q + k)
  <2>1. Layer!FirstOf(d, k) = start + (d \div p) * size + j * q + k
    BY DEF Layer!FirstOf, p, q, j
  <2>2. (d \div p) * size \in Nat
    BY <1>1, <1>2
  <2>3. QED BY <1>1, <1>3, <1>4, <2>1, <2>2
<1>7. QED BY <1>2, <1>5, <1>6 DEF p, q, j

(***************************************************************************)
(* The data: what was sent of a block, what its DPUs computed, and up to   *)
(* where the converted copy holds the new elements already.                *)
(***************************************************************************)
LayerFields == {"xp0", "xp1", "wtab", "butterfly0", "size"}
LayerLayout == DOMAIN mram = Layer!Dpus /\ \A d \in Layer!Dpus : DOMAIN mram[d] = LayerFields

LayerOld == [e \in Layer!Elements |-> Given(e)]
LayerUpTo(x) == converted = [e \in Layer!Elements |-> IF e < x THEN Layer!NewElement(e) ELSE Given(e)]

LayerShare == 0..(Layer!per_dpu_size - 1)
LayerWant(m, d) ==
  CASE m = 1 -> [k \in LayerShare |-> Given(Layer!FirstOf(d, k))]
    [] m = 2 -> [k \in LayerShare |-> Given(Layer!FirstOf(d, k) + Layer!half)]
    [] m = 3 -> [k \in LayerShare |-> Factor((d % per_block_dpus) * Layer!per_dpu_size + k)]
    [] m = 4 -> (d % per_block_dpus) = 0
LayerSent(d, m) == mram[d][Layer!Transfers[m]] = LayerWant(m, d)
LayerReady(d) == mram[d].size = Layer!per_dpu_size /\ \A m \in 1..4 : LayerSent(d, m)
LayerComputed(d) ==
  /\ mram[d].xp0 = [k \in LayerShare |-> Layer!NewElement(Layer!FirstOf(d, k))]
  /\ mram[d].xp1 = [k \in LayerShare |-> Layer!NewElement(Layer!FirstOf(d, k) + Layer!half)]

LayerData ==
  /\ pc \in {"plan_iterations", "plan_dpus", "alloc", "send", "launch", "wait", "read", "convert",
             "done", "abort"}
  /\ caller = IF pc = "done" THEN Layer!NewXp ELSE LayerOld
  /\ pc # "wait" => running = {}
  /\ pc \notin {"send", "read"} => n = 1 /\ i = 0
  /\ pc \in {"send", "launch", "wait"} => LayerLayout /\ LayerUpTo(start)
  /\ pc = "send" =>
       /\ i \in 0..(per_iteration_blocks - 1) /\ n \in 1..4
       /\ \A d \in Layer!Dpus :
            \A m \in 1..4 :
              d \div per_block_dpus < i \/ (d \div per_block_dpus = i /\ m < n) => LayerSent(d, m)
  /\ pc = "launch" => \A d \in Layer!Dpus : \A m \in 1..4 : LayerSent(d, m)
  /\ pc = "wait" =>
       /\ running \subseteq Layer!Dpus
       /\ \A d \in Layer!Dpus : IF d \in running THEN LayerReady(d) ELSE LayerComputed(d)
  /\ pc = "read" =>
       /\ i \in 0..(per_iteration_blocks - 1) /\ n \in 1..2
       /\ LayerLayout /\ LayerUpTo(start + i * size + (n - 1) * Layer!half)
       /\ \A d \in Layer!Dpus : LayerComputed(d)
  /\ pc = "convert" => converted = Layer!NewXp

\* At the call of a layer method the plan is not made and no DPU holds anything.
LEMMA LayerInit == PowersOfTwo /\ Layer!Init => LayerPlan /\ LayerData
<1>1. SUFFICES ASSUME PowersOfTwo, Layer!Init PROVE LayerPlan /\ LayerData
  OBVIOUS
<1>2. LayerCall
  BY <1>1, LayerArguments DEF Layer!Init
<1>3. 1 \in Powers /\ nr_iterations = 1 /\ start = 0 /\ pc = "plan_iterations" /\ blocks \in Nat \ {0}
  BY <1>1, <1>2, PowersAre, LayerShape DEF Layer!Init
<1>4. LayerPlan
  BY <1>2, <1>3 DEF LayerPlan
<1>5. LayerData
  BY <1>1 DEF Layer!Init, LayerData, LayerOld
<1>6. QED BY <1>4, <1>5

\* While the call and the plan stay as they are, so does what LayerData compares the DPUs with.
LEMMA LayerDataFrame ==
  ASSUME UNCHANGED <<blocks, size, per_iteration_blocks, per_block_dpus>>
  PROVE  /\ LayerOld' = LayerOld /\ Layer!NewXp' = Layer!NewXp /\ LayerShare' = LayerShare
         /\ UNCHANGED start =>
              /\ \A d, k : Layer!FirstOf(d, k)' = Layer!FirstOf(d, k)
              /\ \A m, d : LayerWant(m, d)' = LayerWant(m, d)
<1>1. /\ LayerOld' = LayerOld /\ Layer!NewXp' = Layer!NewXp /\ LayerShare' = LayerShare
  BY LayerFrame DEF LayerOld, Layer!NewXp, LayerShare
<1>2. ASSUME UNCHANGED start
      PROVE  \A d, k : Layer!FirstOf(d, k)' = Layer!FirstOf(d, k)
  BY <1>2, LayerFrame DEF Layer!FirstOf
<1>3. ASSUME UNCHANGED start
      PROVE  \A m, d : LayerWant(m, d)' = LayerWant(m, d)
  BY <1>1, <1>2, <1>3, LayerFrame DEF LayerWant
<1>4. QED BY <1>1, <1>2, <1>3

\* The host's steps that neither send nor read.
LEMMA LayerPlanningData ==
  ASSUME PowersOfTwo, LayerPlan, LayerData, Layer!PlanIterations \/ Layer!PlanDpus \/ Layer!Alloc
  PROVE  LayerData'
<1>1. CASE Layer!PlanIterations \/ Layer!PlanDpus
  <2>1. /\ pc \in {"plan_iterations", "plan_dpus"} /\ pc' \in {"plan_iterations", "plan_dpus", "alloc"}
        /\ UNCHANGED <<blocks, size, caller, running, n, i>>
    BY <1>1 DEF Layer!PlanIterations, Layer!PlanDpus, Layer!call
  <2>2. LayerOld' = LayerOld
    BY <2>1 DEF LayerOld, Layer!Elements
  <2>3. QED BY <2>1, <2>2 DEF LayerData
<1>2. CASE Layer!Alloc
  <2>1. /\ pc = "alloc" /\ pc' \in {"send", "abort"}
        /\ UNCHANGED <<blocks, size, per_iteration_blocks, per_block_dpus, start, caller, running, n, i>>
    BY <1>2 DEF Layer!Alloc, Layer!call, Layer!plan
  <2>2. caller = LayerOld /\ running = {} /\ n = 1 /\ i = 0
    BY <2>1 DEF LayerData
  <2>3. CASE pc' = "send"
    <3>1. /\ converted' = caller
          /\ mram' = [d \in Layer!Dpus |->
               [xp0 |-> NoInit, xp1 |-> NoInit, wtab |-> NoInit, butterfly0 |-> NoInit, size |-> 0]]
      BY <1>2, <2>3 DEF Layer!Alloc
    <3>2. LayerLayout'
      BY <2>1, <3>1, LayerFrame DEF LayerLayout, LayerFields
    <3>3. LayerUpTo(start)'
      <4>1. start = 0 /\ \A e \in Layer!Elements : ~(e < 0)
        BY <2>1, LayerNumbers DEF LayerPlan
      <4>2. QED BY <2>1, <2>2, <3>1, <4>1, LayerFrame DEF LayerUpTo, LayerOld
    <3>4. /\ i' \in 0..(per_iteration_blocks' - 1) /\ n' \in 1..4
      <4>1. per_iteration_blocks \in Nat \ {0}
        BY <2>1, LayerNumbers
      <4>2. QED BY <2>1, <2>2, <4>1
    <3>5. \A d \in Layer!Dpus' : ~(d \div per_block_dpus' < i') /\ \A m \in 1..4 : ~(m < n')
      <4>1. ASSUME NEW d \in Layer!Dpus PROVE ~(d \div per_block_dpus < 0)
        <5>1. /\ per_block_dpus \in Nat \ {0} /\ per_iteration_blocks \in Nat
              /\ d \in 0..(per_block_dpus * per_iteration_blocks - 1)
          BY <2>1, LayerNumbers
        <5>2. d \div per_block_dpus \in 0..(per_iteration_blocks - 1)
          BY <5>1, ShareOf
        <5>3. QED BY <5>2
      <4>2. QED BY <2>1, <2>2, <4>1, LayerFrame
    <3>6. QED BY <2>1, <2>2, <2>3, <3>2, <3>3, <3>4, <3>5, LayerDataFrame DEF LayerData
  <2>4. CASE pc' = "abort"
    BY <2>1, <2>2, <2>4, LayerDataFrame DEF LayerData
  <2>5. QED BY <2>1, <2>3, <2>4
<1>3. QED BY <1>1, <1>2

\* The transfers of an iteration, in their order.
LEMMA LayerTransfers ==
  /\ Len(Layer!Transfers) = 4
  /\ Layer!Transfers[1] = "xp0" /\ Layer!Transfers[2] = "xp1"
  /\ Layer!Transfers[3] = "wtab" /\ Layer!Transfers[4] = "butterfly0"
BY DEF Layer!Transfers

\* A transfer sends the DPUs of the current block what they are to have.
LEMMA LayerPayload ==
  ASSUME PowersOfTwo, LayerPlan, LayerData, pc = "send", NEW d \in Layer!Dpus, d \div per_block_dpus = i
  PROVE  Layer!Payload(Layer!Transfers[n], d % per_block_dpus) = LayerWant(n, d)
<1> DEFINE j == d % per_block_dpus
           q == Layer!per_dpu_size
           h == Layer!half
<1>1. n \in 1..4 /\ LayerUpTo(start)
  BY DEF LayerData
<1>2. /\ size \in Nat /\ h \in Nat /\ q \in Nat \ {0} /\ start \in Nat /\ i \in Nat /\ j \in Nat
  <2>1. /\ size \in Nat /\ h \in Nat /\ q \in Nat \ {0} /\ start \in Nat /\ per_block_dpus \in Nat \ {0}
        /\ per_iteration_blocks \in Nat /\ d \in 0..(per_block_dpus * per_iteration_blocks - 1)
    BY LayerNumbers
  <2>2. j \in 0..(per_block_dpus - 1)
    BY <2>1, ShareOf
  <2>3. i \in Nat
    BY <2>1 DEF LayerData
  <2>4. QED BY <2>1, <2>2, <2>3
<1>3. ASSUME NEW k \in LayerShare
      PROVE  /\ converted[start + i * size + 0 + j * q + k] = Given(Layer!FirstOf(d, k))
             /\ converted[start + i * size + h + j * q + k] = Given(Layer!FirstOf(d, k) + h)
  <2> DEFINE r == j * q + k
             e == start + i * size + r
  <2>1. /\ i \in 0..(per_iteration_blocks - 1) /\ r \in 0..(h - 1) /\ Layer!FirstOf(d, k) = e
    BY LayerDpu DEF LayerShare
  <2>2. e \in Layer!Elements /\ e + h \in Layer!Elements
    BY <2>1, LayerBlock
  <2>3. i * size \in Nat /\ j * q \in Nat /\ k \in Nat
    BY <1>2 DEF LayerShare
  <2>4. ~(e < start) /\ ~(e + h < start) /\ start + i * size + 0 + j * q + k = e
        /\ start + i * size + h + j * q + k = e + h
    BY <1>2, <2>3
  <2>5. QED BY <1>1, <2>1, <2>2, <2>4 DEF LayerUpTo
<1>4. CASE n = 1
  <2>1. Layer!Payload("xp0", j) = [k \in 0..(q - 1) |-> converted[start + i * size + 0 + j * q + k]]
    BY DEF Layer!Payload, Layer!Part
  <2>2. LayerWant(1, d) = [k \in 0..(q - 1) |-> Given(Layer!FirstOf(d, k))]
    BY DEF LayerWant, LayerShare
  <2>3. QED BY <1>3, <1>4, <2>1, <2>2, LayerTransfers DEF LayerShare
<1>5. CASE n = 2
  <2>1. Layer!Payload("xp1", j) = [k \in 0..(q - 1) |-> converted[start + i * size + h + j * q + k]]
    BY DEF Layer!Payload, Layer!Part
  <2>2. LayerWant(2, d) = [k \in 0..(q - 1) |-> Given(Layer!FirstOf(d, k) + h)]
    BY DEF LayerWant, LayerShare
  <2>3. QED BY <1>3, <1>5, <2>1, <2>2, LayerTransfers DEF LayerShare
<1>6. CASE n = 3
  BY <1>6 DEF LayerWant, LayerShare, Layer!Transfers, Layer!Payload
<1>7. CASE n = 4
  BY <1>7 DEF LayerWant, LayerShare, Layer!Transfers, Layer!Payload
<1>8. QED BY <1>1, <1>4, <1>5, <1>6, <1>7

\* A transfer to the DPUs keeps LayerData: each receives what its butterflies call for.
LEMMA LayerSendData ==
  ASSUME PowersOfTwo, LayerPlan, LayerData, Layer!Send PROVE LayerData'
<1> DEFINE b(d) == d \div per_block_dpus
<1>1. /\ pc = "send" /\ pc' \in {"send", "launch"}
      /\ UNCHANGED <<blocks, size, nr_iterations, per_iteration_blocks, per_block_dpus, start,
                     caller, converted, running>>
  BY DEF Layer!Send, Layer!call, Layer!plan
<1>2. /\ caller = LayerOld /\ running = {} /\ LayerLayout /\ LayerUpTo(start)
      /\ i \in 0..(per_iteration_blocks - 1) /\ n \in 1..4
      /\ \A d \in Layer!Dpus : \A m \in 1..4 : b(d) < i \/ (b(d) = i /\ m < n) => LayerSent(d, m)
  BY <1>1 DEF LayerData
<1>3. mram' = [d \in Layer!Dpus |->
        IF b(d) = i THEN [mram[d] EXCEPT ![Layer!Transfers[n]] = LayerWant(n, d)] ELSE mram[d]]
  <2>1. mram' = [d \in Layer!Dpus |->
          IF b(d) = i THEN [mram[d] EXCEPT ![Layer!Transfers[n]] = Layer!Payload(Layer!Transfers[n], d % per_block_dpus)]
          ELSE mram[d]]
    BY DEF Layer!Send
  <2>2. QED BY <1>1, <2>1, LayerPayload
<1>4. Layer!Transfers[n] \in LayerFields
      /\ \A m \in 1..4 : m # n => Layer!Transfers[m] # Layer!Transfers[n]
  BY <1>2 DEF Layer!Transfers, LayerFields
<1>5. LayerLayout'
  <2>1. \A d \in Layer!Dpus : DOMAIN mram'[d] = LayerFields
    BY <1>2, <1>3 DEF LayerLayout
  <2>2. QED BY <1>1, <1>3, <2>1, LayerFrame DEF LayerLayout
<1>6. LayerUpTo(start)'
  BY <1>1, <1>2, LayerFrame DEF LayerUpTo
<1>7. ASSUME NEW d \in Layer!Dpus, NEW m \in 1..4, b(d) < i \/ (b(d) = i /\ m <= n)
      PROVE  LayerSent(d, m)'
  <2>1. mram'[d][Layer!Transfers[m]] = LayerWant(m, d)
    <3>1. DOMAIN mram[d] = LayerFields
      BY <1>2 DEF LayerLayout
    <3>2. CASE b(d) = i /\ m = n
      BY <1>3, <1>4, <3>1, <3>2
    <3>3. CASE ~(b(d) = i /\ m = n)
      <4>1. LayerSent(d, m)
        BY <1>2, <1>7, <3>3
      <4>2. mram'[d][Layer!Transfers[m]] = mram[d][Layer!Transfers[m]]
        BY <1>3, <1>4, <3>1, <3>3
      <4>3. QED BY <4>1, <4>2 DEF LayerSent
    <3>4. QED BY <3>2, <3>3
  <2>2. QED BY <1>1, <2>1, LayerDataFrame DEF LayerSent
<1>8. ASSUME NEW d \in Layer!Dpus PROVE b(d) \in 0..(per_iteration_blocks - 1)
  <2>1. /\ per_block_dpus \in Nat \ {0} /\ per_iteration_blocks \in Nat
        /\ d \in 0..(per_block_dpus * per_iteration_blocks - 1)
    BY <1>1, LayerNumbers
  <2>2. QED BY <2>1, ShareOf
<1>9. /\ Layer!Dpus' = Layer!Dpus /\ LayerOld' = LayerOld /\ per_iteration_blocks \in Nat
      /\ caller' = LayerOld' /\ running' = {}
      /\ \A d \in Layer!Dpus : (d \div per_block_dpus)' = b(d)
  BY <1>1, <1>2, LayerFrame, LayerDataFrame, LayerNumbers
<1>10. Len(Layer!Transfers) = 4
  BY DEF Layer!Transfers
<1> HIDE DEF b
<1>11. CASE n < 4
  <2>1. n' = n + 1 /\ i' = i /\ pc' = "send"
    BY <1>1, <1>10, <1>11 DEF Layer!Send
  <2>2. \A d \in Layer!Dpus : \A m \in 1..4 : b(d) < i' \/ (b(d) = i' /\ m < n') => LayerSent(d, m)'
    <3>1. \A m \in 1..4 : m < n + 1 => m <= n
      BY <1>2
    <3>2. QED BY <1>7, <2>1, <3>1
  <2>3. n' \in 1..4 /\ i' \in 0..(per_iteration_blocks' - 1)
    BY <1>1, <1>2, <1>11, <2>1
  <2>4. QED BY <1>5, <1>6, <1>9, <2>1, <2>2, <2>3 DEF LayerData
<1>12. CASE n = 4 /\ i + 1 < per_iteration_blocks
  <2>1. n' = 1 /\ i' = i + 1 /\ pc' = "send"
    BY <1>1, <1>2, <1>9, <1>10, <1>12 DEF Layer!Send
  <2>2. \A d \in Layer!Dpus : \A m \in 1..4 : b(d) < i' \/ (b(d) = i' /\ m < n') => LayerSent(d, m)'
    <3>1. \A d \in Layer!Dpus : b(d) < i + 1 => b(d) < i \/ b(d) = i
      BY <1>2, <1>8
    <3>2. \A m \in 1..4 : ~(m < 1) /\ m <= n
      BY <1>12
    <3>3. QED BY <1>7, <2>1, <3>1, <3>2
  <2>3. n' \in 1..4 /\ i' \in 0..(per_iteration_blocks' - 1)
    BY <1>1, <1>2, <1>9, <1>12, <2>1
  <2>4. QED BY <1>5, <1>6, <1>9, <2>1, <2>2, <2>3 DEF LayerData
<1>13. CASE n = 4 /\ i + 1 = per_iteration_blocks
  <2>1. n' = 1 /\ i' = 0 /\ pc' = "launch"
    BY <1>1, <1>2, <1>9, <1>10, <1>13 DEF Layer!Send
  <2>2. \A d \in Layer!Dpus' : \A m \in 1..4 : LayerSent(d, m)'
    <3>1. \A d \in Layer!Dpus : b(d) < i \/ b(d) = i
      BY <1>2, <1>8, <1>13
    <3>2. \A m \in 1..4 : m <= n
      BY <1>13
    <3>3. QED BY <1>7, <1>9, <3>1, <3>2
  <2>3. QED BY <1>5, <1>6, <1>9, <2>1, <2>2 DEF LayerData
<1>14. n < 4 \/ (n = 4 /\ i + 1 < per_iteration_blocks) \/ (n = 4 /\ i + 1 = per_iteration_blocks)
  BY <1>2, <1>9
<1>15. QED BY <1>11, <1>12, <1>13, <1>14

\* The launch keeps LayerData: every DPU then has all four of its transfers.
LEMMA LayerLaunchData ==
  ASSUME PowersOfTwo, LayerPlan, LayerData, Layer!Launch PROVE LayerData'
<1>1. /\ pc = "launch" /\ pc' = "wait" /\ running' = Layer!Dpus
      /\ UNCHANGED <<blocks, size, per_iteration_blocks, per_block_dpus, start, caller, converted, n, i>>
  BY DEF Layer!Launch, Layer!call, Layer!plan
<1>2. /\ caller = LayerOld /\ LayerLayout /\ LayerUpTo(start) /\ n = 1 /\ i = 0
      /\ \A d \in Layer!Dpus : \A m \in 1..4 : LayerSent(d, m)
  BY <1>1 DEF LayerData
<1>3. ASSUME NEW d \in Layer!Dpus
      PROVE  DOMAIN mram'[d] = LayerFields /\ LayerReady(d)'
  <2>1. mram'[d] = [mram[d] EXCEPT !.size = Layer!per_dpu_size] /\ DOMAIN mram[d] = LayerFields
    BY <1>2 DEF Layer!Launch, LayerLayout
  <2>2. DOMAIN mram'[d] = LayerFields /\ mram'[d].size = Layer!per_dpu_size
    BY <2>1 DEF LayerFields
  <2>3. ASSUME NEW m \in 1..4 PROVE mram'[d][Layer!Transfers[m]] = LayerWant(m, d)
    <3>1. Layer!Transfers[m] # "size" /\ Layer!Transfers[m] \in LayerFields
      BY LayerTransfers DEF LayerFields
    <3>2. QED BY <1>2, <2>1, <3>1 DEF LayerSent
  <2>4. QED BY <1>1, <2>2, <2>3, LayerFrame, LayerDataFrame DEF LayerReady, LayerSent
<1>4. LayerLayout' /\ LayerUpTo(start)'
  <2>1. DOMAIN mram' = Layer!Dpus
    BY DEF Layer!Launch
  <2>2. QED BY <1>1, <1>2, <1>3, <2>1, LayerFrame DEF LayerLayout, LayerUpTo
<1>5. Layer!Dpus' = Layer!Dpus /\ LayerOld' = LayerOld
  BY <1>1, LayerFrame, LayerDataFrame
<1>6. QED BY <1>1, <1>2, <1>3, <1>4, <1>5 DEF LayerData

\* What a DPU computes: the new elements of its part of both halves of a block.
LEMMA LayerDpuComputes ==
  ASSUME PowersOfTwo, LayerPlan, pc = "wait", NEW d \in Layer!Dpus, LayerLayout, LayerReady(d), Layer!RunDpu(d)
  PROVE  LayerComputed(d)' /\ DOMAIN mram'[d] = LayerFields
<1> DEFINE j == d % per_block_dpus
           at(k) == Layer!FirstOf(d, k)
           h == Layer!half
<1>1. /\ DOMAIN mram = Layer!Dpus /\ DOMAIN mram[d] = LayerFields
      /\ UNCHANGED <<blocks, size, per_iteration_blocks, per_block_dpus, start>>
  BY DEF LayerLayout, Layer!RunDpu, Layer!call, Layer!plan
<1>2. /\ LayerSent(d, 1) /\ LayerSent(d, 2) /\ LayerSent(d, 3) /\ LayerSent(d, 4)
  BY DEF LayerReady
<1>3. /\ mram[d].xp0 = [k \in LayerShare |-> Given(at(k))]
      /\ mram[d].xp1 = [k \in LayerShare |-> Given(at(k) + h)]
      /\ mram[d].wtab = [k \in LayerShare |-> Factor(j * Layer!per_dpu_size + k)]
      /\ mram[d].butterfly0 = (j = 0)
  <2>1. /\ mram[d]["xp0"] = LayerWant(1, d) /\ mram[d]["xp1"] = LayerWant(2, d)
        /\ mram[d]["wtab"] = LayerWant(3, d) /\ mram[d]["butterfly0"] = LayerWant(4, d)
    BY <1>2, LayerTransfers DEF LayerSent
  <2>2. QED BY <2>1 DEF LayerWant
<1>4. ASSUME NEW k \in LayerShare
      PROVE  /\ Layer!Pair(mram[d], k)[1] = Layer!NewElement(at(k))
             /\ Layer!Pair(mram[d], k)[2] = Layer!NewElement(at(k) + h)
  <2> DEFINE r == j * Layer!per_dpu_size + k
             b == d \div per_block_dpus
             c == start + b * size
  <2>1. /\ b \in 0..(per_iteration_blocks - 1) /\ r \in 0..(h - 1) /\ at(k) = c + r
        /\ (r = 0 <=> (j = 0 /\ k = 0))
    BY LayerDpu DEF LayerShare
  <2>2. /\ Layer!NewElement(at(k)) = Butterfly(c, r)[1]
        /\ Layer!NewElement(at(k) + h) = Butterfly(c, r)[2]
    BY <2>1, LayerBlock
  <2>3. Layer!Pair(mram[d], k) = Butterfly(c, r)
    <3>1. /\ mram[d].xp0[k] = Given(c + r) /\ mram[d].xp1[k] = Given(c + r + h)
          /\ mram[d].wtab[k] = Factor(r)
          /\ ((k = 0 /\ mram[d].butterfly0) <=> r = 0)
      <4>1. mram[d].xp0[k] = Given(at(k)) /\ mram[d].xp1[k] = Given(at(k) + h)
        BY <1>3
      <4>2. mram[d].wtab[k] = Factor(r) /\ mram[d].butterfly0 = (j = 0)
        BY <1>3
      <4> HIDE DEF at, c, r, j
      <4>3. QED BY <2>1, <4>1, <4>2
    <3> HIDE DEF c, r, j, at
    <3>2. QED BY <3>1 DEF Layer!Pair, Butterfly
  <2>4. QED BY <2>2, <2>3
<1>5. /\ mram'[d].xp0 = [k \in LayerShare |-> Layer!Pair(mram[d], k)[1]]
      /\ mram'[d].xp1 = [k \in LayerShare |-> Layer!Pair(mram[d], k)[2]]
      /\ DOMAIN mram'[d] = LayerFields
  <2> DEFINE f(k) == Layer!Pair(mram[d], k)[1]
             g(k) == Layer!Pair(mram[d], k)[2]
  <2>1. mram' = [mram EXCEPT ![d].xp0 = [k \in DOMAIN @ |-> f(k)], ![d].xp1 = [k \in DOMAIN @ |-> g(k)]]
    BY DEF Layer!RunDpu
  <2>2. DOMAIN mram[d].xp0 = LayerShare /\ DOMAIN mram[d].xp1 = LayerShare
    BY <1>3
  <2> HIDE DEF f, g
  <2>3. /\ mram'[d].xp0 = [k \in LayerShare |-> f(k)]
        /\ mram'[d].xp1 = [k \in LayerShare |-> g(k)]
        /\ DOMAIN mram'[d] = LayerFields
    BY <1>1, <2>1, <2>2 DEF LayerFields
  <2>4. QED BY <2>3 DEF f, g
<1>6. /\ mram'[d].xp0 = [k \in LayerShare |-> Layer!NewElement(at(k))]
      /\ mram'[d].xp1 = [k \in LayerShare |-> Layer!NewElement(at(k) + h)]
  BY <1>4, <1>5
<1>7. QED BY <1>1, <1>5, <1>6, LayerFrame, LayerDataFrame DEF LayerComputed

\* A DPU that finishes keeps LayerData: its butterflies are those of the layer.
LEMMA LayerRunData ==
  ASSUME PowersOfTwo, LayerPlan, LayerData, NEW d \in running, Layer!RunDpu(d) PROVE LayerData'
<1>1. /\ pc = "wait" /\ pc' = "wait" /\ running' = running \ {d}
      /\ UNCHANGED <<blocks, size, per_iteration_blocks, per_block_dpus, start, caller, converted, n, i>>
  BY DEF Layer!RunDpu, Layer!call, Layer!plan, LayerData
<1>2. /\ caller = LayerOld /\ LayerLayout /\ LayerUpTo(start) /\ n = 1 /\ i = 0
      /\ running \subseteq Layer!Dpus
      /\ \A e \in Layer!Dpus : IF e \in running THEN LayerReady(e) ELSE LayerComputed(e)
  BY <1>1 DEF LayerData
<1>3. d \in Layer!Dpus /\ LayerReady(d)
  BY <1>2
<1>4. LayerComputed(d)' /\ DOMAIN mram'[d] = LayerFields
  BY <1>1, <1>2, <1>3, LayerDpuComputes
<1>5. DOMAIN mram' = Layer!Dpus /\ \A e \in Layer!Dpus : e # d => mram'[e] = mram[e]
  BY <1>2 DEF Layer!RunDpu, LayerLayout
<1>6. LayerLayout' /\ LayerUpTo(start)'
  BY <1>1, <1>2, <1>4, <1>5, LayerFrame DEF LayerLayout, LayerUpTo
<1>7. ASSUME NEW e \in Layer!Dpus PROVE IF e \in running' THEN LayerReady(e)' ELSE LayerComputed(e)'
  <2>1. CASE e = d
    BY <1>1, <1>4, <2>1
  <2>2. CASE e # d
    <3>1. (LayerReady(e) => LayerReady(e)') /\ (LayerComputed(e) => LayerComputed(e)')
      BY <1>1, <1>5, <2>2, LayerFrame, LayerDataFrame DEF LayerReady, LayerSent, LayerComputed
    <3>2. e \in running' <=> e \in running
      BY <1>1, <2>2
    <3>3. QED BY <1>2, <3>1, <3>2
  <2>3. QED BY <2>1, <2>2
<1>8. Layer!Dpus' = Layer!Dpus /\ LayerOld' = LayerOld /\ running' \subseteq Layer!Dpus
  BY <1>1, <1>2, LayerFrame, LayerDataFrame
<1>9. QED BY <1>1, <1>2, <1>6, <1>7, <1>8 DEF LayerData

\* The return from the launch keeps LayerData: no DPU is running any more.
LEMMA LayerReturnData ==
  ASSUME PowersOfTwo, LayerPlan, LayerData, Layer!Return PROVE LayerData'
<1>1. /\ pc = "wait" /\ pc' = "read" /\ running = {}
      /\ UNCHANGED <<blocks, size, per_iteration_blocks, per_block_dpus, start, caller, converted,
                     n, i, mram, running>>
  BY DEF Layer!Return, Layer!call, Layer!plan
<1>2. /\ caller = LayerOld /\ LayerLayout /\ LayerUpTo(start) /\ n = 1 /\ i = 0
      /\ \A d \in Layer!Dpus : LayerComputed(d)
  BY <1>1 DEF LayerData
<1>3. LayerLayout' /\ \A d \in Layer!Dpus : LayerComputed(d)'
  BY <1>1, <1>2, LayerFrame, LayerDataFrame DEF LayerLayout, LayerComputed
<1>4. start + i * size + (n - 1) * Layer!half = start /\ i \in 0..(per_iteration_blocks - 1) /\ n \in 1..2
  <2>1. size \in Nat /\ Layer!half \in Nat /\ start \in Nat /\ per_iteration_blocks \in Nat \ {0}
    BY <1>1, LayerNumbers
  <2>2. 0 * size = 0 /\ 0 * Layer!half = 0
    BY <2>1
  <2>3. i * size = 0 /\ (n - 1) * Layer!half = 0
    BY <1>2, <2>2
  <2>4. QED BY <1>2, <2>1, <2>3
<1>5. LayerUpTo(start + i * size + (n - 1) * Layer!half)'
  BY <1>1, <1>2, <1>4, LayerFrame DEF LayerUpTo
<1>6. Layer!Dpus' = Layer!Dpus /\ LayerOld' = LayerOld
  BY <1>1, LayerFrame, LayerDataFrame
<1>7. QED BY <1>1, <1>2, <1>3, <1>4, <1>5, <1>6 DEF LayerData

\* The conversion of what was read keeps LayerData: the caller's array is the new one.
LEMMA LayerConvertData ==
  ASSUME PowersOfTwo, LayerPlan, LayerData, Layer!Convert PROVE LayerData'
<1>1. /\ pc = "convert" /\ pc' = "done" /\ caller' = converted
      /\ UNCHANGED <<blocks, size, per_iteration_blocks, per_block_dpus, running, n, i>>
  BY DEF Layer!Convert, Layer!call, Layer!plan
<1>2. QED BY <1>1, LayerDataFrame DEF LayerData

\* A step that changes nothing keeps LayerData.
LEMMA LayerStutterData ==
  ASSUME PowersOfTwo, LayerPlan, LayerData, UNCHANGED Layer!vars PROVE LayerData'
<1>1. UNCHANGED <<pc, blocks, size, per_iteration_blocks, per_block_dpus, start, caller, converted,
                  n, i, mram, running>>
  BY DEF Layer!vars, Layer!call, Layer!plan
<1>2. /\ LayerLayout => LayerLayout'
      /\ LayerUpTo(start) => LayerUpTo(start)'
      /\ LayerUpTo(start + i * size + (n - 1) * Layer!half) => LayerUpTo(start + i * size + (n - 1) * Layer!half)'
  BY <1>1, LayerFrame DEF LayerLayout, LayerUpTo
<1>3. /\ \A d, m : LayerSent(d, m) => LayerSent(d, m)'
      /\ \A d : LayerComputed(d) => LayerComputed(d)'
  BY <1>1, LayerFrame, LayerDataFrame DEF LayerSent, LayerComputed
<1>4. \A d : LayerReady(d) => LayerReady(d)'
  BY <1>1, <1>3, LayerFrame DEF LayerReady
<1>5. Layer!Dpus' = Layer!Dpus /\ LayerOld' = LayerOld /\ Layer!NewXp' = Layer!NewXp
  BY <1>1, LayerFrame, LayerDataFrame
<1>6. QED BY <1>1, <1>2, <1>3, <1>4, <1>5 DEF LayerData

\* A transfer back puts half a block where the new elements of it belong.
LEMMA LayerReadHalf ==
  ASSUME PowersOfTwo, LayerPlan, LayerData, Layer!Read
  PROVE  LET from == start + i * size + (n - 1) * Layer!half
         IN converted' = [e \in Layer!Elements |->
              IF e < from + Layer!half THEN Layer!NewElement(e) ELSE Given(e)]
<1> DEFINE h == Layer!half
           p == per_block_dpus
           q == Layer!per_dpu_size
           from == start + i * size + (n - 1) * h
           value(e) == mram[Layer!DpuOf(e)][Layer!Transfers[n]][((e - start) % h) % q]
           inside(e) == e \in from..(from + h - 1) /\ (e - from) \div q < p
<1>1. /\ pc = "read" /\ i \in 0..(per_iteration_blocks - 1) /\ n \in 1..2
      /\ LayerUpTo(from) /\ \A d \in Layer!Dpus : LayerComputed(d)
  BY DEF LayerData, Layer!Read
<1>2. converted' = [e \in Layer!Elements |-> IF inside(e) THEN value(e) ELSE converted[e]]
  BY DEF Layer!Read
<1>3. /\ p \in Nat \ {0} /\ q \in Nat \ {0} /\ h \in Nat \ {0} /\ p * q = h
      /\ size \in Nat /\ size = 2 * h /\ start \in Nat /\ i \in Nat
      /\ per_iteration_blocks \in Nat /\ Layer!Dpus = 0..(p * per_iteration_blocks - 1)
      /\ Layer!Elements \subseteq Nat
  BY <1>1, LayerNumbers
<1>4. from \in Nat
  BY <1>1, <1>3
<1>5. ASSUME NEW e \in Layer!Elements, e \in from..(from + h - 1)
      PROVE  inside(e) /\ value(e) = Layer!NewElement(e)
  <2> DEFINE r == e - from
             j == r \div q
             k == r % q
             d == i * p + j
  <2>1. r \in 0..(h - 1)
    BY <1>3, <1>4, <1>5
  <2>2. /\ j \in 0..(p - 1) /\ k \in 0..(q - 1) /\ j * q + k = r
        /\ d \in Layer!Dpus /\ d \div p = i /\ d % p = j
    <3>1. q * p = h
      BY <1>3
    <3> HIDE DEF r
    <3>2. j \in 0..(p - 1) /\ k \in 0..(q - 1) /\ r = q * j + k
      BY <1>3, <2>1, <3>1, ShareOf
    <3> HIDE DEF j, k
    <3>3. d \in Layer!Dpus /\ d \div p = i /\ d % p = j
      BY <1>1, <1>3, <3>2, ButterflyPlaces
    <3>4. j * q + k = r
      BY <1>3, <3>2
    <3>5. QED BY <3>2, <3>3, <3>4
  <2>3. (e - start) % h = r
    <3>1. i * size + (n - 1) * h = h * (2 * i + n - 1)
      BY <1>1, <1>3
    <3>2. e - start = h * (2 * i + n - 1) + r
      BY <1>1, <1>3, <1>5, <3>1
    <3>3. 2 * i + n - 1 \in Nat
      BY <1>1, <1>3
    <3> HIDE DEF r, h
    <3>4. (h * (2 * i + n - 1) + r) % h = r
      BY <1>3, <2>1, <3>3, PlaceInShare
    <3>5. QED BY <3>2, <3>4
  <2>4. Layer!DpuOf(e) = d
    BY <2>3 DEF Layer!DpuOf
  <2>5. inside(e)
    <3>1. (e - from) \div q = j
      OBVIOUS
    <3>2. j < p
      <4> HIDE DEF j, k
      <4>1. QED BY <1>3, <2>2
    <3>3. QED BY <1>5, <3>1, <3>2
  <2>6. value(e) = mram[d][Layer!Transfers[n]][k]
    BY <2>3, <2>4
  <2>7. k \in LayerShare /\ Layer!FirstOf(d, k) = start + i * size + r
    <3>1. Layer!FirstOf(d, k) = start + i * size + j * q + k
      BY <2>2 DEF Layer!FirstOf
    <3>2. i * size \in Nat /\ j * q \in Nat /\ k \in Nat
      <4> HIDE DEF j, k, q
      <4>1. QED BY <1>3, <2>2
    <3>3. start + i * size + j * q + k = start + i * size + (j * q + k)
      BY <1>3, <3>2
    <3>4. QED BY <2>2, <3>1, <3>3 DEF LayerShare
  <2>8. LayerComputed(d)
    BY <1>1, <2>2
  <2> HIDE DEF d, k
  <2>9. CASE n = 1
    <3>1. e = start + i * size + r
      BY <1>3, <1>5, <2>9
    <3>2. value(e) = mram[d].xp0[k]
      BY <2>6, <2>9, LayerTransfers
    <3>3. QED BY <2>5, <2>7, <2>8, <3>1, <3>2 DEF LayerComputed
  <2>10. CASE n = 2
    <3>1. e = start + i * size + r + h
      BY <1>3, <1>5, <2>10
    <3>2. value(e) = mram[d].xp1[k]
      BY <2>6, <2>10, LayerTransfers
    <3>3. QED BY <2>5, <2>7, <2>8, <3>1, <3>2 DEF LayerComputed
  <2>11. QED BY <1>1, <2>9, <2>10
<1>6. ASSUME NEW e \in Layer!Elements
      PROVE  (IF inside(e) THEN value(e) ELSE converted[e]) =
               IF e < from + h THEN Layer!NewElement(e) ELSE Given(e)
  <2>1. CASE e \in from..(from + h - 1)
    <3>1. inside(e) /\ value(e) = Layer!NewElement(e)
      BY <1>5, <2>1
    <3>2. e < from + h
      <4> HIDE DEF from, h
      <4>1. QED BY <1>3, <1>4, <2>1
    <3> HIDE DEF inside, value, from, h
    <3>3. QED BY <3>1, <3>2
  <2>2. CASE e \notin from..(from + h - 1)
    <3>1. converted[e] = IF e < from THEN Layer!NewElement(e) ELSE Given(e)
      BY <1>1 DEF LayerUpTo
    <3>2. e \in Nat /\ (e < from <=> e < from + h)
      BY <1>3, <1>4, <2>2
    <3>3. QED BY <2>2, <3>1, <3>2
  <2>3. QED BY <2>1, <2>2
<1> HIDE DEF inside, value, from
<1>7. QED BY <1>2, <1>6 DEF from

\* The transfer of an iteration's results back keeps LayerData: they extend the part of the array
\* already computed.
LEMMA LayerReadData ==
  ASSUME PowersOfTwo, LayerPlan, LayerPlan', LayerData, Layer!Read PROVE LayerData'
<1> DEFINE h == Layer!half
           k == per_iteration_blocks
           from == start + i * size + (n - 1) * h
<1>1. /\ pc = "read" /\ UNCHANGED <<blocks, size, per_iteration_blocks, per_block_dpus, caller, running>>
      /\ pc' \in {"read", "send", "convert"}
  BY DEF Layer!Read, Layer!call
<1>2. /\ caller = LayerOld /\ running = {} /\ LayerLayout
      /\ i \in 0..(k - 1) /\ n \in 1..2 /\ \A d \in Layer!Dpus : LayerComputed(d)
  BY <1>1 DEF LayerData
<1>3. converted' = [e \in Layer!Elements |-> IF e < from + h THEN Layer!NewElement(e) ELSE Given(e)]
  BY LayerReadHalf
<1>4. /\ h \in Nat /\ size \in Nat /\ size = 2 * h /\ start \in Nat /\ k \in Nat
      /\ Layer!Elements = 0..(blocks * size - 1)
  BY <1>1, LayerNumbers
<1>5. /\ Layer!half' = h /\ Layer!Dpus' = Layer!Dpus /\ LayerOld' = LayerOld /\ caller' = LayerOld'
      /\ k' = k /\ running' = {}
  BY <1>1, <1>2, LayerFrame, LayerDataFrame
<1>6. ASSUME NEW x, x = from + h PROVE LayerUpTo(x)'
  BY <1>1, <1>3, <1>6, LayerFrame DEF LayerUpTo
<1>7. CASE n = 1
  <2>1. n' = 2 /\ pc' = "read" /\ UNCHANGED <<i, start, mram>>
    BY <1>1, <1>7 DEF Layer!Read
  <2>2. LayerLayout' /\ \A d \in Layer!Dpus : LayerComputed(d)'
    BY <1>1, <1>2, <2>1, LayerFrame, LayerDataFrame DEF LayerLayout, LayerComputed
  <2>3. start' + i' * size' + (n' - 1) * Layer!half' = from + h
    <3>1. i * size \in Nat /\ (n - 1) * h = 0 /\ (n' - 1) * h = h
      BY <1>2, <1>4, <1>7, <2>1
    <3>2. start' + i' * size' + (n' - 1) * Layer!half' = start + i * size + (n' - 1) * h
      BY <1>1, <1>5, <2>1
    <3> HIDE DEF h
    <3>3. QED BY <1>4, <3>1, <3>2
  <2>4. QED BY <1>1, <1>2, <1>5, <1>6, <2>1, <2>2, <2>3 DEF LayerData
<1>8. CASE n = 2 /\ i + 1 < k
  <2>1. n' = 1 /\ i' = i + 1 /\ pc' = "read" /\ UNCHANGED <<start, mram>>
    BY <1>1, <1>2, <1>4, <1>8 DEF Layer!Read
  <2>2. LayerLayout' /\ \A d \in Layer!Dpus : LayerComputed(d)'
    BY <1>1, <1>2, <2>1, LayerFrame, LayerDataFrame DEF LayerLayout, LayerComputed
  <2>3. start' + i' * size' + (n' - 1) * Layer!half' = from + h
    <3>1. (i + 1) * size = i * size + h + h /\ i * size \in Nat
      BY <1>2, <1>4
    <3>2. QED BY <1>1, <1>4, <1>5, <1>8, <2>1, <3>1
  <2>4. i' \in 0..(k - 1)
    BY <1>2, <1>4, <1>8, <2>1
  <2>5. QED BY <1>1, <1>2, <1>5, <1>6, <2>1, <2>2, <2>3, <2>4 DEF LayerData
<1>9. CASE n = 2 /\ i + 1 = k
  <2>1. n' = 1 /\ i' = 0 /\ start' = Layer!Behind /\ nr_iterations' = nr_iterations - 1
        /\ IF nr_iterations = 1 THEN pc' = "convert" ELSE pc' = "send" /\ mram' = mram
    BY <1>1, <1>2, <1>4, <1>9 DEF Layer!Read
  <2>2. start' = from + h
    <3>1. k * size = i * size + h + h /\ i * size \in Nat
      <4>1. (i + 1) * size = i * size + size /\ i * size \in Nat
        BY <1>2, <1>4
      <4>2. QED BY <1>4, <1>9, <4>1
    <3>2. (n - 1) * h = h
      BY <1>4, <1>9
    <3>3. start' = start + k * size
      BY <2>1 DEF Layer!Behind
    <3> DEFINE x == i * size
               y == k * size
    <3>4. y = x + h + h /\ x \in Nat
      BY <3>1
    <3>5. from = start + x + h
      BY <3>2
    <3> HIDE DEF x, h, from
    <3>6. start' = start + y
      BY <3>3
    <3> HIDE DEF y
    <3>7. QED BY <1>4, <3>4, <3>5, <3>6
  <2>3. CASE nr_iterations # 1
    <3>1. LayerLayout' /\ pc' = "send"
      BY <1>1, <1>2, <2>1, <2>3, LayerFrame DEF LayerLayout
    <3>2. LayerUpTo(start)'
      BY <1>6, <2>2
    <3>3. i' \in 0..(k' - 1) /\ n' \in 1..4 /\ \A m \in 1..4 : ~(m < n')
      BY <1>2, <1>4, <1>5, <2>1
    <3>4. \A d \in Layer!Dpus' : ~((d \div per_block_dpus)' < i')
      <4>1. ASSUME NEW d \in Layer!Dpus PROVE ~(d \div per_block_dpus < 0)
        <5>1. /\ per_block_dpus \in Nat \ {0} /\ k \in Nat /\ d \in 0..(per_block_dpus * k - 1)
          BY <1>1, LayerNumbers
        <5>2. d \div per_block_dpus \in 0..(k - 1)
          BY <5>1, ShareOf
        <5>3. QED BY <5>2
      <4>2. QED BY <1>1, <1>5, <2>1, <4>1
    <3>5. QED BY <1>2, <1>5, <3>1, <3>2, <3>3, <3>4 DEF LayerData
  <2>4. CASE nr_iterations = 1
    <3>1. pc' = "convert" /\ nr_iterations' = 0
      BY <2>1, <2>4
    <3>2. from + h = blocks * size
      <4>1. PICK s \in Nat : start' = s * size' /\ s + nr_iterations' * per_iteration_blocks' = blocks'
        BY <3>1 DEF LayerPlan, LayerStart
      <4>2. s = blocks
        BY <1>1, <1>4, <3>1, <4>1
      <4>3. QED BY <1>1, <2>2, <4>1, <4>2
    <3>3. \A e \in Layer!Elements : e < from + h
      <4> DEFINE x == blocks * size
      <4>1. Layer!Elements = 0..(x - 1) /\ from + h = x /\ x \in Int
        BY <1>1, <1>4, <3>2, LayerNumbers
      <4> HIDE DEF x, from, h
      <4>2. QED BY <4>1
    <3>4. converted' = Layer!NewXp
      BY <1>3, <3>3 DEF Layer!NewXp
    <3>5. QED BY <1>1, <1>2, <1>5, <2>1, <3>1, <3>4, LayerDataFrame DEF LayerData
  <2>5. QED BY <2>3, <2>4
<1>10. n = 1 \/ (n = 2 /\ i + 1 < k) \/ (n = 2 /\ i + 1 = k)
  BY <1>2, <1>4
<1>11. QED BY <1>7, <1>8, <1>9, <1>10

LayerInv == LayerPlan /\ LayerData

\* Every step of a layer method keeps its whole invariant, plan and data.
LEMMA LayerStep == ASSUME PowersOfTwo, LayerInv, [Layer!Next]_(Layer!vars) PROVE LayerInv'
<1>1. LayerPlan /\ LayerData /\ LayerPlan'
  BY LayerPlanStep DEF LayerInv
<1>2. LayerData'
  BY <1>1, LayerPlanningData, LayerSendData, LayerLaunchData, LayerRunData, LayerReturnData,
     LayerReadData, LayerConvertData, LayerStutterData
     DEF Layer!Next, Layer!Host, Layer!Stopped
<1>3. QED BY <1>1, <1>2 DEF LayerInv

\* The invariant gives what is checked of the plan: no butterfly is left out.
LEMMA LayerCovers == ASSUME PowersOfTwo, LayerInv PROVE Layer!PlanCovers
<1>1. SUFFICES ASSUME pc \notin {"plan_iterations", "plan_dpus", "abort"}
               PROVE  /\ Layer!nr_dpus \in 1..NR_DPUS
                      /\ Layer!per_dpu_size >= 4
                      /\ Layer!per_dpu_size * per_block_dpus = Layer!half
                      /\ start + nr_iterations * per_iteration_blocks * size = blocks * size
  BY DEF Layer!PlanCovers
<1>2. LayerPlan /\ NR_DPUS \in Nat
  BY MCConstants DEF LayerInv, Layer!LayersConstants
<1>3. Layer!nr_dpus \in 1..NR_DPUS
  <2>1. per_block_dpus * per_iteration_blocks \in Nat \ {0}
    <3>1. per_block_dpus \in Nat \ {0} /\ per_iteration_blocks \in Nat \ {0}
      BY <1>1, <1>2, LayerNumbers
    <3>2. QED BY <3>1
  <2>2. QED BY <1>1, <1>2, <2>1 DEF LayerPlan, Layer!nr_dpus
<1>4. Layer!per_dpu_size >= 4 /\ Layer!per_dpu_size * per_block_dpus = Layer!half
  <2> DEFINE q == Layer!per_dpu_size
  <2>1. q \in Nat /\ per_block_dpus \in Nat /\ per_block_dpus * q = Layer!half /\ q >= 4
    BY <1>1, <1>2, LayerNumbers DEF LayerPlan
  <2> HIDE DEF q
  <2>2. q * per_block_dpus = per_block_dpus * q
    BY <2>1
  <2>3. QED BY <2>1, <2>2 DEF q
<1>5. start + nr_iterations * per_iteration_blocks * size = blocks * size
  <2>1. PICK s \in Nat : start = s * size /\ s + nr_iterations * per_iteration_blocks = blocks
    BY <1>1, <1>2 DEF LayerPlan, LayerStart
  <2>2. size \in Nat /\ nr_iterations \in Nat /\ per_iteration_blocks \in Nat
    BY <1>1, <1>2, LayerNumbers DEF LayerPlan
  <2>3. s * size + (nr_iterations * per_iteration_blocks) * size = (s + nr_iterations * per_iteration_blocks) * size
    BY <2>1, <2>2
  <2>4. QED BY <2>1, <2>2, <2>3
<1>6. QED BY <1>3, <1>4, <1>5

\* And of the transfers: a DPU is sent all that its program reads before it is launched.
LEMMA LayerMeets == ASSUME PowersOfTwo, LayerInv PROVE Layer!TransfersMeet
<1>1. SUFFICES ASSUME pc = "wait", running = Layer!Dpus, NEW d \in Layer!Dpus
               PROVE  /\ mram[d].butterfly0 = (d % per_block_dpus = 0)
                      /\ mram[d].size = Layer!per_dpu_size
                      /\ \A k \in 0..(Layer!per_dpu_size - 1) :
                           /\ mram[d].xp0[k] = Given(Layer!FirstOf(d, k))
                           /\ mram[d].xp1[k] = Given(Layer!FirstOf(d, k) + Layer!half)
                           /\ mram[d].wtab[k] = Factor((d % per_block_dpus) * Layer!per_dpu_size + k)
  BY DEF Layer!TransfersMeet
<1>2. LayerReady(d)
  BY <1>1 DEF LayerInv, LayerData
<1>3. /\ mram[d]["xp0"] = LayerWant(1, d) /\ mram[d]["xp1"] = LayerWant(2, d)
      /\ mram[d]["wtab"] = LayerWant(3, d) /\ mram[d]["butterfly0"] = LayerWant(4, d)
  <2>1. LayerSent(d, 1) /\ LayerSent(d, 2) /\ LayerSent(d, 3) /\ LayerSent(d, 4)
    BY <1>2 DEF LayerReady
  <2>2. QED BY <2>1, LayerTransfers DEF LayerSent
<1>4. /\ LayerWant(1, d) = [k \in LayerShare |-> Given(Layer!FirstOf(d, k))]
      /\ LayerWant(2, d) = [k \in LayerShare |-> Given(Layer!FirstOf(d, k) + Layer!half)]
      /\ LayerWant(3, d) = [k \in LayerShare |-> Factor((d % per_block_dpus) * Layer!per_dpu_size + k)]
      /\ LayerWant(4, d) = (d % per_block_dpus = 0)
  BY DEF LayerWant
<1>5. /\ mram[d].xp0 = LayerWant(1, d) /\ mram[d].xp1 = LayerWant(2, d)
      /\ mram[d].wtab = LayerWant(3, d) /\ mram[d].butterfly0 = LayerWant(4, d)
  BY <1>3
<1>6. mram[d].size = Layer!per_dpu_size
  BY <1>2 DEF LayerReady
<1>7. ASSUME NEW k \in 0..(Layer!per_dpu_size - 1)
      PROVE  /\ mram[d].xp0[k] = Given(Layer!FirstOf(d, k))
             /\ mram[d].xp1[k] = Given(Layer!FirstOf(d, k) + Layer!half)
             /\ mram[d].wtab[k] = Factor((d % per_block_dpus) * Layer!per_dpu_size + k)
  BY <1>4, <1>5 DEF LayerShare
<1>8. QED BY <1>4, <1>5, <1>6, <1>7

\* The caller's array changes once, from the old one to the one the layer makes of it.
LEMMA LayerReplaces ==
  ASSUME PowersOfTwo, LayerInv, LayerInv', [Layer!Next]_(Layer!vars)
  PROVE  /\ UNCHANGED <<LayerOld, Layer!NewXp>>
         /\ caller' = caller \/ (caller = LayerOld /\ caller' = Layer!NewXp)
<1>1. UNCHANGED <<blocks, size>>
  BY DEF Layer!Next, Layer!Host, Layer!PlanIterations, Layer!PlanDpus, Layer!Alloc, Layer!Send, Layer!Launch,
         Layer!Return, Layer!Read, Layer!Convert, Layer!RunDpu, Layer!Stopped, Layer!vars, Layer!call
<1>2. UNCHANGED <<LayerOld, Layer!NewXp>>
  BY <1>1 DEF LayerOld, Layer!NewXp, Layer!NewElement, Layer!half, Layer!Elements
<1>3. CASE Layer!Convert
  <2>1. pc = "convert" /\ pc' = "done"
    BY <1>3 DEF Layer!Convert
  <2>2. QED BY <1>2, <2>1 DEF LayerInv, LayerData
<1>4. CASE ~Layer!Convert
  BY <1>2, <1>4
     DEF Layer!Next, Layer!Host, Layer!PlanIterations, Layer!PlanDpus, Layer!Alloc, Layer!Send, Layer!Launch,
         Layer!Return, Layer!Read, Layer!RunDpu, Layer!Stopped, Layer!vars
<1>5. QED BY <1>2, <1>3, <1>4
--------------------------------------------------------------------------------
(***************************************************************************)
(* A layer in one launch of the programs for several tasklets (FftLayer2). *)
(***************************************************************************)

\* Halving the tasklets leaves a power of two, or at last none.
LEMMA HalvingsAre ==
  ASSUME PowersOfTwo
  PROVE  /\ NR_TASKLETS \in Powers /\ NR_TASKLETS \in Nat \ {0} /\ NR_TASKLETS \in Halvings
         /\ \A m \in Halvings : m \in Nat /\ m <= NR_TASKLETS /\ (m = 0 \/ m \in Powers)
<1>1. PICK e \in 0..8 : NR_TASKLETS = 2^e
  BY DEF PowersOfTwo
<1>2. NR_TASKLETS \in Powers /\ NR_TASKLETS \in Nat \ {0}
  <2>1. e \in Nat
    OBVIOUS
  <2>2. QED BY <1>1, <2>1, TaskletsAssumption DEF Powers
<1>3. ASSUME NEW m \in Halvings PROVE m \in Nat /\ m <= NR_TASKLETS /\ (m = 0 \/ m \in Powers)
  <2>1. PICK h \in 0..8 : m = NR_TASKLETS \div 2^h
    BY DEF Halvings
  <2> DEFINE x == 2^h
  <2>2. x \in Powers /\ x \in Nat \ {0} /\ m = NR_TASKLETS \div x
    BY <2>1, PowersAre DEF Powers
  <2> HIDE DEF x
  <2>3. CASE x <= NR_TASKLETS
    <3>1. m \in Powers /\ NR_TASKLETS = x * m
      BY <1>2, <2>2, <2>3, PowersDivide
    <3>2. m \in Nat /\ x * m = m + (x - 1) * m /\ (x - 1) * m >= 0
      <4>1. m \in Nat
        BY <3>1, PowersAre
      <4>2. QED BY <2>2, <4>1
    <3> DEFINE y == (x - 1) * m
    <3>3. NR_TASKLETS = m + y /\ y >= 0 /\ y \in Int
      BY <2>2, <3>1, <3>2
    <3> HIDE DEF y
    <3>4. QED BY <1>2, <3>1, <3>2, <3>3
  <2>4. CASE NR_TASKLETS < x
    <3>1. (x * 0 + NR_TASKLETS) \div x = 0
      BY <1>2, <2>2, <2>4, PlaceInShare
    <3>2. QED BY <1>2, <2>2, <3>1
  <2>5. QED BY <1>2, <2>2, <2>3, <2>4
<1>4. NR_TASKLETS \in Halvings
  <2>1. 2^0 = 1 /\ NR_TASKLETS \div 1 = NR_TASKLETS
    BY <1>2
  <2>2. NR_TASKLETS \div 2^0 \in Halvings
    BY DEF Halvings
  <2>3. QED BY <2>1, <2>2
<1>5. QED BY <1>2, <1>3, <1>4

\* The number of tasklets that is left is a power of two, and not more than
\* there are groups of four butterflies.
LEMMA KernelTasklets ==
  ASSUME PowersOfTwo, NEW l, l.blocks \in Powers, l.size \in Powers, Butterflies(l) >= BLOCK_SIZE
  PROVE  /\ NrTasklets(l) \in Powers /\ NrTasklets(l) \in 1..NR_TASKLETS
         /\ NrTasklets(l) * BLOCK_SIZE <= Butterflies(l)
<1> DEFINE t == Butterflies(l)
           g == t \div 4
<1>1. /\ 4 \in Powers /\ t \in Powers /\ t \in Nat \ {0} /\ BLOCK_SIZE = 4
  <2>1. 2 * 2 \in Powers /\ 2 * 2 = 4
    BY PowersAre
  <2>2. QED BY <2>1, PowersTimes, PowersAre DEF Butterflies, BLOCK_SIZE
<1>2. g \in Powers /\ t = 4 * g /\ g \in Nat \ {0}
  BY <1>1, PowersDivide, PowersAre
<1>3. PICK e \in 0..8 : NR_TASKLETS = 2^e
  BY DEF PowersOfTwo
<1>4. NR_TASKLETS \in Powers /\ NR_TASKLETS \in Nat \ {0} /\ NR_TASKLETS \in Halvings
  BY HalvingsAre
<1> HIDE DEF t, g
<1>5. ASSUME NEW m \in Halvings PROVE m \in Nat /\ m <= NR_TASKLETS /\ (m = 0 \/ m \in Powers)
  BY HalvingsAre
<1>6. \E w \in Halvings : w > 0 /\ w <= g /\ \A m \in Halvings : m <= g => m <= w
  <2>1. CASE NR_TASKLETS <= g
    BY <1>4, <1>5, <2>1
  <2>2. CASE g < NR_TASKLETS
    <3>1. PICK f \in Nat : g = 2^f
      BY <1>2 DEF Powers
    <3>2. f < e
      <4>1. SUFFICES ASSUME e <= f PROVE FALSE
        BY <3>1
      <4>2. f - e \in Nat /\ e + (f - e) = f
        BY <4>1
      <4>3. 2^f = 2^e * 2^(f - e) /\ 2^(f - e) \in Nat \ {0}
        BY <4>2, PowerSum, PowerPositive
      <4> DEFINE z == 2^(f - e)
      <4>4. g = NR_TASKLETS * z /\ z \in Nat \ {0}
        BY <1>3, <3>1, <4>3
      <4> HIDE DEF z
      <4>5. NR_TASKLETS * z = NR_TASKLETS + NR_TASKLETS * (z - 1) /\ NR_TASKLETS * (z - 1) >= 0
        BY <1>4, <4>4
      <4>6. QED BY <1>2, <1>4, <2>2, <4>4, <4>5
    <3>3. e - f \in 0..8 /\ (e - f) + f = e /\ e - f \in Nat
      BY <3>2
    <3>4. 2^e = 2^(e - f) * 2^f /\ 2^(e - f) \in Nat \ {0}
      BY <3>3, PowerSum, PowerPositive
    <3> DEFINE z == 2^(e - f)
    <3>5. NR_TASKLETS = z * g /\ z \in Nat \ {0} /\ NR_TASKLETS \div z \in Halvings
      BY <1>3, <3>1, <3>3, <3>4 DEF Halvings
    <3> HIDE DEF z
    <3>6. NR_TASKLETS \div z = g
      BY <1>2, <3>5, ExactDiv
    <3>7. QED BY <1>2, <3>5, <3>6
  <2>3. QED BY <1>2, <1>4, <2>1, <2>2
<1> DEFINE nt == NrTasklets(l)
<1>7. nt \in Halvings /\ nt <= g /\ \A m \in Halvings : m <= g => m <= nt
  BY <1>1, <1>6 DEF NrTasklets, t, g
<1> HIDE DEF nt
<1>8. nt > 0
  BY <1>5, <1>6, <1>7
<1>9. nt \in Powers /\ nt \in 1..NR_TASKLETS
  BY <1>4, <1>5, <1>7, <1>8
<1>10. nt * 4 <= t
  BY <1>2, <1>5, <1>7
<1>11. QED BY <1>1, <1>9, <1>10 DEF nt, t

\* A launch of powers of two gives its tasklets equal shares, as the program of the DPU assumes.
LEMMA KernelShares ==
  ASSUME PowersOfTwo, NEW l, l.blocks \in Powers, l.size \in Powers, l.size >= 4
  PROVE  WholeShares(l)
<1> DEFINE b == l.blocks
           s == l.size
           nt == NrTasklets(l)
<1>1. b \in Nat \ {0} /\ s \in Nat \ {0} /\ 4 \in Powers
  <2>1. 2 * 2 \in Powers /\ 2 * 2 = 4
    BY PowersAre
  <2>2. QED BY <2>1, PowersAre
<1>2. Butterflies(l) >= BLOCK_SIZE
  <2> HIDE DEF b, s
  <2>1. b * s = s + (b - 1) * s /\ (b - 1) * s >= 0
    BY <1>1
  <2>2. b * s >= 4
    BY <1>1, <2>1 DEF s
  <2>3. QED BY <2>2 DEF Butterflies, BLOCK_SIZE, b, s
<1>3. nt \in Powers /\ nt \in 1..NR_TASKLETS /\ nt * 4 <= b * s
  BY <1>2, KernelTasklets DEF BLOCK_SIZE, Butterflies
<1>4. ASSUME NEW x \in Powers, x >= 4 PROVE x > 0 /\ x % 4 = 0
  <2>1. x \div 4 \in Powers /\ x = 4 * (x \div 4) /\ x \in Nat
    BY <1>1, <1>4, PowersDivide, PowersAre
  <2> DEFINE y == x \div 4
  <2>2. y \in Nat
    BY <2>1, PowersAre
  <2>3. (4 * y) % 4 = 0
    BY <2>2, ExactMod
  <2>4. QED BY <1>4, <2>1, <2>3
<1>5. /\ nt \div b \in Nat
      /\ nt \div b > 0 =>
           /\ nt = b * (nt \div b)
           /\ s = (nt \div b) * (s \div (nt \div b))
           /\ s \div (nt \div b) \in Powers /\ s \div (nt \div b) >= 4
      /\ ~(nt \div b > 0) => b = nt * (b \div nt)
  <2> HIDE DEF nt, b, s
  <2>1. b \in Powers /\ s \in Powers
    BY DEF b, s
  <2>2. QED BY <1>1, <1>3, <2>1, PowerShares
<1> HIDE DEF nt
<1>6. QED
  BY <1>1, <1>3, <1>4, <1>5
     DEF WholeShares, SharedBlocks, PerBlockTasklets, PerTaskletBlocks, PerTaskletSize, BLOCK_SIZE, nt

\* So does a launch of one block of a multiple of four butterflies for every tasklet.
LEMMA KernelMultiples ==
  ASSUME PowersOfTwo, NEW l, l.blocks = 1, l.size \in Nat \ {0},
         l.size % (BLOCK_SIZE * NR_TASKLETS) = 0
  PROVE  WholeShares(l)
<1> DEFINE s == l.size
           q == s \div (4 * NR_TASKLETS)
<1>1. /\ NR_TASKLETS \in Nat \ {0} /\ NR_TASKLETS \in Halvings
      /\ \A m \in Halvings : m \in Nat /\ m <= NR_TASKLETS
  BY HalvingsAre
<1>2. 4 * NR_TASKLETS \in Nat \ {0} /\ s \in Nat \ {0} /\ s % (4 * NR_TASKLETS) = 0
  BY <1>1 DEF BLOCK_SIZE
<1>3. q \in Nat /\ s = (4 * NR_TASKLETS) * q
  <2>1. q \in Nat /\ s = (4 * NR_TASKLETS) * q + (s % (4 * NR_TASKLETS))
    BY <1>2, NatQuotients
  <2> HIDE DEF q, s
  <2>2. (4 * NR_TASKLETS) * q \in Nat
    BY <1>1, <2>1
  <2>3. QED BY <1>2, <2>1, <2>2
<1> HIDE DEF q, s
<1>4. q \in Nat \ {0}
  BY <1>1, <1>2, <1>3
<1> DEFINE c == 4 * q
           g == NR_TASKLETS * q
<1>5. c \in Nat \ {0} /\ c % 4 = 0 /\ g \in Nat
  BY <1>1, <1>4, ExactMod
<1>6. s = NR_TASKLETS * c /\ s = 4 * g
  BY <1>1, <1>3, <1>4
<1>7. s \div 4 = g /\ s \div NR_TASKLETS = c
  <2> HIDE DEF c, g
  <2>1. (4 * g) \div 4 = g /\ (NR_TASKLETS * c) \div NR_TASKLETS = c
    BY <1>1, <1>5, ExactDiv
  <2>2. QED BY <1>6, <2>1
<1>8. NR_TASKLETS <= g
  <2>1. NR_TASKLETS * q = NR_TASKLETS + NR_TASKLETS * (q - 1) /\ NR_TASKLETS * (q - 1) >= 0
    BY <1>1, <1>4
  <2> DEFINE y == NR_TASKLETS * (q - 1)
  <2>2. g = NR_TASKLETS + y /\ y >= 0 /\ y \in Int
    BY <1>1, <1>4, <2>1
  <2> HIDE DEF y, g
  <2>3. QED BY <1>1, <2>2
<1>9. Butterflies(l) \div BLOCK_SIZE = g
  <2>1. Butterflies(l) = s
    BY <1>2 DEF Butterflies, s
  <2>2. QED BY <1>7, <2>1 DEF BLOCK_SIZE
<1> HIDE DEF c, g
<1> DEFINE nt == NrTasklets(l)
<1>10. nt \in Halvings /\ nt <= g /\ \A m \in Halvings : m <= g => m <= nt
  <2>1. NR_TASKLETS \in Halvings /\ NR_TASKLETS <= g /\ \A m \in Halvings : m <= g => m <= NR_TASKLETS
    BY <1>1, <1>8
  <2>2. QED BY <1>9, <2>1 DEF NrTasklets
<1> HIDE DEF nt
<1>11. nt = NR_TASKLETS
  BY <1>1, <1>8, <1>10
<1>12. /\ PerBlockTasklets(l) = NR_TASKLETS /\ SharedBlocks(l) /\ PerTaskletSize(l) = c
  <2>1. NR_TASKLETS \div 1 = NR_TASKLETS
    BY <1>1
  <2>2. PerBlockTasklets(l) = NR_TASKLETS
    BY <1>11, <2>1 DEF PerBlockTasklets, nt
  <2>3. QED BY <1>1, <1>7, <2>2 DEF SharedBlocks, PerTaskletSize, s
<1>13. QED
  BY <1>1, <1>5, <1>6, <1>11, <1>12 DEF WholeShares, BLOCK_SIZE, nt, s

\* With whole shares of one block every butterfly is computed by one tasklet, and by no other.
LEMMA BlockDivides ==
  ASSUME NEW l, l.blocks = 1, l.size \in Nat \ {0}, WholeShares(l)
  PROVE  MissedPlaces(l) = {} /\ RacedPlaces(l) = {}
<1> DEFINE nt == NrTasklets(l)
           c == PerTaskletSize(l)
           s == l.size
<1>1. nt \in Nat \ {0}
  BY TaskletsAssumption DEF WholeShares
<1>2. PerBlockTasklets(l) = nt /\ SharedBlocks(l)
  <2>1. PerBlockTasklets(l) = nt \div 1
    BY DEF PerBlockTasklets
  <2> HIDE DEF nt
  <2>2. QED BY <1>1, <2>1 DEF SharedBlocks
<1>3. s = nt * c /\ c > 0 /\ c % 4 = 0 /\ c = s \div nt
  BY <1>2 DEF WholeShares, PerTaskletSize, BLOCK_SIZE
<1> HIDE DEF nt, c, s
<1>4. c \in Nat \ {0} /\ s \in Nat \ {0}
  <2>1. s \in Nat \ {0}
    BY DEF s
  <2>2. QED BY <1>1, <1>3, <2>1, NatQuotients
<1>5. PICK g \in Nat : c = 4 * g
  BY <1>3, <1>4, NatQuotients
<1>6. Butterflies(l) = s /\ Calls(l) = 1
  BY <1>2, <1>4 DEF Butterflies, Calls, s
<1>7. ASSUME NEW t \in 0..(nt - 1), NEW e PROVE CallStart(t, e, l) = t * c
  <2>1. (nt * 0 + t) \div nt = 0 /\ (nt * 0 + t) % nt = t
    BY <1>1, PlaceInShare
  <2>2. t \div nt = 0 /\ t % nt = t
    BY <1>1, <2>1
  <2>3. CallStart(t, e, l) = 0 * s + t * c
    BY <1>2, <2>2 DEF CallStart, c, s
  <2>4. QED BY <1>4, <2>3
<1>8. ASSUME NEW t \in 0..(nt - 1), NEW e, NEW k \in Nat
      PROVE  Computes(t, e, k, l) <=> t * c <= k /\ k < t * c + c
  <2> DEFINE b == t * c
             j == k - b
  <2>1. b \in Nat
    BY <1>4
  <2>2. Computes(t, e, k, l) <=> j >= 0 /\ (j < 4 \/ (j \div 4) * 4 < c)
    BY <1>7 DEF Computes, BLOCK_SIZE, c
  <2> HIDE DEF b
  <2>3. ASSUME j >= 0 PROVE (j < 4 \/ (j \div 4) * 4 < c) <=> j < c
    <3>1. j \in Nat
      BY <2>1, <2>3
    <3> HIDE DEF j
    <3>2. j \div 4 \in Nat /\ j = 4 * (j \div 4) + (j % 4) /\ j % 4 \in 0..3
      BY <3>1, NatQuotients
    <3>3. QED BY <1>4, <1>5, <3>1, <3>2
  <2>4. QED BY <1>4, <2>1, <2>2, <2>3 DEF b
<1>9. ASSUME NEW k \in 0..(s - 1) PROVE Computing(k, l) = {t \in 0..(nt - 1) : t * c <= k /\ k < t * c + c}
  <2>1. 0..(Calls(l) - 1) = {0}
    BY <1>6
  <2>2. QED BY <1>4, <1>8, <2>1 DEF Computing, nt
<1>10. MissedPlaces(l) = {}
  <2>1. ASSUME NEW k \in 0..(s - 1) PROVE Computing(k, l) # {}
    <3>1. k \in Nat /\ k < nt * c
      BY <1>3, <1>4
    <3>2. \E t \in 0..(nt - 1) : t * c <= k /\ k < t * c + c
      BY <1>1, <1>4, <3>1, SharesCover
    <3>3. QED BY <1>9, <3>2
  <2>2. QED BY <1>6, <2>1 DEF MissedPlaces
<1>11. RacedPlaces(l) = {}
  <2>1. ASSUME NEW k \in 0..(s - 1), NEW t \in Computing(k, l), NEW u \in Computing(k, l) PROVE t = u
    <3>1. /\ t \in Nat /\ u \in Nat /\ t * c <= k /\ k < t * c + c /\ u * c <= k /\ k < u * c + c
      BY <1>1, <1>9
    <3>2. ASSUME NEW a \in Nat, NEW b \in Nat, a < b, b * c <= k PROVE ~(k < a * c + c)
      <4>1. a * c + c <= b * c /\ a * c \in Nat /\ b * c \in Nat
        BY <1>4, <3>2, SharesApart
      <4> DEFINE x == a * c
                 y == b * c
      <4>2. x + c <= y /\ x \in Nat /\ y \in Nat /\ y <= k
        BY <3>2, <4>1
      <4> HIDE DEF x, y
      <4>3. ~(k < x + c)
        BY <1>4, <4>2
      <4>4. QED BY <4>3 DEF x
    <3>3. ~(t < u) /\ ~(u < t)
      BY <3>1, <3>2
    <3>4. QED BY <3>1, <3>3
  <2>2. QED BY <1>6, <2>1 DEF RacedPlaces
<1>12. QED BY <1>10, <1>11

(***************************************************************************)
(* The plan: several DPUs to a block, or several blocks to a DPU.          *)
(***************************************************************************)
Layer2Plan ==
  /\ LayerCall
  /\ nr_dpus \in Powers
  /\ pc # "plan" => nr_dpus * 4 <= blocks * Layer!half

\* The second layer method's plan once it is made: how many DPUs a block has, or how many blocks a
\* DPU.
LEMMA Layer2Numbers ==
  ASSUME Layer2Plan, pc # "plan"
  PROVE  /\ blocks \in Nat \ {0} /\ size \in Nat \ {0} /\ size = 2 * Layer!half
         /\ Layer!half \in Nat \ {0} /\ nr_dpus \in Nat \ {0}
         /\ Layer2!per_dpu_size \in Nat \ {0}
         /\ Layer2!per_dpu_size \in Powers /\ Layer2!per_dpu_size >= 4
         /\ Layer2!Shared =>
              /\ Layer2!per_block_dpus \in Nat \ {0}
              /\ nr_dpus = Layer2!per_block_dpus * blocks
              /\ Layer2!per_block_dpus * Layer2!per_dpu_size = Layer!half
         /\ ~Layer2!Shared =>
              /\ Layer2!per_dpu_size = Layer!half
              /\ Layer2!per_dpu_blocks \in Nat \ {0} /\ Layer2!per_dpu_blocks >= 2
              /\ Layer2!per_dpu_blocks \in Powers
              /\ nr_dpus * Layer2!per_dpu_blocks = blocks
<1> DEFINE h == Layer!half
<1>1. /\ blocks \in Powers /\ h \in Powers /\ nr_dpus \in Powers /\ 4 \in Powers
      /\ nr_dpus * 4 <= blocks * h
  <2>1. 2 * 2 \in Powers /\ 2 * 2 = 4
    BY PowersAre
  <2>2. QED BY <2>1, LayerShape DEF Layer2Plan, LayerCall
<1>2. /\ blocks \in Nat \ {0} /\ size \in Nat \ {0} /\ size = 2 * h /\ h \in Nat \ {0} /\ h >= 4
      /\ nr_dpus \in Nat \ {0}
  BY <1>1, LayerShape, PowersAre DEF Layer2Plan
<1>3. /\ nr_dpus \div blocks \in Nat
      /\ nr_dpus \div blocks > 0 =>
           /\ nr_dpus = blocks * (nr_dpus \div blocks)
           /\ h = (nr_dpus \div blocks) * (h \div (nr_dpus \div blocks))
           /\ h \div (nr_dpus \div blocks) \in Powers /\ h \div (nr_dpus \div blocks) >= 4
      /\ ~(nr_dpus \div blocks > 0) =>
           /\ blocks \div nr_dpus \in Powers /\ blocks \div nr_dpus >= 2
           /\ blocks = nr_dpus * (blocks \div nr_dpus)
  <2> HIDE DEF h
  <2>1. QED BY <1>1, PowerShares
<1> DEFINE p == nr_dpus \div blocks
           q == h \div p
           b == blocks \div nr_dpus
<1>4. /\ Layer2!Shared <=> p > 0
      /\ Layer2!per_block_dpus = p /\ Layer2!per_dpu_blocks = b
      /\ Layer2!per_dpu_size = IF p > 0 THEN q ELSE h
  BY SameLayer DEF Layer2!Shared, Layer2!per_block_dpus, Layer2!per_dpu_blocks, Layer2!per_dpu_size
<1> HIDE DEF h
<1>5. CASE p > 0
  <2>1. nr_dpus = blocks * p /\ h = p * q /\ q \in Powers /\ q >= 4 /\ p \in Nat
    BY <1>3, <1>5
  <2> HIDE DEF p, q
  <2>2. q \in Nat \ {0} /\ blocks * p = p * blocks
    BY <1>2, <2>1, PowersAre
  <2>3. QED BY <1>2, <1>4, <1>5, <2>1, <2>2 DEF h
<1>6. CASE ~(p > 0)
  <2>1. b \in Powers /\ b >= 2 /\ blocks = nr_dpus * b
    BY <1>3, <1>6
  <2> HIDE DEF p, b
  <2>2. b \in Nat \ {0}
    BY <2>1, PowersAre
  <2>3. QED BY <1>1, <1>2, <1>4, <1>6, <2>1, <2>2 DEF h
<1>7. QED BY <1>5, <1>6

\* Every step of the second layer method keeps its plan.
LEMMA Layer2PlanStep ==
  ASSUME PowersOfTwo, Layer2Plan, [Layer2!Next]_(Layer2!vars) PROVE Layer2Plan'
<1>1. CASE Layer2!Plan
  <2> DEFINE t == blocks * size
  <2>1. /\ UNCHANGED <<blocks, size>> /\ LayerCall /\ nr_dpus \in Powers
    BY <1>1 DEF Layer2!Plan, Layer2!call, Layer2Plan
  <2>2. /\ t \in Powers /\ t \in Nat /\ 8 \in Powers /\ 8 <= t
    <3>1. 2 * 2 \in Powers /\ 2 * 2 = 4 /\ 2 * 4 = 8
      BY PowersAre
    <3>2. 2 * 4 \in Powers
      BY <3>1, PowersAre
    <3>3. t \in Powers /\ t \in Nat
      BY <2>1, PowersTimes, PowersAre DEF LayerCall
    <3>4. blocks * size = size + (blocks - 1) * size /\ (blocks - 1) * size >= 0
      BY <2>1, LayerShape
    <3> DEFINE x == (blocks - 1) * size
    <3>5. t = size + x /\ x >= 0 /\ x \in Int /\ size \in Nat /\ size >= 8
      BY <2>1, <3>4, LayerShape DEF LayerCall
    <3> HIDE DEF t, x
    <3>6. QED BY <3>1, <3>2, <3>3, <3>5
  <2>3. /\ t \div 8 \in Powers /\ t = 8 * (t \div 8)
    BY <2>2, PowersDivide
  <2>4. t \div 8 \in Nat \ {0} /\ nr_dpus \in Nat \ {0}
    BY <2>1, <2>3, PowersAre
  <2>5. LayerCall' /\ Layer!half' = Layer!half
    BY <2>1 DEF LayerCall, Layer!half
  <2>6. CASE nr_dpus > t \div 8
    <3>1. nr_dpus' = nr_dpus \div 2 /\ pc' = "plan"
      BY <1>1, <2>6 DEF Layer2!Plan
    <3>2. nr_dpus # 1
      BY <2>4, <2>6
    <3>3. nr_dpus \div 2 \in Powers
      BY <2>1, <3>2, PowersHalve
    <3>4. QED BY <2>5, <3>1, <3>3 DEF Layer2Plan
  <2>7. CASE ~(nr_dpus > t \div 8)
    <3>1. nr_dpus' = nr_dpus
      BY <1>1, <2>7 DEF Layer2!Plan
    <3>2. t = 2 * (blocks * Layer!half)
      BY <2>1, LayerShape
    <3>3. blocks * Layer!half \in Nat
      BY <2>1, LayerShape
    <3> DEFINE x == blocks * Layer!half
               y == t \div 8
    <3>4. 2 * x = 8 * y /\ nr_dpus <= y /\ y \in Nat /\ x \in Nat /\ nr_dpus \in Nat
      BY <2>3, <2>4, <2>7, <3>2, <3>3
    <3> HIDE DEF x, y
    <3>5. nr_dpus * 4 <= x
      BY <3>4
    <3>6. QED BY <2>1, <2>5, <3>1, <3>5 DEF Layer2Plan, x
  <2>8. QED BY <2>6, <2>7
<1>2. CASE UNCHANGED <<blocks, size, nr_dpus>> /\ (pc' # "plan" => pc # "plan")
  BY <1>2 DEF Layer2Plan, LayerCall, Layer!half
<1>3. QED
  BY <1>1, <1>2
     DEF Layer2!Next, Layer2!Host, Layer2!Alloc, Layer2!SendShared, Layer2!SendBlocks, Layer2!Launch,
         Layer2!Return, Layer2!ReadShared, Layer2!ReadBlocks, Layer2!Convert, Layer2!RunDpu, Layer2!Stopped,
         Layer2!vars, Layer2!call

(***************************************************************************)
(* The data when several DPUs share a block: DPU d has a part of block     *)
(* d \div per_block_dpus, as in an iteration of FftLayer.                  *)
(***************************************************************************)
Layer2Fields == {"xp0", "xp1", "wtab", "butterfly0", "blocks", "size"}
Layer2Layout == DOMAIN mram = Layer2!Dpus /\ \A d \in Layer2!Dpus : DOMAIN mram[d] = Layer2Fields

SharedShare == 0..(Layer2!per_dpu_size - 1)
SharedPlace(d, k) == (d % Layer2!per_block_dpus) * Layer2!per_dpu_size + k
SharedFirst(d, k) == (d \div Layer2!per_block_dpus) * size + SharedPlace(d, k)
SharedWant(m, d) ==
  CASE m = 1 -> [k \in SharedShare |-> Given(SharedFirst(d, k))]
    [] m = 2 -> [k \in SharedShare |-> Given(SharedFirst(d, k) + Layer!half)]
    [] m = 3 -> [k \in SharedShare |-> Factor(SharedPlace(d, k))]
    [] m = 4 -> (d % Layer2!per_block_dpus) = 0
SharedSent(d, m) == mram[d][Layer2!Transfers[m]] = SharedWant(m, d)
SharedComputed(d) ==
  /\ mram[d].xp0 = [k \in SharedShare |-> Layer!NewElement(SharedFirst(d, k))]
  /\ mram[d].xp1 = [k \in SharedShare |-> Layer!NewElement(SharedFirst(d, k) + Layer!half)]

(***************************************************************************)
(* The data when a DPU has several blocks: block b is in the buffers of    *)
(* DPU BlockDpu(b) from BlockAt(b) on.                                     *)
(***************************************************************************)
BlockDpu(b) == b \div Layer2!per_dpu_blocks
BlockAt(b) == (b % Layer2!per_dpu_blocks) * Layer!half
Blocks == 0..(blocks - 1)
Holds(d, b, k) ==
  /\ BlockAt(b) + k \in DOMAIN mram[d].xp0 /\ BlockAt(b) + k \in DOMAIN mram[d].xp1
  /\ BlockAt(b) + k \in DOMAIN mram[d].wtab
BlockSent(b) ==
  \A k \in 0..(Layer!half - 1) :
    /\ Holds(BlockDpu(b), b, k)
    /\ mram[BlockDpu(b)].xp0[BlockAt(b) + k] = Given(b * size + k)
    /\ mram[BlockDpu(b)].xp1[BlockAt(b) + k] = Given(b * size + k + Layer!half)
    /\ mram[BlockDpu(b)].wtab[BlockAt(b) + k] = Factor(k)
BlockComputed(b) ==
  \A k \in 0..(Layer!half - 1) :
    /\ mram[BlockDpu(b)].xp0[BlockAt(b) + k] = Layer!NewElement(b * size + k)
    /\ mram[BlockDpu(b)].xp1[BlockAt(b) + k] = Layer!NewElement(b * size + k + Layer!half)

Told(d) ==
  /\ mram[d].size = Layer2!per_dpu_size
  /\ mram[d].blocks = IF Layer2!Shared THEN 1 ELSE Layer2!per_dpu_blocks
Layer2Ready(d) ==
  IF Layer2!Shared THEN \A m \in 1..4 : SharedSent(d, m)
  ELSE \A b \in Blocks : BlockDpu(b) = d => BlockSent(b)
Layer2Computed(d) ==
  IF Layer2!Shared THEN SharedComputed(d)
  ELSE \A b \in Blocks : BlockDpu(b) = d => BlockComputed(b)

Layer2Data ==
  /\ pc \in {"plan", "alloc", "send_shared", "send_blocks", "launch", "wait", "read_shared",
             "read_blocks", "convert", "done", "abort"}
  /\ caller = IF pc = "done" THEN Layer!NewXp ELSE LayerOld
  /\ pc # "wait" => running = {}
  /\ pc \notin {"send_shared", "read_shared"} => n = 1
  /\ pc \notin {"send_shared", "send_blocks", "read_shared", "read_blocks"} => i = 0
  /\ pc \in {"send_shared", "send_blocks", "launch", "wait"} => Layer2Layout /\ converted = LayerOld
  /\ pc = "send_shared" =>
       /\ Layer2!Shared /\ i \in Blocks /\ n \in 1..4
       /\ \A d \in Layer2!Dpus :
            \A m \in 1..4 :
              \/ d \div Layer2!per_block_dpus < i
              \/ d \div Layer2!per_block_dpus = i /\ m < n
              => SharedSent(d, m)
  /\ pc = "send_blocks" =>
       ~Layer2!Shared /\ i \in Blocks /\ \A b \in Blocks : b < i => BlockSent(b)
  /\ pc = "launch" => \A d \in Layer2!Dpus : Layer2Ready(d)
  /\ pc = "wait" =>
       /\ running \subseteq Layer2!Dpus
       /\ \A d \in Layer2!Dpus :
            Told(d) /\ (IF d \in running THEN Layer2Ready(d) ELSE Layer2Computed(d))
  /\ pc = "read_shared" =>
       /\ Layer2!Shared /\ i \in Blocks /\ n \in 1..2
       /\ LayerUpTo(i * size + (n - 1) * Layer!half)
       /\ \A d \in Layer2!Dpus : SharedComputed(d)
  /\ pc = "read_blocks" =>
       /\ ~Layer2!Shared /\ i \in Blocks
       /\ LayerUpTo(i * size)
       /\ \A b \in Blocks : BlockComputed(b)
  /\ pc = "convert" => converted = Layer!NewXp

\* At the call the plan is not made and no DPU holds anything.
LEMMA Layer2Init == PowersOfTwo /\ Layer2!Init => Layer2Plan /\ Layer2Data
<1>1. SUFFICES ASSUME PowersOfTwo, Layer2!Init PROVE Layer2Plan /\ Layer2Data
  OBVIOUS
<1>2. LayerCall
  BY <1>1, LayerArguments DEF Layer2!Init
<1>3. Layer2Plan
  BY <1>1, <1>2 DEF Layer2!Init, Layer2Plan, PowersOfTwo
<1>4. caller = LayerOld
  BY <1>1, SameLayer DEF Layer2!Init, LayerOld
<1>5. Layer2Data
  BY <1>1, <1>4 DEF Layer2!Init, Layer2Data
<1>6. QED BY <1>3, <1>5

\* While the call and the plan stay as they are, so does all that is computed from them.
LEMMA Layer2Frame ==
  ASSUME UNCHANGED <<blocks, size, nr_dpus>>
  PROVE  /\ Layer!half' = Layer!half /\ Layer!Elements' = Layer!Elements
         /\ LayerOld' = LayerOld /\ Layer!NewXp' = Layer!NewXp
         /\ \A e : Layer!NewElement(e)' = Layer!NewElement(e)
         /\ Layer2!Dpus' = Layer2!Dpus /\ Blocks' = Blocks
         /\ Layer2!per_block_dpus' = Layer2!per_block_dpus
         /\ Layer2!per_dpu_blocks' = Layer2!per_dpu_blocks
         /\ Layer2!per_dpu_size' = Layer2!per_dpu_size
         /\ (Layer2!Shared' <=> Layer2!Shared)
         /\ SharedShare' = SharedShare
         /\ \A d, k : SharedFirst(d, k)' = SharedFirst(d, k)
         /\ \A m, d : SharedWant(m, d)' = SharedWant(m, d)
         /\ \A b : BlockDpu(b)' = BlockDpu(b) /\ BlockAt(b)' = BlockAt(b)
<1>1. Layer!half' = Layer!half /\ Layer!Elements' = Layer!Elements /\ Layer2!half' = Layer2!half
  BY DEF Layer!half, Layer!Elements, Layer2!half
<1>2. \A e : Layer!NewElement(e)' = Layer!NewElement(e)
  BY <1>1 DEF Layer!NewElement
<1>3. LayerOld' = LayerOld /\ Layer!NewXp' = Layer!NewXp
  BY <1>1, <1>2 DEF LayerOld, Layer!NewXp
<1>4. /\ Layer2!Dpus' = Layer2!Dpus /\ Blocks' = Blocks
      /\ Layer2!per_block_dpus' = Layer2!per_block_dpus
      /\ Layer2!per_dpu_blocks' = Layer2!per_dpu_blocks
  BY DEF Layer2!Dpus, Blocks, Layer2!per_block_dpus, Layer2!per_dpu_blocks
<1>5. (Layer2!Shared' <=> Layer2!Shared) /\ Layer2!per_dpu_size' = Layer2!per_dpu_size
  BY <1>1, <1>4 DEF Layer2!Shared, Layer2!per_dpu_size
<1>6. SharedShare' = SharedShare /\ \A d, k : SharedPlace(d, k)' = SharedPlace(d, k)
  BY <1>4, <1>5 DEF SharedShare, SharedPlace
<1>7. \A d, k : SharedFirst(d, k)' = SharedFirst(d, k)
  BY <1>4, <1>6 DEF SharedFirst
<1>8. \A m, d : SharedWant(m, d)' = SharedWant(m, d)
  BY <1>1, <1>4, <1>6, <1>7 DEF SharedWant
<1>9. \A b : BlockDpu(b)' = BlockDpu(b) /\ BlockAt(b)' = BlockAt(b)
  BY <1>1, <1>4 DEF BlockDpu, BlockAt
<1>10. QED BY <1>1, <1>2, <1>3, <1>4, <1>5, <1>6, <1>7, <1>8, <1>9

\* A step that leaves the memory of the DPUs alone leaves alone what is said of it.
LEMMA Layer2Still ==
  ASSUME UNCHANGED <<blocks, size, nr_dpus, mram>>
  PROVE  /\ Layer2Layout' <=> Layer2Layout
         /\ \A d, m : SharedSent(d, m)' <=> SharedSent(d, m)
         /\ \A d : SharedComputed(d)' <=> SharedComputed(d)
         /\ \A b : (BlockSent(b)' <=> BlockSent(b)) /\ (BlockComputed(b)' <=> BlockComputed(b))
         /\ \A d : (Told(d)' <=> Told(d)) /\ (Layer2Ready(d)' <=> Layer2Ready(d))
         /\ \A d : Layer2Computed(d)' <=> Layer2Computed(d)
<1>1. Layer2Layout' <=> Layer2Layout
  BY Layer2Frame DEF Layer2Layout
<1>2. \A d, m : SharedSent(d, m)' <=> SharedSent(d, m)
  BY Layer2Frame DEF SharedSent
<1>3. \A d : SharedComputed(d)' <=> SharedComputed(d)
  BY Layer2Frame DEF SharedComputed
<1>4. \A b : BlockSent(b)' <=> BlockSent(b)
  BY Layer2Frame DEF BlockSent, Holds
<1>5. \A b : BlockComputed(b)' <=> BlockComputed(b)
  BY Layer2Frame DEF BlockComputed
<1>6. \A d : Told(d)' <=> Told(d)
  BY Layer2Frame DEF Told
<1>7. \A d : Layer2Ready(d)' <=> Layer2Ready(d)
  BY <1>2, <1>4, Layer2Frame DEF Layer2Ready
<1>8. \A d : Layer2Computed(d)' <=> Layer2Computed(d)
  BY <1>3, <1>5, Layer2Frame DEF Layer2Computed
<1>9. QED BY <1>1, <1>2, <1>3, <1>4, <1>5, <1>6, <1>7, <1>8

\* The plan and the allocation keep Layer2Data.
LEMMA Layer2PlanData ==
  ASSUME PowersOfTwo, Layer2Plan, Layer2Data, Layer2!Plan \/ Layer2!Alloc PROVE Layer2Data'
<1>1. CASE Layer2!Plan
  <2>1. pc = "plan" /\ pc' \in {"plan", "alloc"} /\ UNCHANGED <<blocks, size, caller, running, n, i>>
    BY <1>1 DEF Layer2!Plan, Layer2!call
  <2>2. LayerOld' = LayerOld
    BY <2>1 DEF LayerOld, Layer!Elements
  <2>3. QED BY <2>1, <2>2 DEF Layer2Data
<1>2. CASE Layer2!Alloc
  <2>1. /\ pc = "alloc" /\ pc' \in {"send_shared", "send_blocks", "abort"}
        /\ UNCHANGED <<blocks, size, nr_dpus, caller, running, n, i>>
    BY <1>2 DEF Layer2!Alloc, Layer2!call
  <2>2. caller = LayerOld /\ running = {} /\ n = 1 /\ i = 0
    BY <2>1 DEF Layer2Data
  <2>3. CASE pc' # "abort"
    <3>1. /\ converted' = caller /\ pc' = IF Layer2!Shared THEN "send_shared" ELSE "send_blocks"
          /\ mram' = [d \in Layer2!Dpus |->
               [xp0 |-> <<>>, xp1 |-> <<>>, wtab |-> <<>>, butterfly0 |-> NoInit, blocks |-> 0, size |-> 0]]
      BY <1>2, <2>3 DEF Layer2!Alloc
    <3>2. Layer2Layout' /\ converted' = LayerOld'
      BY <2>1, <2>2, <3>1, Layer2Frame DEF Layer2Layout, Layer2Fields
    <3>3. i' \in Blocks' /\ n' \in 1..4 /\ \A m \in 1..4 : ~(m < n')
      BY <2>1, <2>2, Layer2Numbers DEF Blocks
    <3>4. \A b \in Blocks' : ~(b < i')
      BY <2>1, <2>2 DEF Blocks
    <3>5. pc' = "send_shared" =>
            Layer2!Shared' /\ \A d \in Layer2!Dpus' : ~((d \div Layer2!per_block_dpus)' < i')
      <4>1. ASSUME Layer2!Shared, NEW d \in Layer2!Dpus PROVE ~(d \div Layer2!per_block_dpus < 0)
        <5>1. /\ Layer2!per_block_dpus \in Nat \ {0} /\ blocks \in Nat
              /\ d \in 0..(Layer2!per_block_dpus * blocks - 1)
          BY <2>1, <4>1, Layer2Numbers DEF Layer2!Dpus
        <5>2. d \div Layer2!per_block_dpus \in 0..(blocks - 1)
          BY <5>1, ShareOf
        <5>3. QED BY <5>2
      <4>2. QED BY <2>1, <2>2, <3>1, <4>1, Layer2Frame
    <3>6. pc' = "send_blocks" => ~Layer2!Shared'
      BY <2>1, <3>1, Layer2Frame
    <3>7. QED BY <2>1, <2>2, <3>1, <3>2, <3>3, <3>4, <3>5, <3>6, Layer2Frame DEF Layer2Data
  <2>4. CASE pc' = "abort"
    BY <2>1, <2>2, <2>4, Layer2Frame DEF Layer2Data
  <2>5. QED BY <2>1, <2>3, <2>4
<1>3. QED BY <1>1, <1>2

\* Butterfly r of block b is in the array.
LEMMA BlockElements ==
  ASSUME LayerCall, NEW b \in Blocks, NEW r \in 0..(Layer!half - 1)
  PROVE  /\ b * size + r \in Layer!Elements /\ b * size + r + Layer!half \in Layer!Elements
         /\ Layer!NewElement(b * size + r) = Butterfly(b * size, r)[1]
         /\ Layer!NewElement(b * size + r + Layer!half) = Butterfly(b * size, r)[2]
         /\ b * size \in Nat
<1> DEFINE h == Layer!half
<1>1. /\ blocks \in Nat \ {0} /\ size \in Nat \ {0} /\ size = 2 * h /\ h \in Nat \ {0}
      /\ b \in Nat /\ b < blocks
  BY LayerShape DEF Blocks
<1> DEFINE x == b * size
           y == blocks * size
<1>2. x + size <= y /\ x \in Nat /\ y \in Nat
  BY <1>1, SharesApart
<1>3. /\ Layer!NewElement(x + r) = Butterfly(x, r)[1]
      /\ Layer!NewElement(x + h + r) = Butterfly(x, r)[2]
  BY <1>1, LayerNew
<1>4. Layer!Elements = 0..(y - 1)
  BY DEF Layer!Elements
<1>5. r \in Nat /\ r < h
  BY <1>1
<1> HIDE DEF x, y, h
<1>6. x + r \in 0..(y - 1) /\ x + r + h \in 0..(y - 1) /\ x + r + h = x + h + r
  BY <1>1, <1>2, <1>5
<1>7. QED BY <1>2, <1>3, <1>4, <1>6 DEF x, h

\* When DPUs share a block, which block and which butterflies of it each has.
LEMMA SharedPlaces ==
  ASSUME Layer2Plan, pc # "plan", Layer2!Shared, NEW d \in Layer2!Dpus
  PROVE  /\ d \div Layer2!per_block_dpus \in Blocks
         /\ d % Layer2!per_block_dpus \in Nat
         /\ \A k \in SharedShare :
              /\ SharedPlace(d, k) \in 0..(Layer!half - 1)
              /\ SharedPlace(d, k) = 0 <=> (d % Layer2!per_block_dpus = 0 /\ k = 0)
<1> DEFINE p == Layer2!per_block_dpus
           q == Layer2!per_dpu_size
           j == d % p
<1>1. /\ p \in Nat \ {0} /\ q \in Nat \ {0} /\ p * q = Layer!half /\ Layer!half \in Nat /\ blocks \in Nat
      /\ d \in 0..(p * blocks - 1)
  BY Layer2Numbers DEF Layer2!Dpus
<1>2. /\ d \div p \in 0..(blocks - 1) /\ j \in 0..(p - 1)
      /\ \A k \in 0..(q - 1) : j * q + k \in 0..(Layer!half - 1)
  BY <1>1, DpuPlaces
<1>3. ASSUME NEW k \in 0..(q - 1) PROVE j * q + k = 0 <=> (j = 0 /\ k = 0)
  <2> HIDE DEF j, q, p
  <2>1. j * q \in Nat /\ (j = 0 => j * q = 0) /\ (j # 0 => j * q # 0) /\ k \in Nat
    BY <1>1, <1>2
  <2>2. QED BY <2>1
<1>4. QED BY <1>2, <1>3 DEF SharedPlace, SharedShare, Blocks

\* The transfers to the DPUs, in their order.
LEMMA Layer2Transfers ==
  /\ Len(Layer2!Transfers) = 4
  /\ Layer2!Transfers[1] = "xp0" /\ Layer2!Transfers[2] = "xp1"
  /\ Layer2!Transfers[3] = "wtab" /\ Layer2!Transfers[4] = "butterfly0"
BY DEF Layer2!Transfers

\* What the host prepares for a DPU of a shared block is what its butterflies call for.
LEMMA SharedPayload ==
  ASSUME Layer2Plan, Layer2Data, pc = "send_shared", NEW d \in Layer2!Dpus, d \div Layer2!per_block_dpus = i
  PROVE  Layer2!Payload(Layer2!Transfers[n], d % Layer2!per_block_dpus) = SharedWant(n, d)
<1> DEFINE j == d % Layer2!per_block_dpus
           q == Layer2!per_dpu_size
           h == Layer!half
<1>1. n \in 1..4 /\ converted = LayerOld /\ Layer2!Shared /\ i \in Blocks
  BY DEF Layer2Data
<1>2. /\ size \in Nat /\ h \in Nat /\ q \in Nat \ {0} /\ j \in Nat
  BY <1>1, Layer2Numbers, SharedPlaces
<1>3. ASSUME NEW k \in SharedShare
      PROVE  /\ converted[i * size + 0 + j * q + k] = Given(SharedFirst(d, k))
             /\ converted[i * size + h + j * q + k] = Given(SharedFirst(d, k) + h)
  <2> DEFINE r == SharedPlace(d, k)
             e == i * size + r
  <2>1. r \in 0..(h - 1) /\ SharedFirst(d, k) = e
    BY <1>1, SharedPlaces DEF SharedFirst
  <2>2. e \in Layer!Elements /\ e + h \in Layer!Elements /\ i * size \in Nat
    BY <1>1, <2>1, BlockElements DEF Layer2Plan
  <2>3. r = j * q + k /\ j * q \in Nat /\ k \in Nat
    BY <1>2 DEF SharedShare, SharedPlace
  <2>4. i * size + 0 + j * q + k = e /\ i * size + h + j * q + k = e + h
    BY <1>2, <2>2, <2>3
  <2>5. QED BY <1>1, <2>1, <2>2, <2>4 DEF LayerOld
<1>4. CASE n = 1
  <2>1. Layer2!Payload("xp0", j) = [k \in 0..(q - 1) |-> converted[i * size + 0 + j * q + k]]
    BY DEF Layer2!Payload, Layer2!Piece
  <2>2. SharedWant(1, d) = [k \in 0..(q - 1) |-> Given(SharedFirst(d, k))]
    BY DEF SharedWant, SharedShare
  <2>3. QED BY <1>3, <1>4, <2>1, <2>2, Layer2Transfers DEF SharedShare
<1>5. CASE n = 2
  <2>1. Layer2!Payload("xp1", j) = [k \in 0..(q - 1) |-> converted[i * size + h + j * q + k]]
    BY SameLayer DEF Layer2!Payload, Layer2!Piece
  <2>2. SharedWant(2, d) = [k \in 0..(q - 1) |-> Given(SharedFirst(d, k) + h)]
    BY DEF SharedWant, SharedShare
  <2>3. QED BY <1>3, <1>5, <2>1, <2>2, Layer2Transfers DEF SharedShare
<1>6. CASE n = 3
  BY <1>6, Layer2Transfers DEF SharedWant, SharedShare, SharedPlace, Layer2!Payload, Layer2!Factors
<1>7. CASE n = 4
  BY <1>7, Layer2Transfers DEF SharedWant, Layer2!Payload
<1>8. QED BY <1>1, <1>4, <1>5, <1>6, <1>7

\* A transfer to the DPUs of a shared block keeps Layer2Data.
LEMMA SharedSendData ==
  ASSUME Layer2Plan, Layer2Data, Layer2!SendShared PROVE Layer2Data'
<1> DEFINE b(d) == d \div Layer2!per_block_dpus
<1>1. /\ pc = "send_shared" /\ pc' \in {"send_shared", "launch"}
      /\ UNCHANGED <<blocks, size, nr_dpus, caller, converted, running>>
  BY DEF Layer2!SendShared, Layer2!call
<1>2. /\ caller = LayerOld /\ running = {} /\ Layer2Layout /\ converted = LayerOld
      /\ Layer2!Shared /\ i \in Blocks /\ n \in 1..4
      /\ \A d \in Layer2!Dpus : \A m \in 1..4 : b(d) < i \/ (b(d) = i /\ m < n) => SharedSent(d, m)
  BY <1>1 DEF Layer2Data
<1>3. mram' = [d \in Layer2!Dpus |->
        IF b(d) = i THEN [mram[d] EXCEPT ![Layer2!Transfers[n]] = SharedWant(n, d)] ELSE mram[d]]
  <2>1. mram' = [d \in Layer2!Dpus |->
          IF b(d) = i
          THEN [mram[d] EXCEPT ![Layer2!Transfers[n]] =
                  Layer2!Payload(Layer2!Transfers[n], d % Layer2!per_block_dpus)]
          ELSE mram[d]]
    BY DEF Layer2!SendShared
  <2>2. QED BY <1>1, <2>1, SharedPayload
<1>4. Layer2!Transfers[n] \in Layer2Fields
      /\ \A m \in 1..4 : m # n => Layer2!Transfers[m] # Layer2!Transfers[n]
  BY <1>2 DEF Layer2!Transfers, Layer2Fields
<1>5. Layer2Layout' /\ converted' = LayerOld'
  <2>1. \A d \in Layer2!Dpus : DOMAIN mram'[d] = Layer2Fields
    BY <1>2, <1>3 DEF Layer2Layout
  <2>2. QED BY <1>1, <1>2, <1>3, <2>1, Layer2Frame DEF Layer2Layout
<1>6. ASSUME NEW d \in Layer2!Dpus, NEW m \in 1..4, b(d) < i \/ (b(d) = i /\ m <= n)
      PROVE  SharedSent(d, m)'
  <2>1. mram'[d][Layer2!Transfers[m]] = SharedWant(m, d)
    <3>1. DOMAIN mram[d] = Layer2Fields
      BY <1>2 DEF Layer2Layout
    <3>2. CASE b(d) = i /\ m = n
      BY <1>3, <1>4, <3>1, <3>2
    <3>3. CASE ~(b(d) = i /\ m = n)
      <4>1. SharedSent(d, m)
        BY <1>2, <1>6, <3>3
      <4>2. mram'[d][Layer2!Transfers[m]] = mram[d][Layer2!Transfers[m]]
        BY <1>3, <1>4, <3>1, <3>3
      <4>3. QED BY <4>1, <4>2 DEF SharedSent
    <3>4. QED BY <3>2, <3>3
  <2>2. QED BY <1>1, <2>1, Layer2Frame DEF SharedSent
<1>7. /\ Layer2!Dpus' = Layer2!Dpus /\ caller' = LayerOld' /\ running' = {} /\ Blocks' = Blocks
      /\ blocks \in Nat /\ i \in Nat /\ i < blocks /\ Layer2!Shared'
      /\ \A d \in Layer2!Dpus : (d \div Layer2!per_block_dpus)' = b(d) /\ b(d) \in 0..(blocks - 1)
  BY <1>1, <1>2, Layer2Frame, Layer2Numbers, SharedPlaces DEF Blocks
<1>8. Len(Layer2!Transfers) = 4
  BY DEF Layer2!Transfers
<1> HIDE DEF b
<1>9. CASE n < 4
  <2>1. n' = n + 1 /\ i' = i /\ pc' = "send_shared"
    BY <1>1, <1>8, <1>9 DEF Layer2!SendShared
  <2>2. \A d \in Layer2!Dpus : \A m \in 1..4 : b(d) < i' \/ (b(d) = i' /\ m < n') => SharedSent(d, m)'
    <3>1. \A m \in 1..4 : m < n + 1 => m <= n
      BY <1>2
    <3>2. QED BY <1>6, <2>1, <3>1
  <2>3. n' \in 1..4 /\ i' \in Blocks'
    BY <1>2, <1>7, <1>9, <2>1
  <2>4. QED BY <1>5, <1>7, <2>1, <2>2, <2>3 DEF Layer2Data
<1>10. CASE n = 4 /\ i + 1 < blocks
  <2>1. n' = 1 /\ i' = i + 1 /\ pc' = "send_shared"
    BY <1>1, <1>7, <1>8, <1>10 DEF Layer2!SendShared
  <2>2. \A d \in Layer2!Dpus : \A m \in 1..4 : b(d) < i' \/ (b(d) = i' /\ m < n') => SharedSent(d, m)'
    <3>1. \A d \in Layer2!Dpus : b(d) < i + 1 => b(d) < i \/ b(d) = i
      BY <1>7
    <3>2. \A m \in 1..4 : ~(m < 1) /\ m <= n
      BY <1>10
    <3>3. QED BY <1>6, <2>1, <3>1, <3>2
  <2>3. n' \in 1..4 /\ i' \in Blocks'
    <3>1. i + 1 \in Blocks
      BY <1>7, <1>10 DEF Blocks
    <3>2. QED BY <1>7, <2>1, <3>1
  <2>4. QED BY <1>5, <1>7, <2>1, <2>2, <2>3 DEF Layer2Data
<1>11. CASE n = 4 /\ i + 1 = blocks
  <2>1. n' = 1 /\ i' = 0 /\ pc' = "launch"
    BY <1>1, <1>7, <1>8, <1>11 DEF Layer2!SendShared
  <2>2. \A d \in Layer2!Dpus' : Layer2Ready(d)'
    <3>1. \A d \in Layer2!Dpus : b(d) < i \/ b(d) = i
      BY <1>7, <1>11
    <3>2. \A m \in 1..4 : m <= n
      BY <1>11
    <3>3. QED BY <1>6, <1>7, <3>1, <3>2 DEF Layer2Ready
  <2>3. QED BY <1>5, <1>7, <2>1, <2>2 DEF Layer2Data
<1>12. n < 4 \/ (n = 4 /\ i + 1 < blocks) \/ (n = 4 /\ i + 1 = blocks)
  BY <1>2, <1>7
<1>13. QED BY <1>9, <1>10, <1>11, <1>12

\* The blocks of a DPU follow each other in its buffers and do not overlap.
LEMMA BlockPlaces ==
  ASSUME Layer2Plan, pc # "plan", ~Layer2!Shared, NEW b \in Blocks
  PROVE  /\ BlockDpu(b) \in Layer2!Dpus /\ BlockAt(b) \in Nat
         /\ \A c \in Blocks : BlockDpu(c) = BlockDpu(b) /\ c # b =>
              \A k \in 0..(Layer!half - 1) : BlockAt(c) + k - BlockAt(b) \notin 0..(Layer!half - 1)
<1> DEFINE B == Layer2!per_dpu_blocks
           h == Layer!half
<1>1. /\ B \in Nat \ {0} /\ nr_dpus \in Nat \ {0} /\ B * nr_dpus = blocks /\ h \in Nat \ {0}
      /\ b \in 0..(blocks - 1) /\ Layer2!Dpus = 0..(nr_dpus - 1)
  <2>1. B \in Nat \ {0} /\ nr_dpus \in Nat \ {0} /\ nr_dpus * B = blocks /\ h \in Nat \ {0}
    BY Layer2Numbers
  <2> HIDE DEF B
  <2>2. B * nr_dpus = nr_dpus * B
    BY <2>1
  <2>3. QED BY <2>1, <2>2 DEF Blocks, Layer2!Dpus
<1> HIDE DEF B, h
<1>2. ASSUME NEW x \in 0..(blocks - 1)
      PROVE  x \div B \in 0..(nr_dpus - 1) /\ x % B \in 0..(B - 1) /\ x = B * (x \div B) + (x % B)
  BY <1>1, ShareOf
<1>3. BlockDpu(b) \in Layer2!Dpus /\ BlockAt(b) \in Nat
  <2>1. b % B \in Nat /\ b \div B \in 0..(nr_dpus - 1)
    <3>1. b % B \in 0..(B - 1) /\ b \div B \in 0..(nr_dpus - 1)
      BY <1>1, <1>2
    <3>2. B - 1 \in Nat
      BY <1>1
    <3>3. QED BY <3>1, <3>2
  <2> DEFINE r == b % B
  <2> HIDE DEF r
  <2>2. r * h \in Nat
    <3>1. r \in Nat
      BY <2>1 DEF r
    <3>2. QED BY <1>1, <3>1
  <2>3. QED BY <1>1, <2>1, <2>2 DEF BlockDpu, BlockAt, B, h, r
<1>4. ASSUME NEW c \in 0..(blocks - 1), c \div B = b \div B, c # b, NEW k \in 0..(h - 1)
      PROVE  (c % B) * h + k - (b % B) * h \notin 0..(h - 1)
  <2> DEFINE x == c % B
             y == b % B
  <2>1. x \in Nat /\ y \in Nat /\ x # y
    <3> DEFINE u == c \div B
               v == b \div B
    <3>1. x \in 0..(B - 1) /\ c = B * u + x
      BY <1>2
    <3>2. y \in 0..(B - 1) /\ b = B * v + y
      BY <1>1, <1>2
    <3>3. u = v
      BY <1>4
    <3> HIDE DEF u, v, x, y
    <3>4. QED BY <1>1, <1>4, <3>1, <3>2, <3>3
  <2> HIDE DEF x, y
  <2>2. CASE x < y
    <3>1. x * h + h <= y * h
      BY <1>1, <2>1, <2>2, SharesApart
    <3>2. x * h \in Nat /\ y * h \in Nat
      BY <1>1, <2>1
    <3>3. QED BY <1>1, <3>1, <3>2 DEF x, y
  <2>3. CASE y < x
    <3>1. y * h + h <= x * h
      BY <1>1, <2>1, <2>3, SharesApart
    <3>2. x * h \in Nat /\ y * h \in Nat
      BY <1>1, <2>1
    <3>3. QED BY <1>1, <3>1, <3>2 DEF x, y
  <2>4. QED BY <2>1, <2>2, <2>3
<1>5. QED BY <1>3, <1>4 DEF BlockDpu, BlockAt, Blocks, B, h

\* An array written over from a place on holds there what was written.
LEMMA PlacedNew ==
  ASSUME NEW f, NEW at \in Nat, NEW g, DOMAIN g \subseteq Nat, NEW k \in DOMAIN g
  PROVE  at + k \in DOMAIN Layer2!Placed(f, at, g) /\ Layer2!Placed(f, at, g)[at + k] = g[k]
<1> DEFINE p == Layer2!Placed(f, at, g)
           D == (DOMAIN f) \cup {at + m : m \in DOMAIN g}
<1>1. p = [x \in D |-> IF x - at \in DOMAIN g THEN g[x - at] ELSE f[x]]
  BY DEF Layer2!Placed
<1>2. at + k \in D /\ (at + k) - at = k
  OBVIOUS
<1> HIDE DEF p, D
<1>3. at + k \in DOMAIN p /\ p[at + k] = g[k]
  BY <1>1, <1>2
<1>4. QED BY <1>3 DEF p

\* And holds elsewhere what it held.
LEMMA PlacedOld ==
  ASSUME NEW f, NEW at \in Nat, NEW g, NEW y \in DOMAIN f, y - at \notin DOMAIN g
  PROVE  y \in DOMAIN Layer2!Placed(f, at, g) /\ Layer2!Placed(f, at, g)[y] = f[y]
<1> DEFINE p == Layer2!Placed(f, at, g)
           D == (DOMAIN f) \cup {at + m : m \in DOMAIN g}
<1>1. p = [x \in D |-> IF x - at \in DOMAIN g THEN g[x - at] ELSE f[x]]
  BY DEF Layer2!Placed
<1>2. y \in D
  OBVIOUS
<1> HIDE DEF p, D
<1>3. y \in DOMAIN p /\ p[y] = f[y]
  BY <1>1, <1>2
<1>4. QED BY <1>3 DEF p

\* A transfer of whole blocks keeps Layer2Data: each block arrives after those the DPU has.
LEMMA BlocksSendData ==
  ASSUME Layer2Plan, Layer2Data, Layer2!SendBlocks PROVE Layer2Data'
<1> DEFINE d == BlockDpu(i)
           at == BlockAt(i)
           h == Layer!half
           g0 == Layer2!Piece(i, 0, 0)
           g1 == Layer2!Piece(i, h, 0)
           gw == Layer2!Factors(0)
<1>1. /\ pc = "send_blocks" /\ pc' \in {"send_blocks", "launch"}
      /\ UNCHANGED <<blocks, size, nr_dpus, caller, converted, running, n>>
  BY DEF Layer2!SendBlocks, Layer2!call
<1>2. /\ caller = LayerOld /\ running = {} /\ Layer2Layout /\ converted = LayerOld /\ n = 1
      /\ ~Layer2!Shared /\ i \in Blocks
      /\ \A b \in Blocks : b < i => BlockSent(b)
  BY <1>1 DEF Layer2Data
<1>3. /\ Layer2!per_dpu_size = h /\ h \in Nat \ {0} /\ size \in Nat /\ blocks \in Nat
      /\ nr_dpus * Layer2!per_dpu_blocks = blocks
  BY <1>1, <1>2, Layer2Numbers
<1>4. d \in Layer2!Dpus /\ at \in Nat
  BY <1>1, <1>2, BlockPlaces
<1>5. /\ DOMAIN g0 = 0..(h - 1) /\ DOMAIN g1 = 0..(h - 1) /\ DOMAIN gw = 0..(h - 1)
      /\ \A k \in 0..(h - 1) :
           /\ g0[k] = Given(i * size + k) /\ g1[k] = Given(i * size + k + h) /\ gw[k] = Factor(k)
  <2>1. /\ g0 = [k \in 0..(h - 1) |-> converted[i * size + 0 + 0 * h + k]]
        /\ g1 = [k \in 0..(h - 1) |-> converted[i * size + h + 0 * h + k]]
        /\ gw = [k \in 0..(h - 1) |-> Factor(0 * h + k)]
    BY <1>3 DEF Layer2!Piece, Layer2!Factors
  <2>2. ASSUME NEW k \in 0..(h - 1)
        PROVE  /\ i * size + k \in Layer!Elements /\ i * size + k + h \in Layer!Elements
               /\ i * size \in Nat
    BY <1>2, BlockElements DEF Layer2Plan
  <2>3. ASSUME NEW k \in 0..(h - 1)
        PROVE  /\ i * size + 0 + 0 * h + k = i * size + k /\ i * size + h + 0 * h + k = i * size + k + h
               /\ 0 * h + k = k
    BY <1>3, <2>2
  <2> HIDE DEF g0, g1, gw
  <2>4. QED BY <1>2, <2>1, <2>2, <2>3 DEF LayerOld
<1>6. /\ mram' = [mram EXCEPT ![d].xp0 = Layer2!Placed(@, at, g0),
                              ![d].xp1 = Layer2!Placed(@, at, g1),
                              ![d].wtab = Layer2!Placed(@, at, gw)]
  <2>1. (i % Layer2!per_dpu_blocks) * Layer2!per_dpu_size = at
    BY <1>3 DEF BlockAt
  <2>2. Layer2!half = h
    BY SameLayer
  <2>3. QED BY <2>1, <2>2 DEF Layer2!SendBlocks, BlockDpu
<1> HIDE DEF d, at, h, g0, g1, gw
<1>7. /\ DOMAIN mram' = Layer2!Dpus /\ DOMAIN mram'[d] = Layer2Fields
      /\ mram'[d].xp0 = Layer2!Placed(mram[d].xp0, at, g0)
      /\ mram'[d].xp1 = Layer2!Placed(mram[d].xp1, at, g1)
      /\ mram'[d].wtab = Layer2!Placed(mram[d].wtab, at, gw)
      /\ \A e \in Layer2!Dpus : e # d => mram'[e] = mram[e]
  <2>1. DOMAIN mram = Layer2!Dpus /\ DOMAIN mram[d] = Layer2Fields
    BY <1>2, <1>4 DEF Layer2Layout
  <2>2. QED BY <1>4, <1>6, <2>1 DEF Layer2Fields
<1>20. /\ \A k \in 0..(h - 1) :
            /\ at + k \in DOMAIN mram'[d].xp0 /\ mram'[d].xp0[at + k] = g0[k]
            /\ at + k \in DOMAIN mram'[d].xp1 /\ mram'[d].xp1[at + k] = g1[k]
            /\ at + k \in DOMAIN mram'[d].wtab /\ mram'[d].wtab[at + k] = gw[k]
       /\ \A y \in Int : y - at \notin 0..(h - 1) =>
            /\ y \in DOMAIN mram[d].xp0 => y \in DOMAIN mram'[d].xp0 /\ mram'[d].xp0[y] = mram[d].xp0[y]
            /\ y \in DOMAIN mram[d].xp1 => y \in DOMAIN mram'[d].xp1 /\ mram'[d].xp1[y] = mram[d].xp1[y]
            /\ y \in DOMAIN mram[d].wtab => y \in DOMAIN mram'[d].wtab /\ mram'[d].wtab[y] = mram[d].wtab[y]
  <2> DEFINE f0 == mram[d].xp0
             f1 == mram[d].xp1
             fw == mram[d].wtab
             p0 == mram'[d].xp0
             p1 == mram'[d].xp1
             pw == mram'[d].wtab
  <2>1. DOMAIN g0 \subseteq Nat /\ DOMAIN g1 \subseteq Nat /\ DOMAIN gw \subseteq Nat
    BY <1>3, <1>5
  <2>2. /\ p0 = Layer2!Placed(f0, at, g0) /\ p1 = Layer2!Placed(f1, at, g1)
        /\ pw = Layer2!Placed(fw, at, gw)
    BY <1>7
  <2> HIDE DEF f0, f1, fw, p0, p1, pw
  <2>3. ASSUME NEW k \in 0..(h - 1)
        PROVE  /\ at + k \in DOMAIN p0 /\ p0[at + k] = g0[k]
               /\ at + k \in DOMAIN p1 /\ p1[at + k] = g1[k]
               /\ at + k \in DOMAIN pw /\ pw[at + k] = gw[k]
    <3>1. k \in DOMAIN g0 /\ k \in DOMAIN g1 /\ k \in DOMAIN gw
      BY <1>5
    <3>10. at + k \in DOMAIN Layer2!Placed(f0, at, g0) /\ Layer2!Placed(f0, at, g0)[at + k] = g0[k]
      BY <1>4, <2>1, <3>1, PlacedNew
    <3>20. at + k \in DOMAIN Layer2!Placed(f1, at, g1) /\ Layer2!Placed(f1, at, g1)[at + k] = g1[k]
      BY <1>4, <2>1, <3>1, PlacedNew
    <3>30. at + k \in DOMAIN Layer2!Placed(fw, at, gw) /\ Layer2!Placed(fw, at, gw)[at + k] = gw[k]
      BY <1>4, <2>1, <3>1, PlacedNew
    <3>2. QED BY <2>2, <3>10, <3>20, <3>30
  <2>4. ASSUME NEW y, y - at \notin 0..(h - 1)
        PROVE  /\ y \in DOMAIN f0 => y \in DOMAIN p0 /\ p0[y] = f0[y]
               /\ y \in DOMAIN f1 => y \in DOMAIN p1 /\ p1[y] = f1[y]
               /\ y \in DOMAIN fw => y \in DOMAIN pw /\ pw[y] = fw[y]
    <3>1. y - at \notin DOMAIN g0 /\ y - at \notin DOMAIN g1 /\ y - at \notin DOMAIN gw
      BY <1>5, <2>4
    <3>10. y \in DOMAIN f0 =>
            y \in DOMAIN Layer2!Placed(f0, at, g0) /\ Layer2!Placed(f0, at, g0)[y] = f0[y]
      BY <1>4, <3>1, PlacedOld
    <3>20. y \in DOMAIN f1 =>
            y \in DOMAIN Layer2!Placed(f1, at, g1) /\ Layer2!Placed(f1, at, g1)[y] = f1[y]
      BY <1>4, <3>1, PlacedOld
    <3>30. y \in DOMAIN fw =>
            y \in DOMAIN Layer2!Placed(fw, at, gw) /\ Layer2!Placed(fw, at, gw)[y] = fw[y]
      BY <1>4, <3>1, PlacedOld
    <3>2. QED BY <2>2, <3>10, <3>20, <3>30
  <2>5. QED BY <2>3, <2>4 DEF f0, f1, fw, p0, p1, pw
<1>8. Layer2Layout' /\ converted' = LayerOld'
  BY <1>1, <1>2, <1>7, Layer2Frame DEF Layer2Layout
<1>9. ASSUME NEW b \in Blocks, b < i \/ b = i PROVE BlockSent(b)'
  <2> DEFINE m == mram'[BlockDpu(b)]
             x(k) == BlockAt(b) + k
  <2>1. ASSUME NEW k \in 0..(h - 1)
        PROVE  /\ x(k) \in DOMAIN m.xp0 /\ x(k) \in DOMAIN m.xp1 /\ x(k) \in DOMAIN m.wtab
               /\ m.xp0[x(k)] = Given(b * size + k) /\ m.xp1[x(k)] = Given(b * size + k + h)
               /\ m.wtab[x(k)] = Factor(k)
    <3>1. CASE b = i
      <4>1. m = mram'[d] /\ x(k) = at + k
        BY <3>1 DEF d, at
      <4> HIDE DEF m, x
      <4>2. /\ x(k) \in DOMAIN m.xp0 /\ m.xp0[x(k)] = g0[k]
            /\ x(k) \in DOMAIN m.xp1 /\ m.xp1[x(k)] = g1[k]
            /\ x(k) \in DOMAIN m.wtab /\ m.wtab[x(k)] = gw[k]
        BY <1>20, <4>1
      <4>3. QED BY <1>5, <3>1, <4>2
    <3>2. CASE b < i
      <4>1. /\ x(k) \in DOMAIN mram[BlockDpu(b)].xp0 /\ x(k) \in DOMAIN mram[BlockDpu(b)].xp1
            /\ x(k) \in DOMAIN mram[BlockDpu(b)].wtab
            /\ mram[BlockDpu(b)].xp0[x(k)] = Given(b * size + k)
            /\ mram[BlockDpu(b)].xp1[x(k)] = Given(b * size + k + h)
            /\ mram[BlockDpu(b)].wtab[x(k)] = Factor(k)
        BY <1>2, <3>2 DEF BlockSent, Holds, h
      <4>2. CASE BlockDpu(b) = d
        <5>1. x(k) - at \notin 0..(h - 1) /\ x(k) \in Int
          BY <1>1, <1>2, <1>3, <3>2, <4>2, BlockPlaces DEF d, at, h, Blocks
        <5> HIDE DEF x
        <5> HIDE DEF m
        <5>2. m = mram'[d] /\ mram[BlockDpu(b)] = mram[d]
          BY <4>2 DEF m
        <5>3. QED BY <1>20, <4>1, <5>1, <5>2
      <4>3. CASE BlockDpu(b) # d
        <5>1. BlockDpu(b) \in Layer2!Dpus
          BY <1>1, <1>2, BlockPlaces
        <5>2. m = mram[BlockDpu(b)]
          BY <1>7, <4>3, <5>1
        <5>3. QED BY <4>1, <5>2
      <4>4. QED BY <4>2, <4>3
    <3>3. QED BY <1>9, <3>1, <3>2
  <2>2. BlockDpu(b)' = BlockDpu(b) /\ BlockAt(b)' = BlockAt(b) /\ size' = size /\ Layer!half' = h
    BY <1>1, Layer2Frame DEF h
  <2>3. QED BY <2>1, <2>2 DEF BlockSent, Holds
<1>10. /\ i \in Nat /\ i < blocks /\ Blocks' = Blocks /\ ~Layer2!Shared' /\ caller' = LayerOld'
       /\ running' = {} /\ n' = 1 /\ Layer2!Dpus' = Layer2!Dpus
       /\ \A b \in Blocks : BlockDpu(b)' = BlockDpu(b)
  <2>1. i \in Nat /\ i < blocks
    BY <1>2, <1>3 DEF Blocks
  <2>2. QED BY <1>1, <1>2, <2>1, Layer2Frame
<1>11. CASE i + 1 < blocks
  <2>1. i' = i + 1 /\ pc' = "send_blocks"
    BY <1>1, <1>3, <1>11 DEF Layer2!SendBlocks
  <2>2. \A b \in Blocks : b < i' => b < i \/ b = i
    <3>1. \A b \in Blocks : b < i + 1 => b < i \/ b = i
      BY <1>3, <1>10 DEF Blocks
    <3>2. QED BY <2>1, <3>1
  <2>3. i + 1 \in Blocks
    <3>1. i \in Nat
      BY <1>10
    <3>2. QED BY <1>3, <1>11, <3>1 DEF Blocks
  <2>4. QED BY <1>8, <1>9, <1>10, <2>1, <2>2, <2>3 DEF Layer2Data
<1>12. CASE ~(i + 1 < blocks)
  <2>1. i' = 0 /\ pc' = "launch"
    BY <1>1, <1>3, <1>12 DEF Layer2!SendBlocks
  <2>2. \A b \in Blocks : b < i \/ b = i
    <3>1. i \in Nat
      BY <1>10
    <3>2. QED BY <1>3, <1>12, <3>1 DEF Blocks
  <2>3. \A b \in Blocks : BlockSent(b)'
    BY <1>9, <2>2
  <2>4. \A e \in Layer2!Dpus' : Layer2Ready(e)'
    BY <1>10, <2>3 DEF Layer2Ready
  <2>5. QED BY <1>8, <1>10, <2>1, <2>4 DEF Layer2Data
<1>13. QED BY <1>11, <1>12

\* The launch keeps Layer2Data: every DPU then has all four of its transfers.
LEMMA Layer2LaunchData ==
  ASSUME Layer2Plan, Layer2Data, Layer2!Launch PROVE Layer2Data'
<1>1. /\ pc = "launch" /\ pc' = "wait" /\ running' = Layer2!Dpus
      /\ UNCHANGED <<blocks, size, nr_dpus, caller, converted, n, i>>
  BY DEF Layer2!Launch, Layer2!call
<1>2. /\ caller = LayerOld /\ Layer2Layout /\ converted = LayerOld /\ n = 1 /\ i = 0
      /\ \A d \in Layer2!Dpus : Layer2Ready(d)
  BY <1>1 DEF Layer2Data
<1>3. ASSUME NEW d \in Layer2!Dpus
      PROVE  /\ DOMAIN mram'[d] = Layer2Fields /\ Told(d)'
             /\ \A name \in Layer2Fields \ {"blocks", "size"} : mram'[d][name] = mram[d][name]
  <2> DEFINE B == IF Layer2!Shared THEN 1 ELSE Layer2!per_dpu_blocks
  <2>1. /\ mram'[d] = [mram[d] EXCEPT !.blocks = B, !.size = Layer2!per_dpu_size]
        /\ DOMAIN mram[d] = Layer2Fields
    BY <1>2 DEF Layer2!Launch, Layer2Layout
  <2> HIDE DEF B
  <2>2. /\ DOMAIN mram'[d] = Layer2Fields /\ mram'[d].size = Layer2!per_dpu_size /\ mram'[d].blocks = B
        /\ \A name \in Layer2Fields \ {"blocks", "size"} : mram'[d][name] = mram[d][name]
    BY <2>1 DEF Layer2Fields
  <2>3. QED BY <1>1, <2>2, Layer2Frame DEF Told, B
<1>4. Layer2Layout' /\ converted' = LayerOld' /\ caller' = LayerOld' /\ Layer2!Dpus' = Layer2!Dpus
  <2>1. DOMAIN mram' = Layer2!Dpus
    BY DEF Layer2!Launch
  <2>2. QED BY <1>1, <1>2, <1>3, <2>1, Layer2Frame DEF Layer2Layout
<1>5. ASSUME NEW d \in Layer2!Dpus PROVE Layer2Ready(d)'
  <2>1. Layer2Ready(d)
    BY <1>2
  <2>2. CASE Layer2!Shared
    <3>1. ASSUME NEW m \in 1..4 PROVE SharedSent(d, m)'
      <4>1. SharedSent(d, m)
        BY <2>1, <2>2, <3>1 DEF Layer2Ready
      <4>2. Layer2!Transfers[m] \in Layer2Fields \ {"blocks", "size"}
        BY <3>1, Layer2Transfers DEF Layer2Fields
      <4>3. mram'[d][Layer2!Transfers[m]] = SharedWant(m, d)
        BY <1>3, <4>1, <4>2 DEF SharedSent
      <4>4. QED BY <1>1, <4>3, Layer2Frame DEF SharedSent
    <3>2. Layer2!Shared'
      BY <1>1, <2>2, Layer2Frame
    <3>3. QED BY <3>1, <3>2 DEF Layer2Ready
  <2>3. CASE ~Layer2!Shared
    <3>1. ASSUME NEW b \in Blocks, BlockDpu(b) = d PROVE BlockSent(b)'
      <4>1. BlockSent(b)
        BY <2>1, <2>3, <3>1 DEF Layer2Ready
      <4>2. mram'[d].xp0 = mram[d].xp0 /\ mram'[d].xp1 = mram[d].xp1 /\ mram'[d].wtab = mram[d].wtab
        BY <1>3 DEF Layer2Fields
      <4>3. /\ BlockDpu(b)' = d /\ BlockAt(b)' = BlockAt(b) /\ Layer!half' = Layer!half /\ size' = size
        BY <1>1, <3>1, Layer2Frame
      <4>4. QED BY <3>1, <4>1, <4>2, <4>3 DEF BlockSent, Holds
    <3>2. ~Layer2!Shared' /\ Blocks' = Blocks /\ \A b \in Blocks : BlockDpu(b)' = BlockDpu(b)
      BY <1>1, <2>3, Layer2Frame
    <3>3. QED BY <3>1, <3>2 DEF Layer2Ready
  <2>4. QED BY <2>2, <2>3
<1>6. QED BY <1>1, <1>2, <1>3, <1>4, <1>5 DEF Layer2Data

\* A DPU that has a part of a block computes the new elements of that part.
LEMMA SharedComputes ==
  ASSUME Layer2Plan, pc = "wait", Layer2!Shared, NEW d \in Layer2!Dpus, Layer2Layout, Told(d), Layer2Ready(d),
         Layer2!RunDpu(d)
  PROVE  SharedComputed(d)'
<1> DEFINE p == Layer2!per_block_dpus
           q == Layer2!per_dpu_size
           h == Layer!half
           j == d % p
           b == d \div p
           at(k) == SharedFirst(d, k)
<1>1. /\ DOMAIN mram = Layer2!Dpus /\ DOMAIN mram[d] = Layer2Fields
      /\ UNCHANGED <<blocks, size, nr_dpus>>
  BY DEF Layer2Layout, Layer2!RunDpu, Layer2!call
<1>2. /\ mram[d].xp0 = [k \in SharedShare |-> Given(at(k))]
      /\ mram[d].xp1 = [k \in SharedShare |-> Given(at(k) + h)]
      /\ mram[d].wtab = [k \in SharedShare |-> Factor(SharedPlace(d, k))]
      /\ mram[d].butterfly0 = (j = 0)
      /\ mram[d].size = q /\ mram[d].blocks = 1
  <2>1. SharedSent(d, 1) /\ SharedSent(d, 2) /\ SharedSent(d, 3) /\ SharedSent(d, 4)
    BY DEF Layer2Ready
  <2>2. /\ mram[d]["xp0"] = SharedWant(1, d) /\ mram[d]["xp1"] = SharedWant(2, d)
        /\ mram[d]["wtab"] = SharedWant(3, d) /\ mram[d]["butterfly0"] = SharedWant(4, d)
    BY <2>1, Layer2Transfers DEF SharedSent
  <2>3. QED BY <2>2 DEF SharedWant, Told
<1>3. /\ q \in Nat \ {0} /\ b \in Blocks
      /\ \A k \in SharedShare : SharedPlace(d, k) \in 0..(h - 1) /\ (SharedPlace(d, k) = 0 <=> (j = 0 /\ k = 0))
  BY Layer2Numbers, SharedPlaces
<1>4. ASSUME NEW k \in SharedShare
      PROVE  /\ Layer2!Pair(mram[d], k)[1] = Layer!NewElement(at(k))
             /\ Layer2!Pair(mram[d], k)[2] = Layer!NewElement(at(k) + h)
  <2> DEFINE r == SharedPlace(d, k)
             c == b * size
  <2>1. at(k) = c + r
    BY DEF SharedFirst
  <2>2. /\ Layer!NewElement(c + r) = Butterfly(c, r)[1]
        /\ Layer!NewElement(c + r + h) = Butterfly(c, r)[2]
    BY <1>3, BlockElements DEF Layer2Plan
  <2>3. k % q = k
    <3>1. k \in 0..(q - 1)
      BY DEF SharedShare
    <3> HIDE DEF q
    <3>2. (q * 0 + k) % q = k
      BY <1>3, <3>1, PlaceInShare
    <3>3. q * 0 + k = k
      BY <1>3, <3>1
    <3>4. QED BY <3>2, <3>3
  <2>4. /\ mram[d].xp0[k] = Given(c + r) /\ mram[d].xp1[k] = Given(c + r + h)
        /\ mram[d].wtab[k] = Factor(r)
        /\ (r = 0 <=> (mram[d].butterfly0 = TRUE /\ k = 0))
    <3>1. /\ mram[d].xp0[k] = Given(c + r) /\ mram[d].xp1[k] = Given(c + r + h)
          /\ mram[d].wtab[k] = Factor(r)
      BY <1>2, <2>1
    <3>2. r = 0 <=> (j = 0 /\ k = 0)
      BY <1>3
    <3>3. mram[d].butterfly0 = TRUE <=> j = 0
      BY <1>2
    <3>4. QED BY <3>1, <3>2, <3>3
  <2>5. Layer2!ZeroFactor(mram[d], k) <=> r = 0
    <3> HIDE DEF r, q
    <3>1. QED BY <1>2, <2>3, <2>4 DEF Layer2!ZeroFactor
  <2>6. Layer2!Pair(mram[d], k) = Butterfly(c, r)
    <3> HIDE DEF c, r
    <3>1. QED BY <2>4, <2>5 DEF Layer2!Pair, Butterfly
  <2>7. QED BY <2>1, <2>2, <2>6
<1>5. /\ mram'[d].xp0 = [k \in SharedShare |-> Layer2!Pair(mram[d], k)[1]]
      /\ mram'[d].xp1 = [k \in SharedShare |-> Layer2!Pair(mram[d], k)[2]]
  <2> DEFINE f(k) == Layer2!Pair(mram[d], k)[1]
             g(k) == Layer2!Pair(mram[d], k)[2]
  <2>1. mram' = [mram EXCEPT ![d].xp0 = [k \in DOMAIN @ |-> f(k)], ![d].xp1 = [k \in DOMAIN @ |-> g(k)]]
    BY DEF Layer2!RunDpu
  <2>2. DOMAIN mram[d].xp0 = SharedShare /\ DOMAIN mram[d].xp1 = SharedShare
    BY <1>2
  <2> HIDE DEF f, g
  <2>3. /\ mram'[d].xp0 = [k \in SharedShare |-> f(k)]
        /\ mram'[d].xp1 = [k \in SharedShare |-> g(k)]
    BY <1>1, <2>1, <2>2 DEF Layer2Fields
  <2>4. QED BY <2>3 DEF f, g
<1>6. /\ mram'[d].xp0 = [k \in SharedShare |-> Layer!NewElement(at(k))]
      /\ mram'[d].xp1 = [k \in SharedShare |-> Layer!NewElement(at(k) + h)]
  BY <1>4, <1>5
<1>7. QED BY <1>1, <1>6, Layer2Frame DEF SharedComputed

\* A DPU that has whole blocks computes the new elements of each.
LEMMA BlockComputes ==
  ASSUME Layer2Plan, pc = "wait", ~Layer2!Shared, NEW b \in Blocks, Layer2Layout, Told(BlockDpu(b)),
         BlockSent(b), Layer2!RunDpu(BlockDpu(b))
  PROVE  BlockComputed(b)'
<1> DEFINE d == BlockDpu(b)
           B == Layer2!per_dpu_blocks
           h == Layer!half
           m == mram[d]
           c == b * size
           x(k) == BlockAt(b) + k
<1>1. /\ DOMAIN mram = Layer2!Dpus /\ d \in Layer2!Dpus /\ DOMAIN m = Layer2Fields
      /\ BlockAt(b) \in Nat /\ UNCHANGED <<blocks, size, nr_dpus>>
  BY BlockPlaces DEF Layer2Layout, Layer2!RunDpu, Layer2!call
<1>2. m.size = h /\ m.blocks = B /\ B \in Nat /\ B >= 2 /\ h \in Nat \ {0}
  BY Layer2Numbers DEF Told
<1>3. ASSUME NEW k \in 0..(h - 1)
      PROVE  /\ x(k) \in DOMAIN m.xp0 /\ x(k) \in DOMAIN m.xp1 /\ x(k) \in Nat
             /\ Layer2!Pair(m, x(k)) = Butterfly(c, k)
  <2>1. /\ x(k) \in DOMAIN m.xp0 /\ x(k) \in DOMAIN m.xp1
        /\ m.xp0[x(k)] = Given(c + k) /\ m.xp1[x(k)] = Given(c + k + h) /\ m.wtab[x(k)] = Factor(k)
    BY DEF BlockSent, Holds
  <2>2. x(k) % h = k
    <3> DEFINE t == b % B
    <3>1. x(k) = t * h + k /\ t \in Nat
      BY <1>2 DEF BlockAt, Blocks
    <3> HIDE DEF t, h, x
    <3>2. (h * t + k) % h = k
      BY <1>2, <3>1, PlaceInShare
    <3>3. h * t = t * h
      BY <1>2, <3>1
    <3>4. QED BY <3>1, <3>2, <3>3
  <2>3. Layer2!ZeroFactor(m, x(k)) <=> k = 0
    <3> HIDE DEF m, x, B, h
    <3>1. QED BY <1>2, <2>2 DEF Layer2!ZeroFactor
  <2>4. x(k) \in Nat
    BY <1>1, <1>2
  <2>5. Layer2!Pair(m, x(k)) = Butterfly(c, k)
    <3> HIDE DEF m, x, c
    <3>1. QED BY <2>1, <2>3 DEF Layer2!Pair, Butterfly
  <2>6. QED BY <2>1, <2>4, <2>5
<1>4. ASSUME NEW k \in 0..(h - 1)
      PROVE  /\ mram'[d].xp0[x(k)] = Layer2!Pair(m, x(k))[1]
             /\ mram'[d].xp1[x(k)] = Layer2!Pair(m, x(k))[2]
  <2> DEFINE f(e) == Layer2!Pair(mram[d], e)[1]
             g(e) == Layer2!Pair(mram[d], e)[2]
  <2>1. mram' = [mram EXCEPT ![d].xp0 = [e \in DOMAIN @ |-> f(e)], ![d].xp1 = [e \in DOMAIN @ |-> g(e)]]
    BY DEF Layer2!RunDpu
  <2>2. x(k) \in DOMAIN m.xp0 /\ x(k) \in DOMAIN m.xp1
    BY <1>3
  <2> HIDE DEF f, g, x, d
  <2>3. /\ mram'[d].xp0 = [e \in DOMAIN m.xp0 |-> f(e)]
        /\ mram'[d].xp1 = [e \in DOMAIN m.xp1 |-> g(e)]
    BY <1>1, <2>1 DEF Layer2Fields
  <2>4. mram'[d].xp0[x(k)] = f(x(k)) /\ mram'[d].xp1[x(k)] = g(x(k))
    BY <2>2, <2>3
  <2>5. QED BY <2>4 DEF f, g
<1>5. ASSUME NEW k \in 0..(h - 1)
      PROVE  /\ mram'[d].xp0[x(k)] = Layer!NewElement(c + k)
             /\ mram'[d].xp1[x(k)] = Layer!NewElement(c + k + h)
  <2>1. /\ Layer!NewElement(c + k) = Butterfly(c, k)[1]
        /\ Layer!NewElement(c + k + h) = Butterfly(c, k)[2]
    BY BlockElements DEF Layer2Plan
  <2>2. QED BY <1>3, <1>4, <2>1
<1>6. QED BY <1>1, <1>5, Layer2Frame DEF BlockComputed

\* A DPU that finishes keeps Layer2Data: its butterflies are those of the layer.
LEMMA Layer2RunData ==
  ASSUME Layer2Plan, Layer2Data, NEW d \in running, Layer2!RunDpu(d) PROVE Layer2Data'
<1>1. /\ pc = "wait" /\ pc' = "wait" /\ running' = running \ {d}
      /\ UNCHANGED <<blocks, size, nr_dpus, caller, converted, n, i>>
  BY DEF Layer2!RunDpu, Layer2!call, Layer2Data
<1>2. /\ caller = LayerOld /\ Layer2Layout /\ converted = LayerOld /\ n = 1 /\ i = 0
      /\ running \subseteq Layer2!Dpus
      /\ \A e \in Layer2!Dpus :
           Told(e) /\ (IF e \in running THEN Layer2Ready(e) ELSE Layer2Computed(e))
  BY <1>1 DEF Layer2Data
<1>3. d \in Layer2!Dpus /\ Told(d) /\ Layer2Ready(d)
  BY <1>2
<1>4. /\ DOMAIN mram' = Layer2!Dpus /\ \A e \in Layer2!Dpus : e # d => mram'[e] = mram[e]
      /\ DOMAIN mram'[d] = Layer2Fields /\ mram'[d].size = mram[d].size /\ mram'[d].blocks = mram[d].blocks
  <2> DEFINE f(k) == Layer2!Pair(mram[d], k)[1]
             g(k) == Layer2!Pair(mram[d], k)[2]
  <2>1. mram' = [mram EXCEPT ![d].xp0 = [k \in DOMAIN @ |-> f(k)], ![d].xp1 = [k \in DOMAIN @ |-> g(k)]]
    BY DEF Layer2!RunDpu
  <2>2. DOMAIN mram = Layer2!Dpus /\ DOMAIN mram[d] = Layer2Fields
    BY <1>2, <1>3 DEF Layer2Layout
  <2> HIDE DEF f, g
  <2>3. QED BY <1>3, <2>1, <2>2 DEF Layer2Fields
<1>5. Layer2Layout'
  BY <1>1, <1>2, <1>4, Layer2Frame DEF Layer2Layout
<1>6. ASSUME NEW e \in Layer2!Dpus PROVE Told(e)'
  BY <1>1, <1>2, <1>3, <1>4, Layer2Frame DEF Told
<1>7. Layer2Computed(d)'
  <2>1. CASE Layer2!Shared
    <3>1. SharedComputed(d)'
      BY <1>1, <1>2, <1>3, <2>1, SharedComputes
    <3>2. QED BY <1>1, <2>1, <3>1, Layer2Frame DEF Layer2Computed
  <2>2. CASE ~Layer2!Shared
    <3>1. ASSUME NEW b \in Blocks, BlockDpu(b) = d PROVE BlockComputed(b)'
      <4>1. BlockSent(b) /\ Told(BlockDpu(b)) /\ Layer2!RunDpu(BlockDpu(b))
        BY <1>3, <2>2, <3>1 DEF Layer2Ready
      <4>2. QED BY <1>1, <1>2, <2>2, <4>1, BlockComputes
    <3>2. ~Layer2!Shared' /\ Blocks' = Blocks /\ \A b \in Blocks : BlockDpu(b)' = BlockDpu(b)
      BY <1>1, <2>2, Layer2Frame
    <3>3. QED BY <3>1, <3>2 DEF Layer2Computed
  <2>3. QED BY <2>1, <2>2
<1>8. ASSUME NEW e \in Layer2!Dpus, e # d
      PROVE  (Layer2Ready(e) => Layer2Ready(e)') /\ (Layer2Computed(e) => Layer2Computed(e)')
  <2>1. mram'[e] = mram[e]
    BY <1>4, <1>8
  <2>2. ASSUME NEW b \in Blocks, BlockDpu(b) = e
        PROVE  (BlockSent(b) => BlockSent(b)') /\ (BlockComputed(b) => BlockComputed(b)')
    <3>1. /\ BlockDpu(b)' = e /\ BlockAt(b)' = BlockAt(b) /\ Layer!half' = Layer!half /\ size' = size
          /\ \A x : Layer!NewElement(x)' = Layer!NewElement(x)
      BY <1>1, <2>2, Layer2Frame
    <3>2. QED BY <2>1, <2>2, <3>1 DEF BlockSent, Holds, BlockComputed
  <2>3. \A m : SharedSent(e, m) => SharedSent(e, m)'
    BY <1>1, <2>1, Layer2Frame DEF SharedSent
  <2>4. SharedComputed(e) => SharedComputed(e)'
    BY <1>1, <2>1, Layer2Frame DEF SharedComputed
  <2>5. /\ Layer2!Shared' <=> Layer2!Shared
        /\ Blocks' = Blocks /\ \A b \in Blocks : BlockDpu(b)' = BlockDpu(b)
    BY <1>1, Layer2Frame
  <2>6. Layer2Ready(e) => Layer2Ready(e)'
    BY <2>2, <2>3, <2>5 DEF Layer2Ready
  <2>7. Layer2Computed(e) => Layer2Computed(e)'
    BY <2>2, <2>4, <2>5 DEF Layer2Computed
  <2>8. QED BY <2>6, <2>7
<1>9. ASSUME NEW e \in Layer2!Dpus
      PROVE  IF e \in running' THEN Layer2Ready(e)' ELSE Layer2Computed(e)'
  <2>1. CASE e = d
    BY <1>1, <1>7, <2>1
  <2>2. CASE e # d
    <3>1. e \in running' <=> e \in running
      BY <1>1, <2>2
    <3>2. QED BY <1>2, <1>8, <2>2, <3>1
  <2>3. QED BY <2>1, <2>2
<1>10. Layer2!Dpus' = Layer2!Dpus /\ LayerOld' = LayerOld /\ running' \subseteq Layer2!Dpus
  BY <1>1, <1>2, Layer2Frame
<1>11. QED BY <1>1, <1>2, <1>5, <1>6, <1>9, <1>10 DEF Layer2Data

\* Every element of the array is in one half of one block.
LEMMA Layer2Positions ==
  ASSUME LayerCall, NEW e \in Layer!Elements
  PROVE  /\ e \div size \in Blocks /\ e % size \in 0..(size - 1)
         /\ e = (e \div size) * size + (e % size)
<1>1. size \in Nat \ {0} /\ blocks \in Nat
  BY LayerShape
<1>2. e \in 0..(size * blocks - 1)
  <2>1. size * blocks = blocks * size
    BY <1>1
  <2>2. QED BY <2>1 DEF Layer!Elements
<1>3. /\ e \div size \in 0..(blocks - 1) /\ e % size \in 0..(size - 1)
      /\ e = size * (e \div size) + (e % size)
  BY <1>1, <1>2, ShareOf
<1> DEFINE y == e \div size
<1>4. y \in Int
  BY <1>1, <1>3
<1> HIDE DEF y
<1>5. size * y = y * size
  BY <1>1, <1>4
<1>6. QED BY <1>3, <1>5 DEF y, Blocks

\* The return from the launch keeps Layer2Data: no DPU is running any more.
LEMMA Layer2ReturnData ==
  ASSUME Layer2Plan, Layer2Data, Layer2!Return PROVE Layer2Data'
<1>1. /\ pc = "wait" /\ pc' = (IF Layer2!Shared THEN "read_shared" ELSE "read_blocks") /\ running = {}
      /\ UNCHANGED <<blocks, size, nr_dpus, caller, converted, n, i, mram, running>>
  BY DEF Layer2!Return, Layer2!call
<1>2. /\ caller = LayerOld /\ converted = LayerOld /\ n = 1 /\ i = 0
      /\ \A d \in Layer2!Dpus : Layer2Computed(d)
  BY <1>1 DEF Layer2Data
<1>3. blocks \in Nat \ {0} /\ size \in Nat /\ Layer!half \in Nat /\ blocks * size \in Nat
  BY <1>1, Layer2Numbers
<1>4. i \in Blocks /\ i * size + (n - 1) * Layer!half = 0 /\ i * size = 0 /\ n \in 1..2
  BY <1>2, <1>3 DEF Blocks
<1>5. LayerUpTo(0)
  <2>1. \A e \in Layer!Elements : ~(e < 0)
    BY <1>3 DEF Layer!Elements
  <2>2. QED BY <1>2, <2>1 DEF LayerUpTo, LayerOld
<1>6. (LayerUpTo(i * size + (n - 1) * Layer!half))' /\ (LayerUpTo(i * size))'
  BY <1>1, <1>4, <1>5, Layer2Frame DEF LayerUpTo
<1>7. CASE Layer2!Shared
  <2>1. \A d \in Layer2!Dpus : SharedComputed(d)'
    BY <1>1, <1>2, <1>7, Layer2Still DEF Layer2Computed
  <2>2. Layer2!Dpus' = Layer2!Dpus /\ Layer2!Shared' /\ Blocks' = Blocks /\ LayerOld' = LayerOld
    BY <1>1, <1>7, Layer2Frame
  <2>3. QED BY <1>1, <1>2, <1>4, <1>6, <1>7, <2>1, <2>2 DEF Layer2Data
<1>8. CASE ~Layer2!Shared
  <2>1. \A b \in Blocks : BlockComputed(b)'
    <3>1. \A b \in Blocks : BlockComputed(b)
      BY <1>1, <1>2, <1>8, BlockPlaces DEF Layer2Computed
    <3>2. QED BY <1>1, <3>1, Layer2Still
  <2>2. ~Layer2!Shared' /\ Blocks' = Blocks /\ LayerOld' = LayerOld
    BY <1>1, <1>8, Layer2Frame
  <2>3. QED BY <1>1, <1>2, <1>4, <1>6, <1>8, <2>1, <2>2 DEF Layer2Data
<1>9. QED BY <1>7, <1>8

\* The conversion of what was read keeps Layer2Data: the caller's array is the new one.
LEMMA Layer2ConvertData ==
  ASSUME Layer2Plan, Layer2Data, Layer2!Convert PROVE Layer2Data'
<1>1. /\ pc = "convert" /\ pc' = "done" /\ caller' = converted
      /\ UNCHANGED <<blocks, size, nr_dpus, running, n, i>>
  BY DEF Layer2!Convert, Layer2!call
<1>2. QED BY <1>1, Layer2Frame DEF Layer2Data

\* A step that changes nothing keeps Layer2Data.
LEMMA Layer2StutterData ==
  ASSUME Layer2Plan, Layer2Data, UNCHANGED Layer2!vars PROVE Layer2Data'
<1>1. UNCHANGED <<pc, blocks, size, nr_dpus, caller, converted, n, i, mram, running>>
  BY DEF Layer2!vars, Layer2!call
<1>2. /\ LayerUpTo(i * size) => (LayerUpTo(i * size))'
      /\ LayerUpTo(i * size + (n - 1) * Layer!half) => (LayerUpTo(i * size + (n - 1) * Layer!half))'
  BY <1>1, Layer2Frame DEF LayerUpTo
<1>3. /\ Layer2!Dpus' = Layer2!Dpus /\ LayerOld' = LayerOld /\ Layer!NewXp' = Layer!NewXp
      /\ Blocks' = Blocks /\ (Layer2!Shared' <=> Layer2!Shared)
      /\ \A d : (d \div Layer2!per_block_dpus)' = d \div Layer2!per_block_dpus
  BY <1>1, Layer2Frame
<1>4. QED BY <1>1, <1>2, <1>3, Layer2Still DEF Layer2Data

\* A transfer back puts half a block where the new elements of it belong.
LEMMA SharedReadHalf ==
  ASSUME Layer2Plan, Layer2Data, Layer2!ReadShared
  PROVE  LET from == i * size + (n - 1) * Layer!half
         IN converted' = [e \in Layer!Elements |->
              IF e < from + Layer!half THEN Layer!NewElement(e) ELSE Given(e)]
<1> DEFINE h == Layer!half
           p == Layer2!per_block_dpus
           q == Layer2!per_dpu_size
           from == i * size + (n - 1) * h
           value(e) == mram[i * p + (e - from) \div q][Layer2!Transfers[n]][(e - from) % q]
<1>1. /\ pc = "read_shared" /\ Layer2!Shared /\ i \in Blocks /\ n \in 1..2
      /\ LayerUpTo(from) /\ \A d \in Layer2!Dpus : SharedComputed(d)
  BY DEF Layer2Data, Layer2!ReadShared
<1>2. converted' = [e \in Layer!Elements |-> IF e \in from..(from + p * q - 1) THEN value(e) ELSE converted[e]]
  BY SameLayer DEF Layer2!ReadShared
<1>3. /\ p \in Nat \ {0} /\ q \in Nat \ {0} /\ h \in Nat \ {0} /\ p * q = h
      /\ size \in Nat /\ size = 2 * h /\ i \in 0..(blocks - 1) /\ blocks \in Nat \ {0}
      /\ Layer2!Dpus = 0..(p * blocks - 1) /\ Layer!Elements \subseteq Nat
  BY <1>1, Layer2Numbers DEF Layer2!Dpus, Blocks, Layer!Elements
<1>4. from \in Nat /\ i * size \in Nat /\ (n = 1 => from = i * size) /\ (n = 2 => from = i * size + h)
  BY <1>1, <1>3
<1>5. ASSUME NEW e \in Layer!Elements, e \in from..(from + h - 1)
      PROVE  value(e) = Layer!NewElement(e)
  <2> DEFINE r == e - from
             j == r \div q
             k == r % q
             d == i * p + j
  <2>1. r \in 0..(h - 1)
    <3> HIDE DEF from, h
    <3>1. QED BY <1>3, <1>4, <1>5
  <2>2. /\ j \in 0..(p - 1) /\ k \in 0..(q - 1) /\ j * q + k = r
        /\ d \in Layer2!Dpus /\ d \div p = i /\ d % p = j
    <3>1. q * p = h
      <4> HIDE DEF p, q
      <4>1. q * p = p * q
        BY <1>3
      <4>2. QED BY <1>3, <4>1
    <3> HIDE DEF r, p, q
    <3>2. j \in 0..(p - 1) /\ k \in 0..(q - 1) /\ r = q * j + k
      BY <1>3, <2>1, <3>1, ShareOf
    <3> HIDE DEF j, k
    <3>3. d \in Layer2!Dpus /\ d \div p = i /\ d % p = j
      BY <1>1, <1>3, <3>2, ButterflyPlaces
    <3>4. j * q + k = r
      BY <1>3, <3>2
    <3>5. QED BY <3>2, <3>3, <3>4
  <2>3. value(e) = mram[d][Layer2!Transfers[n]][k]
    OBVIOUS
  <2>4. k \in SharedShare /\ SharedFirst(d, k) = i * size + r
    <3>1. SharedFirst(d, k) = i * size + (j * q + k)
      BY <2>2 DEF SharedFirst, SharedPlace
    <3>2. QED BY <2>2, <3>1 DEF SharedShare
  <2>5. SharedComputed(d)
    BY <1>1, <2>2
  <2>6. e = from + r /\ r \in Int
    <3> HIDE DEF from
    <3>1. QED BY <1>3, <1>4
  <2> HIDE DEF d, k, r, from, value
  <2>7. CASE n = 1
    <3>1. value(e) = mram[d].xp0[k]
      BY <2>3, <2>7, Layer2Transfers
    <3>2. e = SharedFirst(d, k)
      BY <1>4, <2>4, <2>6, <2>7
    <3>3. QED BY <2>4, <2>5, <3>1, <3>2 DEF SharedComputed
  <2>8. CASE n = 2
    <3>1. value(e) = mram[d].xp1[k]
      BY <2>3, <2>8, Layer2Transfers
    <3>2. e = SharedFirst(d, k) + h
      <4> DEFINE x == i * size
      <4>1. from = x + h /\ SharedFirst(d, k) = x + r /\ x \in Nat /\ h \in Nat
        BY <1>3, <1>4, <2>4, <2>8
      <4> HIDE DEF x, h
      <4>2. QED BY <2>6, <4>1
    <3>3. QED BY <2>4, <2>5, <3>1, <3>2 DEF SharedComputed
  <2>9. QED BY <1>1, <2>7, <2>8
<1>6. ASSUME NEW e \in Layer!Elements
      PROVE  (IF e \in from..(from + p * q - 1) THEN value(e) ELSE converted[e]) =
               IF e < from + h THEN Layer!NewElement(e) ELSE Given(e)
  <2>0. from + p * q - 1 = from + h - 1
    BY <1>3
  <2>1. CASE e \in from..(from + h - 1)
    <3>1. value(e) = Layer!NewElement(e)
      BY <1>5, <2>1
    <3>2. e < from + h
      <4> HIDE DEF from, h
      <4>1. QED BY <1>3, <1>4, <2>1
    <3> HIDE DEF value, from, h, p, q
    <3>3. QED BY <2>0, <2>1, <3>1, <3>2
  <2>2. CASE e \notin from..(from + h - 1)
    <3>1. converted[e] = IF e < from THEN Layer!NewElement(e) ELSE Given(e)
      BY <1>1 DEF LayerUpTo
    <3> HIDE DEF value, from, h, p, q
    <3>2. e \in Nat /\ (e < from <=> e < from + h)
      BY <1>3, <1>4, <2>2
    <3>3. QED BY <2>0, <2>2, <3>1, <3>2
  <2>3. QED BY <2>1, <2>2
<1> HIDE DEF value, from
<1>7. QED BY <1>2, <1>6 DEF from

\* The transfer of a shared block's results back keeps Layer2Data.
LEMMA SharedReadData ==
  ASSUME Layer2Plan, Layer2Data, Layer2!ReadShared PROVE Layer2Data'
<1> DEFINE h == Layer!half
           from == i * size + (n - 1) * h
<1>1. /\ pc = "read_shared" /\ UNCHANGED <<blocks, size, nr_dpus, caller, running>>
  BY DEF Layer2!ReadShared, Layer2!call
<1>2. /\ caller = LayerOld /\ running = {} /\ Layer2!Shared
      /\ i \in Blocks /\ n \in 1..2 /\ \A d \in Layer2!Dpus : SharedComputed(d)
  BY <1>1 DEF Layer2Data
<1>3. converted' = [e \in Layer!Elements |-> IF e < from + h THEN Layer!NewElement(e) ELSE Given(e)]
  BY SharedReadHalf
<1>4. /\ h \in Nat \ {0} /\ size \in Nat /\ size = 2 * h /\ blocks \in Nat /\ i \in Nat /\ i < blocks
      /\ i * size \in Nat /\ blocks * size \in Nat
  <2>1. /\ h \in Nat \ {0} /\ size \in Nat /\ size = 2 * h /\ blocks \in Nat
    BY <1>1, Layer2Numbers
  <2>2. i \in Nat /\ i < blocks
    BY <1>2, <2>1 DEF Blocks
  <2>3. QED BY <2>1, <2>2
<1>5. /\ Layer!half' = h /\ Layer2!Dpus' = Layer2!Dpus /\ LayerOld' = LayerOld /\ caller' = LayerOld'
      /\ Blocks' = Blocks /\ running' = {} /\ Layer2!Shared'
  BY <1>1, <1>2, Layer2Frame
<1>6. ASSUME NEW x, x = from + h PROVE LayerUpTo(x)'
  BY <1>1, <1>3, <1>6, Layer2Frame DEF LayerUpTo
<1>7. /\ n = 1 => from + h = i * size + h
      /\ n = 2 => from + h = i * size + size
  BY <1>4
<1> HIDE DEF from, h
<1>8. CASE n = 1
  <2>1. n' = 2 /\ pc' = "read_shared" /\ UNCHANGED <<i, mram>>
    BY <1>1, <1>8 DEF Layer2!ReadShared
  <2>2. \A d \in Layer2!Dpus : SharedComputed(d)'
    BY <1>1, <1>2, <2>1, Layer2Still
  <2>3. i' * size' + (n' - 1) * Layer!half' = from + h
    <3>1. i' * size' = i * size /\ (n' - 1) * Layer!half' = h
      BY <1>1, <1>4, <1>5, <2>1
    <3>2. QED BY <1>7, <1>8, <3>1
  <2>4. (LayerUpTo(i * size + (n - 1) * Layer!half))'
    BY <1>6, <2>3
  <2>5. n' \in 1..2 /\ i' \in Blocks'
    BY <1>2, <1>5, <2>1
  <2>6. QED BY <1>5, <2>1, <2>2, <2>4, <2>5 DEF Layer2Data
<1>9. CASE n = 2 /\ i + 1 < blocks
  <2>1. n' = 1 /\ i' = i + 1 /\ pc' = "read_shared" /\ UNCHANGED mram
    BY <1>1, <1>4, <1>9 DEF Layer2!ReadShared
  <2>2. \A d \in Layer2!Dpus : SharedComputed(d)'
    BY <1>1, <1>2, <2>1, Layer2Still
  <2>3. i' * size' + (n' - 1) * Layer!half' = from + h
    <3>1. i' * size' = (i + 1) * size /\ (n' - 1) * Layer!half' = 0
      BY <1>1, <1>4, <1>5, <2>1
    <3>2. (i + 1) * size = i * size + size
      BY <1>4
    <3>3. QED BY <1>4, <1>7, <1>9, <3>1, <3>2
  <2>4. (LayerUpTo(i * size + (n - 1) * Layer!half))'
    BY <1>6, <2>3
  <2>5. i + 1 \in Blocks
    BY <1>4, <1>9 DEF Blocks
  <2>6. n' \in 1..2 /\ i' \in Blocks'
    BY <1>5, <2>1, <2>5
  <2>7. QED BY <1>5, <2>1, <2>2, <2>4, <2>6 DEF Layer2Data
<1>10. CASE n = 2 /\ i + 1 = blocks
  <2>1. n' = 1 /\ i' = 0 /\ pc' = "convert"
    BY <1>1, <1>4, <1>10 DEF Layer2!ReadShared
  <2>2. from + h = blocks * size
    <3>1. (i + 1) * size = i * size + size
      BY <1>4
    <3>2. QED BY <1>7, <1>10, <3>1
  <2>3. \A e \in Layer!Elements : e < from + h
    <3> DEFINE y == blocks * size
    <3>1. Layer!Elements = 0..(y - 1) /\ from + h = y /\ y \in Nat
      BY <1>4, <2>2 DEF Layer!Elements
    <3> HIDE DEF y
    <3>2. QED BY <3>1
  <2>4. converted' = Layer!NewXp'
    BY <1>1, <1>3, <2>3, Layer2Frame DEF Layer!NewXp
  <2>5. QED BY <1>5, <2>1, <2>4 DEF Layer2Data
<1>11. n = 1 \/ (n = 2 /\ i + 1 < blocks) \/ (n = 2 /\ i + 1 = blocks)
  BY <1>2, <1>4
<1>12. QED BY <1>8, <1>9, <1>10, <1>11

\* The transfers back put a block where its new elements belong.
LEMMA BlockRead ==
  ASSUME Layer2Plan, Layer2Data, Layer2!ReadBlocks
  PROVE  converted' = [e \in Layer!Elements |->
           IF e < (i + 1) * size THEN Layer!NewElement(e) ELSE Given(e)]
<1> DEFINE h == Layer!half
           m == mram[BlockDpu(i)]
           value(e) == IF e % size < h THEN m.xp0[BlockAt(i) + (e % size)] ELSE m.xp1[BlockAt(i) + (e % size) - h]
<1>1. /\ pc = "read_blocks" /\ ~Layer2!Shared /\ i \in Blocks
      /\ LayerUpTo(i * size) /\ BlockComputed(i)
  BY DEF Layer2Data, Layer2!ReadBlocks
<1>2. /\ h \in Nat \ {0} /\ size \in Nat \ {0} /\ size = 2 * h /\ blocks \in Nat
      /\ Layer2!per_dpu_size = h /\ BlockAt(i) \in Nat /\ LayerCall /\ i \in Nat
  <2>1. /\ h \in Nat \ {0} /\ size \in Nat \ {0} /\ size = 2 * h /\ blocks \in Nat
        /\ Layer2!per_dpu_size = h /\ BlockAt(i) \in Nat /\ LayerCall
    BY <1>1, Layer2Numbers, BlockPlaces DEF Layer2Plan
  <2>2. QED BY <1>1, <2>1 DEF Blocks
<1>3. converted' = [e \in Layer!Elements |-> IF e \div size # i THEN converted[e] ELSE value(e)]
  <2>1. (i % Layer2!per_dpu_blocks) * Layer2!per_dpu_size = BlockAt(i) /\ Layer2!half = h
    BY <1>2, SameLayer DEF BlockAt
  <2>2. QED BY <2>1, SameLayer DEF Layer2!ReadBlocks, BlockDpu
<1>4. ASSUME NEW e \in Layer!Elements
      PROVE  (IF e \div size # i THEN converted[e] ELSE value(e)) =
               IF e < (i + 1) * size THEN Layer!NewElement(e) ELSE Given(e)
  <2> DEFINE b == e \div size
             r == e % size
  <2>1. b \in Blocks /\ r \in 0..(size - 1) /\ e = b * size + r
    BY <1>2, Layer2Positions
  <2>2. b \in Nat /\ r \in Nat /\ r < size
    BY <1>2, <2>1 DEF Blocks
  <2>3. (i + 1) * size = i * size + size /\ i * size \in Nat /\ b * size \in Nat
    <3> HIDE DEF b
    <3>1. QED BY <1>2, <2>2
  <2>4. CASE b # i
    <3>1. converted[e] = IF e < i * size THEN Layer!NewElement(e) ELSE Given(e)
      BY <1>1 DEF LayerUpTo
    <3>2. e < i * size <=> e < (i + 1) * size
      <4>1. CASE b < i
        <5> HIDE DEF b, r
        <5>1. b * size + size <= i * size
          BY <1>2, <2>2, <4>1, SharesApart
        <5>2. QED BY <1>2, <2>1, <2>2, <2>3, <5>1
      <4>2. CASE i < b
        <5> HIDE DEF b, r
        <5>1. i * size + size <= b * size
          BY <1>2, <2>2, <4>2, SharesApart
        <5>2. QED BY <1>2, <2>1, <2>2, <2>3, <5>1
      <4>3. QED BY <1>2, <2>2, <2>4, <4>1, <4>2
    <3> HIDE DEF b, value
    <3>3. QED BY <2>4, <3>1, <3>2 DEF b
  <2>5. CASE b = i
    <3>1. e < (i + 1) * size /\ e = i * size + r
      <4> HIDE DEF b, r
      <4>1. QED BY <1>2, <2>1, <2>2, <2>3, <2>5
    <3>2. value(e) = Layer!NewElement(e)
      <4>1. CASE r < h
        <5>1. m.xp0[BlockAt(i) + r] = Layer!NewElement(i * size + r)
          <6>1. r \in 0..(h - 1)
            BY <1>2, <2>2, <4>1
          <6>2. QED BY <1>1, <6>1 DEF BlockComputed
        <5>2. QED BY <3>1, <4>1, <5>1
      <4>2. CASE ~(r < h)
        <5> DEFINE k == r - h
        <5>1. k \in 0..(h - 1) /\ BlockAt(i) + r - h = BlockAt(i) + k
          <6> HIDE DEF r
          <6>1. QED BY <1>2, <2>2, <4>2
        <5>2. m.xp1[BlockAt(i) + k] = Layer!NewElement(i * size + k + h)
          BY <1>1, <5>1 DEF BlockComputed
        <5>3. i * size + k + h = e
          <6> HIDE DEF r, h
          <6>1. QED BY <1>2, <2>2, <2>3, <3>1
        <5>4. QED BY <4>2, <5>1, <5>2, <5>3
      <4>3. QED BY <4>1, <4>2
    <3> HIDE DEF b, value
    <3>3. QED BY <2>5, <3>1, <3>2 DEF b
  <2>6. QED BY <2>4, <2>5
<1> HIDE DEF value
<1>5. QED BY <1>3, <1>4

\* The transfer of whole blocks back keeps Layer2Data.
LEMMA BlocksReadData ==
  ASSUME Layer2Plan, Layer2Data, Layer2!ReadBlocks PROVE Layer2Data'
<1>1. /\ pc = "read_blocks" /\ UNCHANGED <<blocks, size, nr_dpus, caller, running, n>>
  BY DEF Layer2!ReadBlocks, Layer2!call
<1>2. /\ caller = LayerOld /\ running = {} /\ ~Layer2!Shared /\ n = 1
      /\ i \in Blocks /\ \A b \in Blocks : BlockComputed(b)
  BY <1>1 DEF Layer2Data
<1>3. converted' = [e \in Layer!Elements |-> IF e < (i + 1) * size THEN Layer!NewElement(e) ELSE Given(e)]
  BY BlockRead
<1>4. /\ size \in Nat /\ blocks \in Nat /\ nr_dpus * Layer2!per_dpu_blocks = blocks
      /\ i \in Nat /\ i < blocks /\ blocks * size \in Nat
  <2>1. /\ size \in Nat /\ blocks \in Nat /\ nr_dpus * Layer2!per_dpu_blocks = blocks
    BY <1>1, <1>2, Layer2Numbers
  <2>2. i \in Nat /\ i < blocks
    BY <1>2, <2>1 DEF Blocks
  <2>3. QED BY <2>1, <2>2
<1>5. /\ LayerOld' = LayerOld /\ caller' = LayerOld' /\ Blocks' = Blocks /\ running' = {}
      /\ ~Layer2!Shared' /\ n' = 1
  BY <1>1, <1>2, Layer2Frame
<1>6. CASE i + 1 < blocks
  <2>1. i' = i + 1 /\ pc' = "read_blocks" /\ UNCHANGED mram
    BY <1>1, <1>4, <1>6 DEF Layer2!ReadBlocks
  <2>2. \A b \in Blocks : BlockComputed(b)'
    BY <1>1, <1>2, <2>1, Layer2Still
  <2>3. (LayerUpTo(i * size))'
    BY <1>1, <1>3, <2>1, Layer2Frame DEF LayerUpTo
  <2>4. i + 1 \in Blocks
    BY <1>4, <1>6 DEF Blocks
  <2>5. QED BY <1>5, <2>1, <2>2, <2>3, <2>4 DEF Layer2Data
<1>7. CASE ~(i + 1 < blocks)
  <2>1. i' = 0 /\ pc' = "convert"
    BY <1>1, <1>4, <1>7 DEF Layer2!ReadBlocks
  <2>2. \A e \in Layer!Elements : e < (i + 1) * size
    <3> DEFINE y == blocks * size
    <3>1. Layer!Elements = 0..(y - 1) /\ (i + 1) * size = y /\ y \in Nat
      <4>1. i + 1 = blocks
        BY <1>4, <1>7
      <4>2. QED BY <1>4, <4>1 DEF Layer!Elements
    <3> HIDE DEF y
    <3>2. QED BY <3>1
  <2>3. converted' = Layer!NewXp'
    BY <1>1, <1>3, <2>2, Layer2Frame DEF Layer!NewXp
  <2>4. QED BY <1>5, <2>1, <2>3 DEF Layer2Data
<1>8. QED BY <1>6, <1>7

--------------------------------------------------------------------------------
(***************************************************************************)
(* Layer2Inv is inductive and implies what is claimed of the method.       *)
(***************************************************************************)
Layer2Inv == Layer2Plan /\ Layer2Data

\* Every step of the second layer method keeps its whole invariant, plan and data.
LEMMA Layer2Step == ASSUME PowersOfTwo, Layer2Inv, [Layer2!Next]_(Layer2!vars) PROVE Layer2Inv'
<1>1. Layer2Plan /\ Layer2Data /\ Layer2Plan'
  BY Layer2PlanStep DEF Layer2Inv
<1>2. Layer2Data'
  BY <1>1, Layer2PlanData, SharedSendData, BlocksSendData, Layer2LaunchData, Layer2RunData, Layer2ReturnData,
     SharedReadData, BlocksReadData, Layer2ConvertData, Layer2StutterData
     DEF Layer2!Next, Layer2!Host, Layer2!Stopped
<1>3. QED BY <1>1, <1>2 DEF Layer2Inv

\* The methods are instantiated with the tasklets of the programs they launch.
LEMMA SameKernel ==
  ASSUME NEW l PROVE Layer2!WholeShares(l) <=> WholeShares(l)
<1>1. Layer2!Halvings = Halvings /\ Layer2!Butterflies(l) = Butterflies(l) /\ Layer2!BLOCK_SIZE = BLOCK_SIZE
  BY DEF Layer2!Halvings, Halvings, Layer2!Butterflies, Butterflies, Layer2!BLOCK_SIZE, BLOCK_SIZE
<1>2. Layer2!NrTasklets(l) = NrTasklets(l)
  BY <1>1, Zenon DEF Layer2!NrTasklets, NrTasklets
<1>3. /\ Layer2!PerBlockTasklets(l) = PerBlockTasklets(l) /\ Layer2!PerTaskletBlocks(l) = PerTaskletBlocks(l)
      /\ Layer2!SharedBlocks(l) <=> SharedBlocks(l)
  BY <1>2 DEF Layer2!PerBlockTasklets, PerBlockTasklets, Layer2!PerTaskletBlocks, PerTaskletBlocks,
              Layer2!SharedBlocks, SharedBlocks
<1>4. Layer2!PerTaskletSize(l) = PerTaskletSize(l)
  BY <1>3 DEF Layer2!PerTaskletSize, PerTaskletSize
<1>5. QED BY <1>1, <1>2, <1>3, <1>4 DEF Layer2!WholeShares, WholeShares

\* The invariant gives what is checked of a launch: its tasklets divide their work without rest.
LEMMA Layer2Divides == ASSUME PowersOfTwo, Layer2Inv PROVE Layer2!KernelCanDivide
<1>1. SUFFICES ASSUME pc = "wait", NEW d \in running
               PROVE  /\ Layer2!WholeShares(Layer2!LaunchOf(mram[d]))
                      /\ mram[d].blocks = 1 => mram[d].butterfly0 # NoInit
  BY DEF Layer2!KernelCanDivide
<1>2. d \in Layer2!Dpus /\ Told(d) /\ Layer2Ready(d) /\ Layer2Plan
  BY <1>1 DEF Layer2Inv, Layer2Data
<1> DEFINE l == Layer2!LaunchOf(mram[d])
<1>3. l.blocks = mram[d].blocks /\ l.size = mram[d].size
  BY DEF Layer2!LaunchOf
<1> HIDE DEF l
<1>4. l.blocks \in Powers /\ l.size \in Powers /\ l.size >= 4
  BY <1>1, <1>2, <1>3, Layer2Numbers, PowersAre DEF Told
<1>5. Layer2!WholeShares(l)
  BY <1>4, KernelShares, SameKernel
<1>6. ASSUME mram[d].blocks = 1 PROVE mram[d].butterfly0 # NoInit
  <2>1. Layer2!Shared
    BY <1>1, <1>2, <1>6, Layer2Numbers DEF Told
  <2>2. SharedSent(d, 4)
    BY <1>2, <2>1 DEF Layer2Ready
  <2>3. mram[d].butterfly0 = SharedWant(4, d)
    BY <2>2, Layer2Transfers DEF SharedSent
  <2>4. SharedWant(4, d) \in BOOLEAN
    BY DEF SharedWant
  <2>5. NoInit \notin BOOLEAN
    BY MCConstants DEF Layer2!LayersConstants
  <2>6. QED BY <2>3, <2>4, <2>5
<1>7. QED BY <1>5, <1>6 DEF l

\* The caller's array changes once, from the old one to the one the layer makes of it.
LEMMA Layer2Replaces ==
  ASSUME PowersOfTwo, Layer2Inv, Layer2Inv', [Layer2!Next]_(Layer2!vars)
  PROVE  /\ UNCHANGED <<LayerOld, Layer!NewXp>>
         /\ caller' = caller \/ (caller = LayerOld /\ caller' = Layer!NewXp)
<1>1. UNCHANGED <<blocks, size>>
  BY DEF Layer2!Next, Layer2!Host, Layer2!Plan, Layer2!Alloc, Layer2!SendShared, Layer2!SendBlocks,
         Layer2!Launch, Layer2!Return, Layer2!ReadShared, Layer2!ReadBlocks, Layer2!Convert, Layer2!RunDpu,
         Layer2!Stopped, Layer2!vars, Layer2!call
<1>2. UNCHANGED <<LayerOld, Layer!NewXp>>
  BY <1>1 DEF LayerOld, Layer!NewXp, Layer!NewElement, Layer!half, Layer!Elements
<1>3. CASE Layer2!Convert
  <2>1. pc = "convert" /\ pc' = "done"
    BY <1>3 DEF Layer2!Convert
  <2>2. QED BY <1>2, <2>1 DEF Layer2Inv, Layer2Data
<1>4. CASE ~Layer2!Convert
  BY <1>2, <1>4
     DEF Layer2!Next, Layer2!Host, Layer2!Plan, Layer2!Alloc, Layer2!SendShared, Layer2!SendBlocks,
         Layer2!Launch, Layer2!Return, Layer2!ReadShared, Layer2!ReadBlocks, Layer2!RunDpu, Layer2!Stopped,
         Layer2!vars
<1>5. QED BY <1>2, <1>3, <1>4

--------------------------------------------------------------------------------
(***************************************************************************)
(* Arrays cut into portions (ArrayOffload).                                *)
(***************************************************************************)

\* Rounding up, and the remainder of zero, leave a last portion of the right size.
LEMMA RoundedUp ==
  ASSUME NEW s \in Nat \ {0}, NEW p \in Nat \ {0}
  PROVE  LET q == (s + p - 1) \div p
             r == IF s % p = 0 THEN p ELSE s % p
         IN q \in Nat \ {0} /\ r \in 1..p /\ (q - 1) * p + r = s
<1> DEFINE a == s \div p
           b == s % p
<1>1. a \in Int /\ b \in 0..(p - 1) /\ s = p * a + b
  BY DivMod
<1>2. a >= 0
  <2>1. CASE a <= -1
    <3>1. p * (-1 - a) >= 0 /\ p * (-1 - a) = 0 - p - p * a
      BY <1>1, <2>1
    <3>2. QED BY <1>1, <3>1
  <2>2. QED BY <1>1, <2>1
<1> HIDE DEF a, b
<1>3. CASE b = 0
  <2>1. a # 0
    BY <1>1, <1>3
  <2>2. s + p - 1 = p * a + (p - 1)
    BY <1>1, <1>3
  <2>3. (p * a + (p - 1)) \div p = a
    BY <1>1, <1>2, PlaceInShare
  <2>4. (a - 1) * p + p = s
    BY <1>1, <1>3
  <2>5. QED BY <1>1, <1>2, <1>3, <2>1, <2>2, <2>3, <2>4 DEF b
<1>4. CASE b # 0
  <2>1. s + p - 1 = p * (a + 1) + (b - 1)
    BY <1>1
  <2>2. (p * (a + 1) + (b - 1)) \div p = a + 1
    <3>1. a + 1 \in Nat /\ b - 1 \in 0..(p - 1)
      BY <1>1, <1>2, <1>4
    <3>2. QED BY <3>1, PlaceInShare
  <2>3. ((a + 1) - 1) * p + b = s
    BY <1>1
  <2>4. QED BY <1>1, <1>2, <1>4, <2>1, <2>2, <2>3 DEF b
<1>5. QED BY <1>3, <1>4

(***************************************************************************)
(* What the loops on arrays rely on without a check: the length of the     *)
(* arrays is a power of two, or a multiple of what all tasklets of a DPU   *)
(* compute at a time.  Other lengths can leave the last DPU a portion that *)
(* its tasklets do not divide (12 elements for 2 tasklets).                *)
(***************************************************************************)
WholePortion(s) ==
  \/ s \in Powers /\ s >= BLOCK_SIZE
  \/ s % (BLOCK_SIZE * NR_TASKLETS) = 0

WholePortions == LEAST \in Powers /\ LEAST >= BLOCK_SIZE /\ \A s \in Sizes : WholePortion(s)

\* The tasklets of a DPU divide such a portion, each element for one of them.
LEMMA PortionDivides ==
  ASSUME PowersOfTwo, NEW s \in Nat \ {0}, WholePortion(s)
  PROVE  LoopMissed(s) = {} /\ LoopRaced(s) = {}
<1> DEFINE l == LoopLaunch(s)
<1>1. l.blocks = 1 /\ l.size = s
  BY DEF LoopLaunch
<1> HIDE DEF l
<1>2. WholeShares(l)
  <2>1. CASE s \in Powers /\ s >= BLOCK_SIZE
    <3>1. l.blocks \in Powers /\ l.size \in Powers /\ l.size >= 4
      BY <1>1, <2>1, PowersAre DEF BLOCK_SIZE
    <3>2. QED BY <3>1, KernelShares
  <2>2. CASE s % (BLOCK_SIZE * NR_TASKLETS) = 0
    BY <1>1, <2>2, KernelMultiples
  <2>3. QED BY <2>1, <2>2 DEF WholePortion
<1>3. MissedPlaces(l) = {} /\ RacedPlaces(l) = {}
  BY <1>1, <1>2, BlockDivides
<1>4. QED BY <1>3 DEF LoopMissed, LoopRaced, l

LoopPlan ==
  /\ size \in Nat \ {0} /\ per_dpu_size \in Nat \ {0}
  /\ WholePortion(size) /\ per_dpu_size \in Powers /\ per_dpu_size >= BLOCK_SIZE
  /\ pc # "plan" => Loop!nr_dpus <= NR_DPUS

\* The portions of the DPUs add up to the arrays: all are of one length but the last, which has
\* the rest.
LEMMA LoopPortions ==
  ASSUME LoopPlan
  PROVE  /\ Loop!nr_dpus \in Nat \ {0} /\ Loop!last_dpu_size \in 1..per_dpu_size
         /\ (Loop!nr_dpus - 1) * per_dpu_size + Loop!last_dpu_size = size
BY RoundedUp DEF LoopPlan, Loop!nr_dpus, Loop!last_dpu_size

\* A remainder that is not zero is again one that the tasklets divide.
LEMMA WholeRemainder ==
  ASSUME PowersOfTwo, NEW s \in Nat \ {0}, WholePortion(s), NEW p \in Powers, s % p # 0
  PROVE  WholePortion(s % p)
<1>1. p \in Nat \ {0}
  BY PowersAre
<1>2. CASE s \in Powers /\ s >= BLOCK_SIZE
  <2>1. CASE p <= s
    <3>1. s = p * (s \div p) /\ s \div p \in Nat
      BY <1>2, <2>1, PowersDivide, PowersAre
    <3>2. (p * (s \div p)) % p = 0
      BY <1>1, <3>1, ExactMod
    <3>3. QED BY <3>1, <3>2
  <2>2. CASE s < p
    <3>1. (p * 0 + s) % p = s
      BY <1>1, <2>2, PlaceInShare
    <3>2. s % p = s
      BY <1>1, <3>1
    <3>3. QED BY <3>2
  <2>3. QED BY <1>1, <2>1, <2>2
<1>3. CASE s % (BLOCK_SIZE * NR_TASKLETS) = 0
  <2> DEFINE m == 4 * NR_TASKLETS
             t == s \div m
  <2>1. m \in Powers /\ m \in Nat \ {0}
    <3>1. 2 * 2 \in Powers /\ 2 * 2 = 4 /\ NR_TASKLETS \in Powers
      BY HalvingsAre, PowersAre
    <3>2. QED BY <3>1, PowersTimes, PowersAre
  <2>2. BLOCK_SIZE * NR_TASKLETS = m
    BY DEF BLOCK_SIZE
  <2> HIDE DEF m
  <2>3. t \in Nat /\ s = m * t
    <3>1. t \in Nat /\ s = m * t + (s % m)
      BY <2>1, NatQuotients
    <3> HIDE DEF t
    <3>2. m * t \in Nat
      BY <2>1, <3>1
    <3>3. QED BY <1>3, <2>2, <3>1, <3>2
  <2> HIDE DEF t
  <2>4. CASE p <= m
    <3> DEFINE q == m \div p
    <3>1. q \in Nat /\ m = p * q
      BY <2>1, <2>4, PowersDivide, PowersAre
    <3> HIDE DEF q
    <3>2. s = p * (q * t) /\ q * t \in Nat
      BY <1>1, <2>3, <3>1
    <3>3. (p * (q * t)) % p = 0
      BY <1>1, <3>2, ExactMod
    <3>4. QED BY <3>2, <3>3
  <2>5. CASE m < p
    <3> DEFINE q == p \div m
               a == s \div p
               b == s % p
    <3>1. q \in Nat /\ p = m * q
      BY <1>1, <2>1, <2>5, PowersDivide, PowersAre
    <3>2. a \in Nat /\ b \in 0..(p - 1) /\ s = p * a + b
      BY <1>1, NatQuotients
    <3> HIDE DEF q, a, b
    <3>3. b = m * (t - q * a) /\ b \in Nat
      <4>1. m * t = (m * q) * a + b
        BY <2>3, <3>1, <3>2
      <4>2. (m * q) * a = m * (q * a) /\ m * (t - q * a) = m * t - m * (q * a) /\ q * a \in Nat
        BY <2>1, <2>3, <3>1, <3>2
      <4> DEFINE x == m * t
                 y == m * (q * a)
      <4>3. x = y + b /\ m * (t - q * a) = x - y /\ x \in Int /\ y \in Int /\ b \in Nat
        BY <2>1, <2>3, <3>1, <3>2, <4>1, <4>2
      <4> HIDE DEF x, y
      <4>4. QED BY <4>3
    <3>4. t - q * a \in Int
      BY <2>3, <3>1, <3>2
    <3>5. t - q * a >= 0
      <4> DEFINE u == t - q * a
      <4>1. u \in Int /\ m * u >= 0
        BY <3>3, <3>4
      <4> HIDE DEF u
      <4>2. SUFFICES ASSUME u <= -1 PROVE FALSE
        BY <4>1 DEF u
      <4>3. m * (-1 - u) >= 0 /\ m * (-1 - u) = 0 - m - m * u
        BY <2>1, <4>1, <4>2
      <4>4. QED BY <2>1, <4>1, <4>3
    <3>6. b % m = 0
      BY <2>1, <3>3, <3>4, <3>5, ExactMod
    <3>7. QED BY <2>2, <3>6 DEF WholePortion, b
  <2>6. QED BY <1>1, <2>1, <2>4, <2>5
<1>4. QED BY <1>2, <1>3 DEF WholePortion

\* So the tasklets of every DPU divide its portion.
LEMMA LoopDivides ==
  ASSUME PowersOfTwo, LoopPlan, NEW d
  PROVE  /\ Loop!PortionSize(d) \in Nat \ {0}
         /\ LoopMissed(Loop!PortionSize(d)) = {} /\ LoopRaced(Loop!PortionSize(d)) = {}
<1>1. WholePortion(per_dpu_size) /\ per_dpu_size \in Nat \ {0}
  BY DEF LoopPlan, WholePortion
<1>2. WholePortion(Loop!last_dpu_size) /\ Loop!last_dpu_size \in Nat \ {0}
  <2>1. CASE size % per_dpu_size = 0
    BY <1>1, <2>1 DEF Loop!last_dpu_size
  <2>2. CASE size % per_dpu_size # 0
    <3>1. WholePortion(size % per_dpu_size)
      BY <2>2, WholeRemainder DEF LoopPlan
    <3>2. QED BY <1>1, <2>2, <3>1, LoopPortions DEF Loop!last_dpu_size
  <2>3. QED BY <2>1, <2>2
<1>3. QED BY <1>1, <1>2, PortionDivides DEF Loop!PortionSize

\* Every element is in the portion of one DPU and at one place there.
LEMMA LoopElements ==
  ASSUME LoopPlan
  PROVE  /\ \A d \in Loop!Dpus : \A k \in Loop!Portion(d) :
              /\ k \in 0..(per_dpu_size - 1) /\ d \in Nat
              /\ d * per_dpu_size + k \in 0..(size - 1)
         /\ \A e \in 0..(size - 1) :
              /\ e \div per_dpu_size \in Loop!Dpus
              /\ e % per_dpu_size \in Loop!Portion(e \div per_dpu_size)
              /\ (e \div per_dpu_size) * per_dpu_size + (e % per_dpu_size) = e
<1> DEFINE p == per_dpu_size
           q == Loop!nr_dpus
           r == Loop!last_dpu_size
<1>1. /\ size \in Nat \ {0} /\ p \in Nat \ {0}
      /\ q \in Nat \ {0} /\ r \in 1..p /\ (q - 1) * p + r = size
  BY LoopPortions DEF LoopPlan
<1>2. /\ Loop!Dpus = 0..(q - 1)
      /\ \A d : Loop!Portion(d) = IF d = q - 1 THEN 0..(r - 1) ELSE 0..(p - 1)
  BY DEF Loop!Dpus, Loop!Portion, Loop!Last
<1> HIDE DEF p, q, r
<1>3. ASSUME NEW d \in Loop!Dpus, NEW k \in Loop!Portion(d)
      PROVE  k \in 0..(p - 1) /\ d \in Nat /\ d * p + k \in 0..(size - 1)
  <2>1. d \in Nat /\ d <= q - 1 /\ k \in 0..(p - 1) /\ d * p \in Nat
    BY <1>1, <1>2
  <2>2. CASE d = q - 1
    BY <1>1, <1>2, <2>1, <2>2
  <2>3. CASE d < q - 1
    <3>1. d * p + p <= (q - 1) * p
      BY <1>1, <2>1, <2>3, SharesApart
    <3>2. QED BY <1>1, <2>1, <3>1
  <2>4. QED BY <1>1, <2>1, <2>2, <2>3
<1>4. ASSUME NEW e \in 0..(size - 1)
      PROVE  /\ e \div p \in Loop!Dpus /\ e % p \in Loop!Portion(e \div p)
             /\ (e \div p) * p + (e % p) = e
  <2> DEFINE a == e \div p
             b == e % p
  <2>1. a \in Int /\ b \in 0..(p - 1) /\ e = p * a + b
    BY <1>1, DivMod
  <2> HIDE DEF a, b
  <2>2. a >= 0
    <3>1. CASE a <= -1
      <4>1. p * (-1 - a) >= 0 /\ p * (-1 - a) = 0 - p - p * a
        BY <1>1, <2>1, <3>1
      <4>2. QED BY <1>1, <2>1, <4>1
    <3>2. QED BY <2>1, <3>1
  <2>3. a <= q - 1
    <3>1. CASE q <= a
      <4>1. (a - q) * p >= 0 /\ (a - q) * p = a * p - q * p
        BY <1>1, <2>1, <3>1
      <4>2. (q - 1) * p = q * p - p
        BY <1>1
      <4>3. QED BY <1>1, <2>1, <4>1, <4>2
    <3>2. QED BY <1>1, <2>1, <3>1
  <2>4. a = q - 1 => b < r
    BY <1>1, <2>1
  <2>5. a \in Loop!Dpus /\ b \in Loop!Portion(a)
    BY <1>1, <1>2, <2>1, <2>2, <2>3, <2>4
  <2>6. a * p + b = e
    BY <1>1, <2>1
  <2>7. QED BY <2>5, <2>6 DEF a, b
<1>5. QED BY <1>3, <1>4 DEF p

(***************************************************************************)
(* What the transfers have left on the DPUs, and what comes back.          *)
(***************************************************************************)
LoopFields == {"arrays", "size", "butterfly0"}
LoopLayout ==
  /\ DOMAIN mram = Loop!Dpus
  /\ \A d \in Loop!Dpus : DOMAIN mram[d] = LoopFields /\ DOMAIN mram[d].arrays = Loop!Names

\* The portion of a DPU, of an array of the caller.
LoopPiece(array, d) == [k \in Loop!Portion(d) |-> array[d * per_dpu_size + k]]

LoopSent(d, a) == mram[d].arrays[a] = LoopPiece(Loop!OldArrays[a], d)
LoopSized(d) == mram[d].size = Loop!PortionSize(d)
LoopReady(d) ==
  /\ \A a \in Loop!Names : LoopSent(d, a)
  /\ LoopSized(d) /\ mram[d].butterfly0 = (d = 0)
LoopComputed(d) == \A a \in Loop!Names : mram[d].arrays[a] = LoopPiece(Loop!NewArrays[a], d)

LoopData ==
  /\ caller = IF pc = "done" THEN Loop!NewArrays ELSE Loop!OldArrays
  /\ pc # "wait" => running = {}
  /\ pc \notin {"send", "read"} => n = 1
  /\ pc \in {"send", "send_size", "send_butterfly0", "launch", "wait"} => converted = Loop!OldArrays
  /\ pc \in {"send", "send_size", "send_butterfly0", "launch", "wait", "read"} => LoopLayout
  /\ pc = "send" =>
       /\ n \in 1..Len(Arrays)
       /\ \A d \in Loop!Dpus, j \in 1..(n - 1) : LoopSent(d, Arrays[j])
  /\ pc \in {"send_size", "send_butterfly0", "launch"} =>
       \A d \in Loop!Dpus, a \in Loop!Names : LoopSent(d, a)
  /\ pc \in {"send_butterfly0", "launch"} => \A d \in Loop!Dpus : LoopSized(d)
  /\ pc = "launch" => \A d \in Loop!Dpus : LoopReady(d)
  /\ pc = "wait" =>
       /\ running \subseteq Loop!Dpus
       /\ \A d \in Loop!Dpus : IF d \in running THEN LoopReady(d) ELSE LoopComputed(d)
  /\ pc = "read" =>
       /\ n \in 1..Len(Results)
       /\ \A d \in Loop!Dpus : LoopComputed(d)
       /\ DOMAIN converted = Loop!Names
       /\ \A j \in 1..(n - 1) : converted[Results[j]] = Loop!NewArrays[Results[j]]
  /\ pc = "convert" => \A a \in Loop!ResultNames : converted[a] = Loop!NewArrays[a]

\* The arrays that a loop sends and reads back, as enumerated and as a set.
LEMMA LoopNames ==
  /\ Len(Arrays) \in Nat \ {0} /\ DOMAIN Arrays = 1..Len(Arrays)
  /\ Len(Results) \in Nat \ {0} /\ DOMAIN Results = 1..Len(Results)
  /\ \A j \in 1..Len(Arrays) : Arrays[j] \in Loop!Names
  /\ \A a \in Loop!Names : \E j \in 1..Len(Arrays) : a = Arrays[j]
  /\ \A j \in 1..Len(Results) : Results[j] \in Loop!Names /\ Results[j] \in Loop!ResultNames
  /\ \A a \in Loop!ResultNames : a \in Loop!Names /\ \E j \in 1..Len(Results) : a = Results[j]
<1>1. /\ Arrays \in Seq(Loop!Names) /\ Len(Arrays) > 0
      /\ Results \in Seq(Loop!Names) /\ Len(Results) > 0
  BY MCConstants DEF Loop!ArraysConstants
<1>2. /\ Len(Arrays) \in Nat \ {0} /\ DOMAIN Arrays = 1..Len(Arrays)
      /\ Len(Results) \in Nat \ {0} /\ DOMAIN Results = 1..Len(Results)
  BY <1>1
<1>3. \A j \in 1..Len(Results) : Results[j] \in Loop!Names
  BY <1>1
<1>4. QED BY <1>2, <1>3 DEF Loop!Names, Loop!ResultNames

\* At the call of a loop method the plan is not made and no DPU holds anything.
LEMMA LoopInit == WholePortions /\ Loop!Init => LoopPlan /\ LoopData
BY MCConstants
   DEF WholePortions, Loop!Init, LoopPlan, LoopData, Loop!ArraysConstants, Loop!OldArrays

\* While the sizes stay as they are, so does all that is computed from them.
LEMMA LoopFrame ==
  ASSUME UNCHANGED <<size, per_dpu_size>>
  PROVE  /\ Loop!nr_dpus' = Loop!nr_dpus /\ Loop!Dpus' = Loop!Dpus
         /\ Loop!last_dpu_size' = Loop!last_dpu_size
         /\ Loop!OldArrays' = Loop!OldArrays /\ Loop!NewArrays' = Loop!NewArrays
         /\ \A d : Loop!Portion(d)' = Loop!Portion(d) /\ (Loop!Last(d)' <=> Loop!Last(d))
         /\ \A d : Loop!PortionSize(d)' = Loop!PortionSize(d)
         /\ \A a, d : LoopPiece(a, d)' = LoopPiece(a, d)
<1>1. size' = size /\ per_dpu_size' = per_dpu_size
  OBVIOUS
<1>2. /\ Loop!nr_dpus' = Loop!nr_dpus /\ Loop!Dpus' = Loop!Dpus
      /\ Loop!last_dpu_size' = Loop!last_dpu_size
  BY <1>1 DEF Loop!nr_dpus, Loop!Dpus, Loop!last_dpu_size
<1>3. Loop!OldArrays' = Loop!OldArrays /\ Loop!NewArrays' = Loop!NewArrays
  BY <1>1 DEF Loop!OldArrays, Loop!NewArrays
<1>4. /\ \A d : Loop!Portion(d)' = Loop!Portion(d) /\ (Loop!Last(d)' <=> Loop!Last(d))
      /\ \A d : Loop!PortionSize(d)' = Loop!PortionSize(d)
  BY <1>1, <1>2 DEF Loop!Portion, Loop!PortionSize, Loop!Last
<1>5. \A a, d : LoopPiece(a, d)' = LoopPiece(a, d)
  BY <1>1, <1>4 DEF LoopPiece
<1>6. QED BY <1>2, <1>3, <1>4, <1>5

\* Every step of a loop method keeps its plan.
LEMMA LoopPlanStep ==
  ASSUME LoopPlan, [Loop!Next]_(Loop!vars)
  PROVE  LoopPlan'
<1>1. CASE Loop!Plan
  <2>1. /\ size' = size /\ per_dpu_size' \in Powers /\ per_dpu_size' >= BLOCK_SIZE
        /\ per_dpu_size' \in Nat \ {0}
    BY <1>1, PowersAre DEF LoopPlan, Loop!Plan, BLOCK_SIZE
  <2>2. pc' # "plan" => Loop!nr_dpus' <= NR_DPUS
    <3>1. SUFFICES ASSUME pc' # "plan" PROVE Loop!nr_dpus' <= NR_DPUS
      OBVIOUS
    <3>2. ~(Loop!nr_dpus > NR_DPUS) /\ per_dpu_size' = per_dpu_size
      BY <1>1, <3>1 DEF Loop!Plan
    <3>3. Loop!nr_dpus' = Loop!nr_dpus
      BY <2>1, <3>2 DEF Loop!nr_dpus
    <3>4. NR_DPUS \in Nat /\ Loop!nr_dpus \in Nat
      BY MCConstants, LoopPortions DEF Loop!ArraysConstants
    <3>5. QED BY <3>2, <3>3, <3>4
  <2>3. WholePortion(size)'
    BY <2>1 DEF LoopPlan, WholePortion
  <2>4. QED BY <2>1, <2>2, <2>3 DEF LoopPlan
<1>2. CASE /\ UNCHANGED <<size, per_dpu_size>> /\ (pc' # "plan" => pc # "plan")
  BY <1>2, LoopFrame DEF LoopPlan, WholePortion
<1>3. QED
  BY <1>1, <1>2
     DEF Loop!Next, Loop!Host, Loop!Alloc, Loop!Send, Loop!SendSize, Loop!SendButterfly0,
         Loop!Launch, Loop!Return, Loop!Read, Loop!Convert, Loop!RunDpu, Loop!Stopped,
         Loop!vars, Loop!plan

\* The plan and the allocation.
LEMMA LoopPlanData ==
  ASSUME LoopPlan, LoopData, Loop!Plan \/ Loop!Alloc PROVE LoopData'
<1>1. CASE Loop!Plan
  <2>1. pc = "plan" /\ pc' \in {"plan", "alloc"} /\ UNCHANGED <<size, caller, running, n>>
    BY <1>1 DEF Loop!Plan
  <2>2. Loop!OldArrays' = Loop!OldArrays
    BY <2>1 DEF Loop!OldArrays
  <2>3. QED BY <2>1, <2>2 DEF LoopData
<1>2. CASE Loop!Alloc
  <2>1. /\ pc = "alloc" /\ pc' \in {"send", "abort"}
        /\ UNCHANGED <<size, per_dpu_size, caller, running, n>>
    BY <1>2 DEF Loop!Alloc, Loop!plan
  <2>2. caller = Loop!OldArrays /\ running = {} /\ n = 1
    BY <2>1 DEF LoopData
  <2>3. CASE pc' = "send"
    <3>1. converted' = caller /\
          mram' = [d \in Loop!Dpus |->
                     [arrays |-> [a \in Loop!Names |-> NoInit], size |-> 0, butterfly0 |-> FALSE]]
      BY <1>2, <2>3 DEF Loop!Alloc
    <3>2. LoopLayout'
      BY <2>1, <3>1, LoopFrame DEF LoopLayout, LoopFields
    <3>3. n' \in 1..Len(Arrays) /\ 1..(n' - 1) = {}
      BY <2>1, <2>2, LoopNames
    <3>4. QED BY <2>1, <2>2, <2>3, <3>1, <3>2, <3>3, LoopFrame DEF LoopData
  <2>4. CASE pc' = "abort"
    BY <2>1, <2>2, <2>4, LoopFrame DEF LoopData
  <2>5. QED BY <2>1, <2>3, <2>4
<1>3. QED BY <1>1, <1>2

\* The loop over the arrays goes on with the next one.
LEMMA NextIndex ==
  ASSUME NEW l \in Nat, NEW j \in 1..l, j # l
  PROVE  j + 1 \in 1..l /\ 1..((j + 1) - 1) = 1..j
OBVIOUS

\* The transfers to the DPUs.
LEMMA LoopSendData ==
  ASSUME LoopPlan, LoopData, Loop!Send PROVE LoopData'
<1>1. /\ pc = "send" /\ pc' \in {"send", "send_size"}
      /\ UNCHANGED <<size, per_dpu_size, caller, converted, running>>
  BY DEF Loop!Send, Loop!plan
<1>2. /\ caller = Loop!OldArrays /\ converted = Loop!OldArrays /\ running = {} /\ LoopLayout
      /\ n \in 1..Len(Arrays)
      /\ \A d \in Loop!Dpus, j \in 1..(n - 1) : LoopSent(d, Arrays[j])
  BY <1>1 DEF LoopData
<1>3. Arrays[n] \in Loop!Names
  BY <1>2, LoopNames
<1>4. ASSUME NEW d \in Loop!Dpus
      PROVE  /\ DOMAIN mram'[d] = LoopFields
             /\ mram'[d].arrays = [mram[d].arrays EXCEPT ![Arrays[n]] = LoopPiece(Loop!OldArrays[Arrays[n]], d)]
  <2>1. mram'[d] = [mram[d] EXCEPT !.arrays[Arrays[n]] =
                      [k \in Loop!Portion(d) |-> converted[Arrays[n]][d * per_dpu_size + k]]]
    BY DEF Loop!Send
  <2>2. mram'[d] = [mram[d] EXCEPT !.arrays =
                      [mram[d].arrays EXCEPT ![Arrays[n]] = LoopPiece(Loop!OldArrays[Arrays[n]], d)]]
    BY <1>2, <2>1 DEF LoopPiece
  <2>3. DOMAIN mram[d] = LoopFields
    BY <1>2 DEF LoopLayout
  <2>4. QED BY <2>2, <2>3 DEF LoopFields
<1>5. LoopLayout'
  <2>1. DOMAIN mram' = Loop!Dpus
    BY DEF Loop!Send
  <2>2. \A d \in Loop!Dpus : DOMAIN mram'[d].arrays = Loop!Names
    BY <1>2, <1>4 DEF LoopLayout
  <2>3. QED BY <1>1, <1>4, <2>1, <2>2, LoopFrame DEF LoopLayout
<1>6. ASSUME NEW d \in Loop!Dpus, NEW j \in 1..n PROVE LoopSent(d, Arrays[j])'
  <2>1. Arrays[j] \in Loop!Names /\ DOMAIN mram[d].arrays = Loop!Names
    BY <1>2, LoopNames DEF LoopLayout
  <2>2. mram'[d].arrays[Arrays[j]] = LoopPiece(Loop!OldArrays[Arrays[j]], d)
    <3>1. CASE Arrays[j] = Arrays[n]
      BY <1>4, <2>1, <3>1
    <3>2. CASE Arrays[j] # Arrays[n]
      <4>1. j \in 1..(n - 1)
        BY <1>2, <3>2, LoopNames
      <4>2. QED BY <1>2, <1>4, <2>1, <3>2, <4>1 DEF LoopSent
    <3>3. QED BY <3>1, <3>2
  <2>3. QED BY <1>1, <2>2, LoopFrame DEF LoopSent
<1>7. CASE n = Len(Arrays)
  <2>1. n' = 1 /\ pc' = "send_size"
    BY <1>7 DEF Loop!Send
  <2>2. \A d \in Loop!Dpus', a \in Loop!Names : LoopSent(d, a)'
    <3>1. SUFFICES ASSUME NEW d \in Loop!Dpus, NEW a \in Loop!Names PROVE LoopSent(d, a)'
      BY <1>1, LoopFrame
    <3>2. PICK j \in 1..Len(Arrays) : a = Arrays[j]
      BY LoopNames
    <3>3. QED BY <1>6, <1>7, <3>2
  <2>3. QED BY <1>1, <1>2, <1>5, <2>1, <2>2, LoopFrame DEF LoopData
<1>8. CASE n # Len(Arrays)
  <2>1. n' = n + 1 /\ pc' = "send"
    BY <1>1, <1>8 DEF Loop!Send
  <2>2. n' \in 1..Len(Arrays) /\ 1..(n' - 1) = 1..n
    <3>1. Len(Arrays) \in Nat /\ n \in 1..Len(Arrays) /\ n # Len(Arrays)
      BY <1>2, <1>8, LoopNames
    <3>2. QED BY <2>1, <3>1, NextIndex
  <2>3. \A d \in Loop!Dpus', j \in 1..(n' - 1) : LoopSent(d, Arrays[j])'
    BY <1>1, <1>6, <2>2, LoopFrame
  <2>4. QED BY <1>1, <1>2, <1>5, <2>1, <2>2, <2>3, LoopFrame DEF LoopData
<1>9. QED BY <1>7, <1>8

\* The transfer of the sizes keeps LoopData: the last DPU is sent its own.
LEMMA LoopSizeData ==
  ASSUME LoopPlan, LoopData, Loop!SendSize PROVE LoopData'
<1>1. /\ pc = "send_size" /\ pc' = "send_butterfly0"
      /\ UNCHANGED <<size, per_dpu_size, caller, converted, running, n>>
  BY DEF Loop!SendSize, Loop!plan
<1>2. /\ caller = Loop!OldArrays /\ converted = Loop!OldArrays /\ running = {} /\ LoopLayout
      /\ n = 1 /\ \A d \in Loop!Dpus, a \in Loop!Names : LoopSent(d, a)
  BY <1>1 DEF LoopData
<1>3. DOMAIN mram' = Loop!Dpus
  BY DEF Loop!SendSize
<1>4. ASSUME NEW d \in Loop!Dpus
      PROVE  /\ DOMAIN mram'[d] = LoopFields /\ mram'[d].arrays = mram[d].arrays
             /\ mram'[d].size = Loop!PortionSize(d)
  <2>1. mram'[d] = [mram[d] EXCEPT !.size = Loop!PortionSize(d)]
    BY DEF Loop!SendSize
  <2>2. DOMAIN mram[d] = LoopFields
    BY <1>2 DEF LoopLayout
  <2>3. QED BY <2>1, <2>2 DEF LoopFields
<1>5. LoopLayout'
  BY <1>1, <1>2, <1>3, <1>4, LoopFrame DEF LoopLayout
<1>6. \A d \in Loop!Dpus : LoopSized(d)' /\ \A a \in Loop!Names : LoopSent(d, a)'
  BY <1>1, <1>2, <1>4, LoopFrame DEF LoopSized, LoopSent
<1>7. QED BY <1>1, <1>2, <1>5, <1>6, LoopFrame DEF LoopData

\* The transfer of the flag of butterfly 0 keeps LoopData.
LEMMA LoopButterfly0Data ==
  ASSUME LoopPlan, LoopData, Loop!SendButterfly0 PROVE LoopData'
<1>1. /\ pc = "send_butterfly0" /\ pc' = "launch"
      /\ UNCHANGED <<size, per_dpu_size, caller, converted, running, n>>
  BY DEF Loop!SendButterfly0, Loop!plan
<1>2. /\ caller = Loop!OldArrays /\ converted = Loop!OldArrays /\ running = {} /\ LoopLayout
      /\ n = 1 /\ \A d \in Loop!Dpus : LoopSized(d) /\ \A a \in Loop!Names : LoopSent(d, a)
  BY <1>1 DEF LoopData
<1>3. DOMAIN mram' = Loop!Dpus
  BY DEF Loop!SendButterfly0
<1>4. ASSUME NEW d \in Loop!Dpus
      PROVE  /\ DOMAIN mram'[d] = LoopFields /\ mram'[d].arrays = mram[d].arrays
             /\ mram'[d].size = mram[d].size /\ mram'[d].butterfly0 = (d = 0)
  <2>1. mram'[d] = [mram[d] EXCEPT !.butterfly0 = (d = 0)]
    BY DEF Loop!SendButterfly0
  <2>2. DOMAIN mram[d] = LoopFields
    BY <1>2 DEF LoopLayout
  <2>3. QED BY <2>1, <2>2 DEF LoopFields
<1>5. LoopLayout'
  BY <1>1, <1>2, <1>3, <1>4, LoopFrame DEF LoopLayout
<1>6. \A d \in Loop!Dpus : LoopSized(d)' /\ \A a \in Loop!Names : LoopSent(d, a)'
  BY <1>1, <1>2, <1>4, LoopFrame DEF LoopSized, LoopSent
<1>7. \A d \in Loop!Dpus : LoopReady(d)'
  BY <1>4, <1>6 DEF LoopReady
<1>8. QED BY <1>1, <1>2, <1>5, <1>6, <1>7, LoopFrame DEF LoopData

\* The launch keeps LoopData: every DPU then has its portion of each array.
LEMMA LoopLaunchData ==
  ASSUME LoopPlan, LoopData, Loop!Launch PROVE LoopData'
<1>1. /\ pc = "launch" /\ pc' = "wait" /\ running' = Loop!Dpus
      /\ UNCHANGED <<size, per_dpu_size, caller, converted, n, mram>>
  BY DEF Loop!Launch, Loop!plan
<1>2. /\ caller = Loop!OldArrays /\ converted = Loop!OldArrays /\ LoopLayout
      /\ n = 1 /\ \A d \in Loop!Dpus : LoopReady(d)
  BY <1>1 DEF LoopData
<1>3. LoopLayout' /\ \A d \in Loop!Dpus : LoopReady(d)'
  BY <1>1, <1>2, LoopFrame DEF LoopLayout, LoopReady, LoopSized, LoopSent
<1>4. QED BY <1>1, <1>2, <1>3, LoopFrame DEF LoopData

(***************************************************************************)
(* What a DPU computes from its portion of the arrays: the same elements   *)
(* of what the loop of PGFFT.cpp makes of them, with the factor left out   *)
(* where the loop leaves it out.                                           *)
(***************************************************************************)
LEMMA LoopDpuComputes ==
  ASSUME PowersOfTwo, LoopPlan, LoopData, NEW d \in running, Loop!RunDpu(d), d \in Loop!Dpus,
         LoopReady(d), LoopLayout
  PROVE  LoopComputed(d)'
<1> DEFINE p == per_dpu_size
<1>0. /\ Loop!PortionSize(d) \in Nat \ {0} /\ mram[d].size = Loop!PortionSize(d)
      /\ LoopMissed(mram[d].size) = {} /\ LoopRaced(mram[d].size) = {}
  BY LoopDivides DEF LoopReady, LoopSized
<1>1. mram' = [mram EXCEPT ![d].arrays =
       [a \in Loop!Names |->
          [k \in DOMAIN mram[d].arrays[a] |->
             IF a \in Loop!ResultNames /\ k \in 0..(mram[d].size - 1)
             THEN Compute(a, [b \in Loop!Names |-> mram[d].arrays[b][k]], k = 0 /\ mram[d].butterfly0)
             ELSE mram[d].arrays[a][k]]]]
      /\ UNCHANGED <<size, per_dpu_size>>
  <2>1. PICK garbled \in SUBSET LoopRaced(mram[d].size) :
          mram' = [mram EXCEPT ![d].arrays =
            [a \in Loop!Names |->
               [k \in DOMAIN mram[d].arrays[a] |->
                  IF k \notin Loop!Changed(a, mram[d].size) THEN mram[d].arrays[a][k]
                  ELSE IF k \in garbled THEN NoInit
                  ELSE Compute(a, [b \in Loop!Names |-> mram[d].arrays[b][k]],
                               k = 0 /\ mram[d].butterfly0)]]]
    BY DEF Loop!RunDpu
  <2> DEFINE Ran(a, k) == IF k \notin Loop!Changed(a, mram[d].size) THEN mram[d].arrays[a][k]
                          ELSE IF k \in garbled THEN NoInit
                          ELSE Compute(a, [b \in Loop!Names |-> mram[d].arrays[b][k]],
                                       k = 0 /\ mram[d].butterfly0)
             Whole(a, k) == IF a \in Loop!ResultNames /\ k \in 0..(mram[d].size - 1)
                            THEN Compute(a, [b \in Loop!Names |-> mram[d].arrays[b][k]],
                                         k = 0 /\ mram[d].butterfly0)
                            ELSE mram[d].arrays[a][k]
  <2>2. mram' = [mram EXCEPT ![d].arrays =
                   [a \in Loop!Names |-> [k \in DOMAIN mram[d].arrays[a] |-> Ran(a, k)]]]
    BY <2>1
  <2>3. \A a, k : Ran(a, k) = Whole(a, k)
    <3>1. garbled = {}
      BY <1>0, <2>1
    <3>2. \A a : Loop!Changed(a, mram[d].size) =
                  IF a \in Loop!ResultNames THEN 0..(mram[d].size - 1) ELSE {}
      BY <1>0 DEF Loop!Changed
    <3>3. QED BY <3>1, <3>2
  <2> HIDE DEF Ran, Whole
  <2>4. [a \in Loop!Names |-> [k \in DOMAIN mram[d].arrays[a] |-> Ran(a, k)]]
        = [a \in Loop!Names |-> [k \in DOMAIN mram[d].arrays[a] |-> Whole(a, k)]]
    BY <2>3
  <2>5. mram' = [mram EXCEPT ![d].arrays =
                   [a \in Loop!Names |-> [k \in DOMAIN mram[d].arrays[a] |-> Whole(a, k)]]]
    BY <2>2, <2>4
  <2>6. UNCHANGED <<size, per_dpu_size>>
    BY DEF Loop!RunDpu, Loop!plan
  <2>7. QED BY <2>5, <2>6 DEF Whole
<1>2. DOMAIN mram = Loop!Dpus /\ DOMAIN mram[d] = LoopFields
  BY DEF LoopLayout
<1>3. /\ \A a \in Loop!Names : mram[d].arrays[a] = [k \in Loop!Portion(d) |-> Loop!OldArrays[a][d * p + k]]
      /\ mram[d].butterfly0 = (d = 0)
      /\ mram[d].size = IF Loop!Last(d) THEN Loop!last_dpu_size ELSE p
  BY DEF LoopReady, LoopSent, LoopSized, LoopPiece, Loop!PortionSize
<1>4. ASSUME NEW k \in Loop!Portion(d)
      PROVE  k \in 0..(mram[d].size - 1) /\ k \in Nat /\ d * p + k \in 0..(size - 1) /\ (k = 0 /\ d = 0 <=> d * p + k = 0)
  <2>1. k \in 0..(p - 1) /\ d \in Nat /\ d * p + k \in 0..(size - 1) /\ p \in Nat \ {0}
    BY LoopElements DEF LoopPlan
  <2>2. k \in 0..(mram[d].size - 1)
    BY <1>3, LoopPortions, <2>1 DEF Loop!Portion
  <2>3. d * p \in Nat /\ (d # 0 => d * p # 0)
    BY <2>1
  <2>4. d = 0 => d * p = 0
    BY <2>1
  <2> HIDE DEF p
  <2>5. QED BY <2>1, <2>2, <2>3, <2>4
<1>5. ASSUME NEW a \in Loop!Names
      PROVE  mram'[d].arrays[a] = [k \in Loop!Portion(d) |-> Loop!NewArrays[a][d * p + k]]
  <2>1. mram'[d].arrays[a] =
          [k \in Loop!Portion(d) |->
             IF a \in Loop!ResultNames /\ k \in 0..(mram[d].size - 1)
             THEN Compute(a, [b \in Loop!Names |-> mram[d].arrays[b][k]], k = 0 /\ mram[d].butterfly0)
             ELSE mram[d].arrays[a][k]]
    <3>1. mram'[d].arrays =
            [b \in Loop!Names |->
              [k \in DOMAIN mram[d].arrays[b] |->
                 IF b \in Loop!ResultNames /\ k \in 0..(mram[d].size - 1)
                 THEN Compute(b, [c \in Loop!Names |-> mram[d].arrays[c][k]], k = 0 /\ mram[d].butterfly0)
                 ELSE mram[d].arrays[b][k]]]
      BY <1>1, <1>2 DEF LoopFields
    <3>2. DOMAIN mram[d].arrays[a] = Loop!Portion(d)
      BY <1>3
    <3>3. QED BY <3>1, <3>2
  <2>2. ASSUME NEW k \in Loop!Portion(d)
        PROVE  (IF a \in Loop!ResultNames /\ k \in 0..(mram[d].size - 1)
                THEN Compute(a, [b \in Loop!Names |-> mram[d].arrays[b][k]], k = 0 /\ mram[d].butterfly0)
                ELSE mram[d].arrays[a][k]) = Loop!NewArrays[a][d * p + k]
    <3>1. d * p + k \in 0..(size - 1) /\ k \in 0..(mram[d].size - 1)
      BY <1>4
    <3>2. \A b \in Loop!Names : mram[d].arrays[b][k] = Element(b, d * p + k)
      BY <1>3, <3>1 DEF Loop!OldArrays
    <3>3. [b \in Loop!Names |-> mram[d].arrays[b][k]] = [b \in Loop!Names |-> Element(b, d * p + k)]
      BY <3>2
    <3>4. (k = 0 /\ mram[d].butterfly0) = (d * p + k = 0)
      BY <1>3, <1>4
    <3>5. Loop!NewArrays[a][d * p + k] =
            IF a \in Loop!ResultNames
            THEN Compute(a, [b \in Loop!Names |-> Element(b, d * p + k)], d * p + k = 0)
            ELSE Element(a, d * p + k)
      BY <3>1 DEF Loop!NewArrays
    <3>6. QED BY <3>1, <3>2, <3>3, <3>4, <3>5
  <2>3. QED BY <2>1, <2>2
<1>6. UNCHANGED <<size, per_dpu_size>>
  BY <1>1
<1>7. Loop!NewArrays' = Loop!NewArrays /\ \A array, e : LoopPiece(array, e)' = LoopPiece(array, e)
  BY <1>6, LoopFrame
<1>8. ASSUME NEW a \in Loop!Names
      PROVE  mram'[d].arrays[a] = LoopPiece(Loop!NewArrays[a], d)
  BY <1>5 DEF LoopPiece
<1>9. QED BY <1>6, <1>7, <1>8 DEF LoopComputed, LoopPiece

\* A DPU that finishes keeps LoopData: its portions are those of the new arrays.
LEMMA LoopRunData ==
  ASSUME PowersOfTwo, LoopPlan, LoopData, NEW d \in running, Loop!RunDpu(d) PROVE LoopData'
<1>1. /\ pc = "wait" /\ pc' = "wait" /\ running' = running \ {d}
      /\ UNCHANGED <<size, per_dpu_size, caller, converted, n>>
  BY DEF Loop!RunDpu, Loop!plan, LoopData
<1>2. /\ caller = Loop!OldArrays /\ converted = Loop!OldArrays /\ LoopLayout /\ n = 1
      /\ running \subseteq Loop!Dpus
      /\ \A e \in Loop!Dpus : IF e \in running THEN LoopReady(e) ELSE LoopComputed(e)
  BY <1>1 DEF LoopData
<1>3. d \in Loop!Dpus /\ LoopReady(d)
  BY <1>2
<1>4. LoopComputed(d)'
  BY <1>2, <1>3, LoopDpuComputes
<1>5. DOMAIN mram' = Loop!Dpus /\ \A e \in Loop!Dpus : e # d => mram'[e] = mram[e]
  BY <1>2 DEF Loop!RunDpu, LoopLayout
<1>6. DOMAIN mram'[d] = LoopFields /\ DOMAIN mram'[d].arrays = Loop!Names
  <2>1. DOMAIN mram = Loop!Dpus /\ DOMAIN mram[d] = LoopFields
    BY <1>2, <1>3 DEF LoopLayout
  <2>2. QED BY <1>3, <2>1 DEF Loop!RunDpu, LoopFields
<1>7. LoopLayout'
  BY <1>1, <1>2, <1>5, <1>6, LoopFrame DEF LoopLayout
<1>8. ASSUME NEW e \in Loop!Dpus PROVE IF e \in running' THEN LoopReady(e)' ELSE LoopComputed(e)'
  <2>1. CASE e = d
    BY <1>1, <1>4, <2>1
  <2>2. CASE e # d
    <3>1. (LoopReady(e) => LoopReady(e)') /\ (LoopComputed(e) => LoopComputed(e)')
      BY <1>1, <1>5, <2>2, LoopFrame DEF LoopReady, LoopSent, LoopSized, LoopComputed
    <3>2. e \in running' <=> e \in running
      BY <1>1, <2>2
    <3>3. QED BY <1>2, <3>1, <3>2
  <2>3. QED BY <2>1, <2>2
<1>9. QED BY <1>1, <1>2, <1>7, <1>8, LoopFrame DEF LoopData

\* The return from the launch keeps LoopData: no DPU is running any more.
LEMMA LoopReturnData ==
  ASSUME LoopPlan, LoopData, Loop!Return PROVE LoopData'
<1>1. /\ pc = "wait" /\ pc' = "read" /\ running = {} /\ running' = {}
      /\ UNCHANGED <<size, per_dpu_size, caller, converted, n, mram>>
  BY DEF Loop!Return, Loop!plan
<1>2. /\ caller = Loop!OldArrays /\ converted = Loop!OldArrays /\ LoopLayout /\ n = 1
      /\ \A d \in Loop!Dpus : LoopComputed(d)
  BY <1>1 DEF LoopData
<1>3. LoopLayout' /\ \A d \in Loop!Dpus : LoopComputed(d)'
  BY <1>1, <1>2, LoopFrame DEF LoopLayout, LoopComputed
<1>4. DOMAIN converted' = Loop!Names /\ n' \in 1..Len(Results) /\ 1..(n' - 1) = {}
  BY <1>1, <1>2, LoopNames DEF Loop!OldArrays
<1>5. QED BY <1>1, <1>2, <1>3, <1>4, LoopFrame DEF LoopData

\* A transfer to the host puts the portions of an array together again.
LEMMA LoopReadData ==
  ASSUME LoopPlan, LoopData, Loop!Read PROVE LoopData'
<1> DEFINE p == per_dpu_size
           a == Results[n]
<1>1. /\ pc = "read" /\ pc' \in {"read", "convert"} /\ UNCHANGED <<size, per_dpu_size, caller, running>>
      /\ converted' = [converted EXCEPT ![a] =
           [e \in 0..(size - 1) |->
              IF e % p \in Loop!Portion(e \div p) THEN mram[e \div p].arrays[a][e % p] ELSE @[e]]]
  BY DEF Loop!Read, Loop!plan
<1>2. /\ caller = Loop!OldArrays /\ running = {} /\ LoopLayout
      /\ n \in 1..Len(Results)
      /\ \A d \in Loop!Dpus : LoopComputed(d)
      /\ DOMAIN converted = Loop!Names
      /\ \A j \in 1..(n - 1) : converted[Results[j]] = Loop!NewArrays[Results[j]]
  BY <1>1 DEF LoopData
<1>3. a \in Loop!Names
  BY <1>2, LoopNames
<1>4. converted'[a] = Loop!NewArrays[a]
  <2>1. converted'[a] =
          [e \in 0..(size - 1) |->
             IF e % p \in Loop!Portion(e \div p) THEN mram[e \div p].arrays[a][e % p] ELSE converted[a][e]]
    BY <1>1, <1>2, <1>3
  <2>2. ASSUME NEW e \in 0..(size - 1)
        PROVE  (IF e % p \in Loop!Portion(e \div p) THEN mram[e \div p].arrays[a][e % p] ELSE converted[a][e])
                 = Loop!NewArrays[a][e]
    <3>1. /\ e \div p \in Loop!Dpus /\ e % p \in Loop!Portion(e \div p)
          /\ (e \div p) * p + (e % p) = e
      BY LoopElements
    <3>2. mram[e \div p].arrays[a] = [k \in Loop!Portion(e \div p) |-> Loop!NewArrays[a][(e \div p) * p + k]]
      BY <1>2, <1>3, <3>1 DEF LoopComputed, LoopPiece
    <3>3. QED BY <3>1, <3>2
  <2>3. Loop!NewArrays[a] = [e \in 0..(size - 1) |-> Loop!NewArrays[a][e]]
    BY <1>3 DEF Loop!NewArrays
  <2>4. QED BY <2>1, <2>2, <2>3
<1>5. DOMAIN converted' = Loop!Names
  BY <1>1, <1>2
<1>6. ASSUME NEW j \in 1..n PROVE converted'[Results[j]] = Loop!NewArrays[Results[j]]
  <2>1. CASE Results[j] = a
    BY <1>4, <2>1
  <2>2. CASE Results[j] # a
    <3>1. j \in 1..(n - 1) /\ Results[j] \in Loop!Names
      BY <1>2, <2>2, LoopNames
    <3>2. QED BY <1>1, <1>2, <2>2, <3>1
  <2>3. QED BY <2>1, <2>2
<1>7. CASE n = Len(Results)
  <2>1. n' = 1 /\ pc' = "convert"
    BY <1>7 DEF Loop!Read
  <2>2. \A b \in Loop!ResultNames : converted'[b] = Loop!NewArrays[b]
    BY <1>6, <1>7, LoopNames
  <2>3. Loop!ResultNames' = Loop!ResultNames
    BY DEF Loop!ResultNames
  <2>4. QED BY <1>1, <1>2, <2>1, <2>2, <2>3, LoopFrame DEF LoopData
<1>8. CASE n # Len(Results)
  <2>1. n' = n + 1 /\ pc' = "read" /\ mram' = mram
    BY <1>1, <1>8 DEF Loop!Read
  <2>2. n' \in 1..Len(Results) /\ 1..(n' - 1) = 1..n
    <3>1. Len(Results) \in Nat /\ n \in 1..Len(Results) /\ n # Len(Results)
      BY <1>2, <1>8, LoopNames
    <3>2. QED BY <2>1, <3>1, NextIndex
  <2>3. LoopLayout' /\ \A d \in Loop!Dpus : LoopComputed(d)'
    BY <1>1, <1>2, <2>1, LoopFrame DEF LoopLayout, LoopComputed
  <2>4. QED BY <1>1, <1>2, <1>5, <1>6, <2>1, <2>2, <2>3, LoopFrame DEF LoopData
<1>9. QED BY <1>7, <1>8

\* The conversion of what was read keeps LoopData: the caller's arrays are the new ones.
LEMMA LoopConvertData ==
  ASSUME LoopPlan, LoopData, Loop!Convert PROVE LoopData'
<1>1. /\ pc = "convert" /\ pc' = "done" /\ UNCHANGED <<size, per_dpu_size, converted, running, n>>
      /\ caller' = [a \in Loop!Names |-> IF a \in Loop!ResultNames THEN converted[a] ELSE caller[a]]
  BY DEF Loop!Convert, Loop!plan
<1>2. /\ caller = Loop!OldArrays /\ running = {} /\ n = 1
      /\ \A a \in Loop!ResultNames : converted[a] = Loop!NewArrays[a]
  BY <1>1 DEF LoopData
<1>3. caller' = Loop!NewArrays
  <2>1. ASSUME NEW a \in Loop!Names
        PROVE  (IF a \in Loop!ResultNames THEN converted[a] ELSE caller[a]) = Loop!NewArrays[a]
    <3>1. a \notin Loop!ResultNames => Loop!NewArrays[a] = Loop!OldArrays[a]
      BY DEF Loop!NewArrays, Loop!OldArrays
    <3>2. QED BY <1>2, <3>1
  <2>2. Loop!NewArrays = [a \in Loop!Names |-> Loop!NewArrays[a]]
    BY DEF Loop!NewArrays
  <2>3. QED BY <1>1, <2>1, <2>2
<1>4. QED BY <1>1, <1>2, <1>3, LoopFrame DEF LoopData

\* A step that changes nothing keeps LoopData.
LEMMA LoopStutterData ==
  ASSUME LoopPlan, LoopData, UNCHANGED Loop!vars PROVE LoopData'
<1>1. UNCHANGED <<pc, size, per_dpu_size, caller, converted, n, mram, running>>
  BY DEF Loop!vars, Loop!plan
<1>2. LoopLayout => LoopLayout'
  BY <1>1, LoopFrame DEF LoopLayout
<1>3. /\ \A d, a : LoopSent(d, a) => LoopSent(d, a)'
      /\ \A d : LoopSized(d) => LoopSized(d)'
      /\ \A d : LoopComputed(d) => LoopComputed(d)'
  BY <1>1, LoopFrame DEF LoopSent, LoopSized, LoopComputed
<1>4. \A d : LoopReady(d) => LoopReady(d)'
  BY <1>1, <1>3 DEF LoopReady
<1>5. QED BY <1>1, <1>2, <1>3, <1>4, LoopFrame DEF LoopData

LoopInv == LoopPlan /\ LoopData

\* Every step of a loop method keeps its whole invariant, plan and data.
LEMMA LoopStep == ASSUME PowersOfTwo, LoopInv, [Loop!Next]_(Loop!vars) PROVE LoopInv'
<1>1. LoopPlan /\ LoopData /\ LoopPlan'
  BY LoopPlanStep DEF LoopInv
<1>2. LoopData'
  BY <1>1, LoopPlanData, LoopSendData, LoopSizeData, LoopButterfly0Data, LoopLaunchData, LoopRunData,
     LoopReturnData, LoopReadData, LoopConvertData, LoopStutterData
     DEF Loop!Next, Loop!Host, Loop!Stopped
<1>3. QED BY <1>1, <1>2 DEF LoopInv

\* The invariant gives what is checked of the plan of a loop: no more DPUs than there are, and no
\* element left out.
LEMMA LoopCovers == ASSUME PowersOfTwo, LoopInv PROVE Loop!PortionsCover /\ Loop!PortionsDivide
<1>1. Loop!PortionsDivide
  BY LoopDivides DEF LoopInv, Loop!PortionsDivide
<1>2. ASSUME pc # "plan"
      PROVE  /\ Loop!nr_dpus \in 1..NR_DPUS
             /\ Loop!last_dpu_size \in 1..per_dpu_size
             /\ (Loop!nr_dpus - 1) * per_dpu_size + Loop!last_dpu_size = size
  <2>1. NR_DPUS \in Nat
    BY MCConstants DEF Loop!ArraysConstants
  <2>2. LoopPlan
    BY DEF LoopInv
  <2>3. QED BY <1>2, <2>1, <2>2, LoopPortions DEF LoopPlan
<1>3. QED BY <1>1, <1>2 DEF Loop!PortionsCover

\* And of its transfers: a DPU is sent all that its program reads before it is launched.
LEMMA LoopMeets == ASSUME LoopInv PROVE Loop!TransfersMeet
<1>1. SUFFICES ASSUME pc = "wait", running = Loop!Dpus, NEW d \in Loop!Dpus
               PROVE  /\ mram[d].butterfly0 = (d = 0)
                      /\ \A a \in Loop!Names :
                           mram[d].arrays[a] =
                             [k \in 0..(mram[d].size - 1) |-> Element(a, d * per_dpu_size + k)]
  BY DEF Loop!TransfersMeet
<1>2. LoopReady(d) /\ LoopPlan
  BY <1>1 DEF LoopInv, LoopData
<1>3. Loop!Portion(d) = 0..(mram[d].size - 1)
  BY <1>2 DEF LoopReady, LoopSized, Loop!Portion, Loop!PortionSize
<1>4. ASSUME NEW a \in Loop!Names, NEW k \in Loop!Portion(d)
      PROVE  Loop!OldArrays[a][d * per_dpu_size + k] = Element(a, d * per_dpu_size + k)
  BY <1>2, LoopElements DEF Loop!OldArrays
<1>5. QED BY <1>2, <1>3, <1>4 DEF LoopReady, LoopSent, LoopPiece

\* A step of the method changes what the caller has only when it is complete.
LEMMA LoopReplaces ==
  ASSUME LoopInv, LoopInv', [Loop!Next]_(Loop!vars)
  PROVE  /\ UNCHANGED <<Loop!OldArrays, Loop!NewArrays>>
         /\ caller' = caller \/ (caller = Loop!OldArrays /\ caller' = Loop!NewArrays)
<1>1. size' = size
  BY DEF Loop!Next, Loop!Host, Loop!Plan, Loop!Alloc, Loop!Send, Loop!SendSize, Loop!SendButterfly0,
         Loop!Launch, Loop!Return, Loop!Read, Loop!Convert, Loop!RunDpu, Loop!Stopped,
         Loop!vars, Loop!plan
<1>2. UNCHANGED <<Loop!OldArrays, Loop!NewArrays>>
  BY <1>1 DEF Loop!OldArrays, Loop!NewArrays
<1>3. CASE Loop!Convert
  <2>1. pc = "convert" /\ pc' = "done"
    BY <1>3 DEF Loop!Convert
  <2>2. QED BY <1>2, <2>1 DEF LoopInv, LoopData
<1>4. CASE ~Loop!Convert
  BY <1>2, <1>4
     DEF Loop!Next, Loop!Host, Loop!Plan, Loop!Alloc, Loop!Send, Loop!SendSize, Loop!SendButterfly0,
         Loop!Launch, Loop!Return, Loop!Read, Loop!RunDpu, Loop!Stopped, Loop!vars
<1>5. QED BY <1>2, <1>3, <1>4

--------------------------------------------------------------------------------
(***************************************************************************)
(* One call of any of the methods.                                         *)
(***************************************************************************)
MethodInv ==
  \/ method = "layer" /\ LayerInv
  \/ method = "layer_2" /\ Layer2Inv
  \/ method = "loop" /\ LoopInv

\* The method called stays the same, and each step is one of its own.
LEMMA MethodSteps ==
  ASSUME [Next]_vars
  PROVE  /\ method' = method
         /\ method = "layer" => [Layer!Next]_(Layer!vars)
         /\ method = "layer_2" => [Layer2!Next]_(Layer2!vars)
         /\ method = "loop" => [Loop!Next]_(Loop!vars)
<1>1. CASE UNCHANGED vars
  BY <1>1 DEF vars, layer_vars, plan_vars, Layer!vars, Layer!call, Layer!plan, Layer2!vars, Layer2!call,
              Loop!vars, Loop!plan
<1>2. CASE Host
  BY <1>2 DEF Host, Layer!Next, Layer2!Next, Loop!Next
<1>3. CASE \E d \in running : Dpu(d)
  BY <1>3 DEF Dpu, Layer!Next, Layer2!Next, Loop!Next
<1>4. QED BY <1>1, <1>2, <1>3 DEF Next, Stopped

\* So the invariant of the method called holds throughout.
LEMMA MethodInvariance == ASSUME PowersOfTwo, WholePortions PROVE Spec => []MethodInv
<1>1. Init => MethodInv
  <2>1. SUFFICES ASSUME Init PROVE MethodInv
    OBVIOUS
  <2>2. CASE method = "layer" /\ Layer!Init
    BY <2>2, LayerInit DEF MethodInv, LayerInv
  <2>3. CASE method = "layer_2" /\ Layer2!Init
    BY <2>3, Layer2Init DEF MethodInv, Layer2Inv
  <2>4. CASE method = "loop" /\ Loop!Init
    BY <2>4, LoopInit DEF MethodInv, LoopInv
  <2>5. QED BY <2>1, <2>2, <2>3, <2>4 DEF Init
<1>2. MethodInv /\ [Next]_vars => MethodInv'
  <2>1. SUFFICES ASSUME MethodInv, [Next]_vars PROVE MethodInv'
    OBVIOUS
  <2>2. CASE method = "layer" /\ LayerInv
    <3>1. LayerInv' /\ method' = "layer"
      BY <2>1, <2>2, MethodSteps, LayerStep
    <3>2. QED BY <3>1 DEF MethodInv
  <2>3. CASE method = "layer_2" /\ Layer2Inv
    <3>1. Layer2Inv' /\ method' = "layer_2"
      BY <2>1, <2>3, MethodSteps, Layer2Step
    <3>2. QED BY <3>1 DEF MethodInv
  <2>4. CASE method = "loop" /\ LoopInv
    <3>1. LoopInv' /\ method' = "loop"
      BY <2>1, <2>4, MethodSteps, LoopStep
    <3>2. QED BY <3>1 DEF MethodInv
  <2>5. QED BY <2>1, <2>2, <2>3, <2>4 DEF MethodInv
<1>3. QED BY <1>1, <1>2, PTL DEF Spec

(***************************************************************************)
(* With powers of two, and arrays whose length is one or a multiple of     *)
(* what all tasklets of a DPU compute at a time, the plans of the three    *)
(* methods cover every block or element once and give the kernels numbers  *)
(* they can divide, the smaller last portion included                      *)
(* (helib_pgfft_dpu.cpp:36-64,277-294,482-516,                             *)
(* dpu_multi_fwd_butterfly_loop.c:95-104).                                 *)
(***************************************************************************)
THEOREM PlansAlwaysCover == ASSUME PowersOfTwo, WholePortions PROVE Spec => []PlansCover
<1>1. MethodInv => PlansCover
  BY LayerCovers, Layer2Divides, LoopCovers DEF MethodInv, PlansCover
<1>2. QED BY <1>1, MethodInvariance, PTL

(***************************************************************************)
(* When the DPUs start, each has the elements and factors that belong to   *)
(* its butterflies or to its portion: the sends, which advance the host's  *)
(* array and the set of DPUs separately, stay in step                      *)
(* (helib_pgfft_dpu.cpp:344-361,777-785).                                  *)
(***************************************************************************)
THEOREM TransfersAlwaysMeet == ASSUME PowersOfTwo, WholePortions PROVE Spec => []TransfersMeet
<1>1. MethodInv => TransfersMeet
  BY LayerMeets, LoopMeets DEF MethodInv, TransfersMeet
<1>2. QED BY <1>1, MethodInvariance, PTL

(***************************************************************************)
(* The refinement: whatever the number of iterations, DPUs and blocks, and *)
(* in whatever order the DPUs finish, the caller's arrays go once from     *)
(* what they were to what new_fft_layer, new_ifft_layer or the butterfly   *)
(* loop of PGFFT.cpp makes of them.  A DPU is given no portion that its    *)
(* tasklets would compute twice or leave out: with the lengths of          *)
(* WholePortions there is none (PGFFT.cpp, helib_pgfft_dpu.cpp).           *)
(***************************************************************************)
THEOREM MethodsImplementPgfft == ASSUME PowersOfTwo, WholePortions PROVE Spec => ImplementsMethod
<1>1. Init => Op!Init
  <2>1. SUFFICES ASSUME Init PROVE Op!Init
    OBVIOUS
  <2>2. CASE method = "layer" /\ Layer!Init
    BY <2>2 DEF Op!Init, Old, New, Layer!Init, Layer!NewXp
  <2>3. CASE method = "layer_2" /\ Layer2!Init
    <3>1. caller = [e \in Layer!Elements |-> Given(e)]
      BY <2>3, SameLayer DEF Layer2!Init
    <3>2. DOMAIN Layer2!NewXp = Layer!Elements
      BY SameLayer DEF Layer!NewXp
    <3>3. QED BY <2>3, <3>1, <3>2 DEF Op!Init, Old, New
  <2>4. CASE method = "loop" /\ Loop!Init
    BY <2>4 DEF Op!Init, Old, New, Loop!Init, Loop!OldArrays, Loop!NewArrays
  <2>5. QED BY <2>1, <2>2, <2>3, <2>4 DEF Init
<1>2. MethodInv /\ MethodInv' /\ [Next]_vars => [Op!Replace]_(Op!vars)
  <2>1. SUFFICES ASSUME MethodInv, MethodInv', [Next]_vars PROVE [Op!Replace]_(Op!vars)
    OBVIOUS
  <2>2. ASSUME UNCHANGED <<Old, New>>, DOMAIN Old = DOMAIN New,
               caller' = caller \/ (caller = Old /\ caller' = New)
        PROVE  [Op!Replace]_(Op!vars)
    BY <2>2 DEF Op!Replace, Op!vars
  <2>3. method' = method
    BY <2>1, MethodSteps
  <2>4. CASE method = "layer"
    <3>1. LayerInv /\ LayerInv' /\ [Layer!Next]_(Layer!vars)
      BY <2>1, <2>3, <2>4, MethodSteps DEF MethodInv
    <3>2. Old = LayerOld /\ New = Layer!NewXp /\ Old' = LayerOld' /\ New' = Layer!NewXp'
      BY <2>3, <2>4 DEF Old, New, LayerOld
    <3>3. DOMAIN LayerOld = DOMAIN Layer!NewXp
      BY DEF LayerOld, Layer!NewXp
    <3>4. QED BY <2>2, <3>1, <3>2, <3>3, LayerReplaces
  <2>5. CASE method = "layer_2"
    <3>1. Layer2Inv /\ Layer2Inv' /\ [Layer2!Next]_(Layer2!vars)
      BY <2>1, <2>3, <2>5, MethodSteps DEF MethodInv
    <3>2. Layer2!NewXp' = Layer!NewXp'
      BY DEF Layer!half, Layer2!half, Layer!Elements, Layer2!Elements, Layer!NewElement, Layer2!NewElement,
             Layer!NewXp, Layer2!NewXp
    <3>3. Old = LayerOld /\ New = Layer!NewXp /\ Old' = LayerOld' /\ New' = Layer!NewXp'
      BY <2>3, <2>5, <3>2, SameLayer DEF Old, New, LayerOld
    <3>4. DOMAIN LayerOld = DOMAIN Layer!NewXp
      BY DEF LayerOld, Layer!NewXp
    <3>5. QED BY <2>2, <3>1, <3>3, <3>4, Layer2Replaces
  <2>6. CASE method = "loop"
    <3>1. LoopInv /\ LoopInv' /\ [Loop!Next]_(Loop!vars)
      BY <2>1, <2>3, <2>6, MethodSteps DEF MethodInv
    <3>2. /\ Old = Loop!OldArrays /\ New = Loop!NewArrays
          /\ Old' = Loop!OldArrays' /\ New' = Loop!NewArrays'
      BY <2>3, <2>6 DEF Old, New
    <3>3. DOMAIN Loop!OldArrays = DOMAIN Loop!NewArrays
      BY DEF Loop!OldArrays, Loop!NewArrays
    <3>4. QED BY <2>2, <3>1, <3>2, <3>3, LoopReplaces
  <2>7. QED BY <2>1, <2>4, <2>5, <2>6 DEF MethodInv
<1>3. QED BY <1>1, <1>2, MethodInvariance, PTL DEF Spec, ImplementsMethod, Op!Safety
================================================================================

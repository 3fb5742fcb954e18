------------------------------ MODULE CobraOffload ------------------------------
(***************************************************************************)
(* The bit-reverse copy B[rev(x)] = A[x] of CModulus.cpp and its offloaded *)
(* forms: COBRA cuts A into 2^k1 blocks of 2^q * 2^q elements that the     *)
(* DPUs transpose and permute, in as many iterations as there are too few  *)
(* DPUs; DPU_BasicBitReverseCopy gives the whole array to one DPU.         *)
(*                                                                         *)
(* Cmodulus::FFT is called from DoubleCRT::FFT by the threads of NTL's     *)
(* pool, a row to each, so that several copies run at a time.  They share  *)
(* the DPUs that dpu_alloc hands out and nothing else: the tables of       *)
(* reversed indices are thread-local.  A thread's transfers in one         *)
(* iteration are one step; a DPU that runs is a step of its own.           *)
(***************************************************************************)
EXTENDS BitReversal, FiniteSets

CONSTANTS
  Threads,
  NR_DPUS,         \* DPUs the library is compiled to use
  AVAILABLE_DPUS,  \* DPUs of the machine
  THRESH,          \* NTL_BRC_THRESH
  Q,               \* NTL_BRC_Q
  D_CACHE_SIZE,    \* largest array dpu_BasicBitReverseCopy accepts
  Ks,              \* logarithms of the array lengths
  Cached           \* sets of tables the earlier calls of a thread may have built

ASSUME CobraAssumption ==
  /\ IsFiniteSet(Threads)
  /\ NR_DPUS \in Nat \ {0}
  /\ AVAILABLE_DPUS \in Nat
  /\ Q \in Nat \ {0}
  /\ THRESH \in Nat /\ THRESH >= 2 * Q    \* "Must have", CModulus.cpp:276
  /\ Ks \subseteq Nat \ {0} /\ IsFiniteSet(Ks)
  /\ Cached \subseteq SUBSET (0..Max(Ks))

Methods == {"BitReverseCopy", "DPU_BasicBitReverseCopy"}

VARIABLES
  pc,
  method, k,      \* the call of a thread
  B,              \* its result array; A[x] is <<"A", t, x>>
  brc_mem,        \* its tables of reversed indices, empty when not built
  nr_dpus, nr_iterations,   \* the plan
  iteration,
  mram,           \* the memory of the DPUs the thread has allocated
  running,        \* those that run
  free            \* DPUs that nobody has allocated

call == <<method, k>>
plan == <<nr_dpus, nr_iterations>>
vars == <<pc, call, B, brc_mem, plan, iteration, mram, running, free>>

A(t) == [x \in 0..(2^k[t] - 1) |-> <<"A", t, x>>]
k1(t) == k[t] - 2 * Q

\* BitReverseCopy calls COBRA for the longer arrays.
IsCobra(t) == method[t] = "BitReverseCopy" /\ k[t] > THRESH
IsBasic(t) == method[t] = "BitReverseCopy" /\ k[t] <= THRESH

\* The tables a call looks up.
TablesOf(t) == IF IsCobra(t) THEN {k1(t), Q} ELSE {k[t]}

\* The blocks the 2^k1 iterations of COBRA's outer loop stand for.
loops(t) == 2^k1(t)
Dpus(t) == 0..(nr_dpus[t] - 1)

\* Mutant of Block: every iteration takes the first blocks.
Block_OfFirstIteration(t, d) == d

\* The block of A that DPU d works on.
Block(t, d) == d + iteration[t] * nr_dpus[t]

Init ==
  /\ pc = [t \in Threads |-> "call"]
  /\ method \in [Threads -> Methods] /\ k \in [Threads -> Ks]
  /\ B = [t \in Threads |-> [x \in 0..(2^k[t] - 1) |-> <<"B", t, x>>]]
  /\ brc_mem \in [Threads -> {[j \in 0..Max(Ks) |-> IF j \in built THEN BRC_table(j) ELSE <<>>] :
                                built \in Cached}]
  /\ nr_dpus = [t \in Threads |-> 0] /\ nr_iterations = [t \in Threads |-> 1]
  /\ iteration = [t \in Threads |-> 0]
  /\ mram = [t \in Threads |-> <<>>] /\ running = [t \in Threads |-> {}]
  /\ free = AVAILABLE_DPUS

At(t, label) == pc[t] = label
Goto(t, label) == pc' = [pc EXCEPT ![t] = label]

\* rev = brc_mem[k].elts(); if (!rev) rev = BRC_init(k);
Tables(t) ==
  /\ At(t, "call")
  /\ Goto(t, IF IsBasic(t) THEN "copy" ELSE IF IsCobra(t) THEN "plan_dpus" ELSE "check")
  /\ brc_mem' = [brc_mem EXCEPT ![t] =
                   [j \in DOMAIN @ |->
                      IF j \in TablesOf(t) /\ @[j] = <<>> THEN BRC_table(j) ELSE @[j]]]
  /\ nr_dpus' = [nr_dpus EXCEPT ![t] = IF IsCobra(t) THEN 2^k1(t) ELSE 1]
  /\ UNCHANGED <<call, B, nr_iterations, iteration, mram, running, free>>

\* for (i) B[rev[i]] = A[i]
Scatter(rev, a, b) ==
  [y \in DOMAIN b |-> IF \E x \in DOMAIN a : rev[x] = y
                      THEN a[CHOOSE x \in DOMAIN a : rev[x] = y] ELSE b[y]]

\* BasicBitReverseCopy, on the CPU.
Copy(t) ==
  /\ At(t, "copy")
  /\ Goto(t, "done")
  /\ B' = [B EXCEPT ![t] = Scatter(brc_mem[t][k[t]], A(t), @)]
  /\ UNCHANGED <<call, brc_mem, plan, iteration, mram, running, free>>

\* dpu_BasicBitReverseCopy throws when the array does not fit.
Check(t) ==
  /\ At(t, "check")
  /\ Goto(t, IF 2^k[t] > D_CACHE_SIZE THEN "thrown" ELSE "alloc")
  /\ UNCHANGED <<call, B, brc_mem, plan, iteration, mram, running, free>>

\* Mutant of PlanDpus: halves once too few.
PlanDpus_OnceLess(t) ==
  /\ At(t, "plan_dpus")
  /\ IF nr_dpus[t] > 2 * NR_DPUS
     THEN nr_dpus' = [nr_dpus EXCEPT ![t] = @ \div 2] /\ pc' = pc
     ELSE nr_dpus' = nr_dpus /\ Goto(t, "plan_iterations")
  /\ UNCHANGED <<call, B, brc_mem, nr_iterations, iteration, mram, running, free>>

\* while (nr_dpus > NR_DPUS) nr_dpus /= 2
PlanDpus(t) ==
  /\ At(t, "plan_dpus")
  /\ IF nr_dpus[t] > NR_DPUS
     THEN nr_dpus' = [nr_dpus EXCEPT ![t] = @ \div 2] /\ pc' = pc
     ELSE nr_dpus' = nr_dpus /\ Goto(t, "plan_iterations")
  /\ UNCHANGED <<call, B, brc_mem, nr_iterations, iteration, mram, running, free>>

\* Mutant of PlanIterations: one iteration too many when the DPUs suffice.
PlanIterations_AtLimit(t) ==
  /\ At(t, "plan_iterations")
  /\ IF loops(t) \div nr_iterations[t] >= nr_dpus[t]
     THEN nr_iterations' = [nr_iterations EXCEPT ![t] = 2 * @] /\ pc' = pc
     ELSE nr_iterations' = nr_iterations /\ Goto(t, "alloc")
  /\ UNCHANGED <<call, B, brc_mem, nr_dpus, iteration, mram, running, free>>

\* while (loops / nr_iterations > nr_dpus) nr_iterations *= 2
PlanIterations(t) ==
  /\ At(t, "plan_iterations")
  /\ IF loops(t) \div nr_iterations[t] > nr_dpus[t]
     THEN nr_iterations' = [nr_iterations EXCEPT ![t] = 2 * @] /\ pc' = pc
     ELSE nr_iterations' = nr_iterations /\ Goto(t, "alloc")
  /\ UNCHANGED <<call, B, brc_mem, nr_dpus, iteration, mram, running, free>>

\* dpu_alloc and dpu_load; DPU_ASSERT ends the program when too few are free.
Alloc(t) ==
  /\ At(t, "alloc")
  /\ IF nr_dpus[t] <= free
     THEN /\ Goto(t, "send")
          /\ free' = free - nr_dpus[t]
          /\ mram' = [mram EXCEPT ![t] = [d \in Dpus(t) |-> <<>>]]
     ELSE /\ Goto(t, "abort")
          /\ UNCHANGED <<free, mram>>
  /\ UNCHANGED <<call, B, brc_mem, plan, iteration, running>>

\* The 2^Q pieces of 2^Q elements of block b, one after the other in DPU_A.
BlockOfA(t, b) ==
  [x \in 0..(2^(2 * Q) - 1) |-> A(t)[((x \div 2^Q) * 2^(k1(t) + Q) + b * 2^Q) + (x % 2^Q)]]

\* The transfers to the DPUs and dpu_launch.
Send(t) ==
  /\ At(t, "send")
  /\ Goto(t, "wait")
  /\ mram' = [mram EXCEPT ![t] =
                IF IsCobra(t)
                THEN [d \in Dpus(t) |-> [a |-> BlockOfA(t, Block(t, d)), rev |-> brc_mem[t][Q]]]
                ELSE [d \in Dpus(t) |-> [a |-> A(t), rev |-> brc_mem[t][k[t]]]]]
  /\ running' = [running EXCEPT ![t] = Dpus(t)]
  /\ UNCHANGED <<call, B, brc_mem, plan, iteration, free>>

(***************************************************************************)
(* cobra() of dpu_cobra.c, run by one tasklet: the pieces go to DPU_T in   *)
(* reversed order, and DPU_B is DPU_T with rows and columns exchanged.     *)
(***************************************************************************)
Cobra(m) ==
  LET T == [x \in DOMAIN m.a |->
              m.a[(CHOOSE a \in 0..(2^Q - 1) : m.rev[a] = x \div 2^Q) * 2^Q + (x % 2^Q)]]
  IN [x \in DOMAIN m.a |-> T[(x % 2^Q) * 2^Q + (x \div 2^Q)]]

RunDpu(t, d) ==
  /\ At(t, "wait") /\ d \in running[t]
  /\ mram' = [mram EXCEPT ![t][d] =
                [b |-> IF IsCobra(t) THEN Cobra(@) ELSE Scatter(@.rev, @.a, @.a)]]
  /\ running' = [running EXCEPT ![t] = @ \ {d}]
  /\ UNCHANGED <<pc, call, B, brc_mem, plan, iteration, free>>

\* Mutant of b1: the place of the same block in every iteration.
b1_OfFirstIteration(t, d) == brc_mem[t][k1(t)][d]

\* b1 = rev_k1[each_dpu + i * nr_dpus]
b1(t, d) == brc_mem[t][k1(t)][Block(t, d)]

(***************************************************************************)
(* The piece c of block b goes to B at (rev_q[c] << (k1 + q)) +            *)
(* (rev_k1[b] << q): position y of B is in the piece with rev_q[c] equal   *)
(* to its upper, and of the block with rev_k1[b] equal to its middle bits. *)
(***************************************************************************)
Gather(t) ==
  [y \in DOMAIN B[t] |->
     LET c == CHOOSE c \in 0..(2^Q - 1) : brc_mem[t][Q][c] = y \div 2^(k1(t) + Q)
         blocks == {d \in Dpus(t) : b1(t, d) = (y \div 2^Q) % 2^k1(t)}
     IN IF blocks = {} THEN B[t][y]
        ELSE mram[t][CHOOSE d \in blocks : TRUE].b[c * 2^Q + (y % 2^Q)]]

\* dpu_launch returns, and dpu_copy_from gathers the results in B.
Receive(t) ==
  /\ At(t, "wait") /\ running[t] = {}
  /\ Goto(t, IF IsCobra(t) /\ iteration[t] + 1 < nr_iterations[t] THEN "send" ELSE "free")
  /\ B' = [B EXCEPT ![t] = IF IsCobra(t) THEN Gather(t) ELSE mram[t][0].b]
  /\ iteration' = [iteration EXCEPT ![t] = @ + 1]
  /\ UNCHANGED <<call, brc_mem, plan, mram, running, free>>

\* Mutant of Free: the DPUs are not freed.
Free_Forgotten(t) ==
  /\ At(t, "free")
  /\ Goto(t, "done")
  /\ UNCHANGED <<call, B, brc_mem, plan, iteration, mram, running, free>>

\* dpu_free
Free(t) ==
  /\ At(t, "free")
  /\ Goto(t, "done")
  /\ free' = free + nr_dpus[t]
  /\ mram' = [mram EXCEPT ![t] = <<>>]
  /\ UNCHANGED <<call, B, brc_mem, plan, iteration, running>>

Host(t) ==
  \/ Tables(t) \/ Copy(t) \/ Check(t) \/ PlanDpus(t) \/ PlanIterations(t)
  \/ Alloc(t) \/ Send(t) \/ Receive(t) \/ Free(t)

Returned(t) == pc[t] \in {"done", "thrown"}
Aborted == \E t \in Threads : pc[t] = "abort"

\* All threads have returned, or one of them has ended the program.
Stopped == (Aborted \/ \A t \in Threads : Returned(t)) /\ UNCHANGED vars

Next ==
  \/ ~Aborted /\ \E t \in Threads : Host(t) \/ \E d \in running[t] : RunDpu(t, d)
  \/ Stopped

Spec == Init /\ [][Next]_vars

\* Threads are scheduled, and a launched DPU runs to the end of its program.
FairSpec ==
  /\ Spec
  /\ \A t \in Threads : /\ WF_vars(~Aborted /\ Host(t))
                        /\ WF_vars(~Aborted /\ \E d \in running[t] : RunDpu(t, d))

--------------------------------------------------------------------------------
(***************************************************************************)
(* The plan divides the blocks evenly: the DPUs times the iterations are   *)
(* the blocks, no block is done twice or left out, though both numbers     *)
(* come from loops that halve and double (helib_c_modulus_dpu.cpp:152-162) *)
(* and no iteration asks for a block that the array does not have.         *)
(***************************************************************************)
Holding(t) == pc[t] \in {"send", "wait", "free"}
EvenPlan ==
  \A t \in Threads : Holding(t) /\ IsCobra(t) =>
    /\ nr_dpus[t] \in 1..NR_DPUS
    /\ nr_dpus[t] * nr_iterations[t] = loops(t)
    /\ pc[t] # "free" => \A d \in Dpus(t) : Block(t, d) \in 0..(loops(t) - 1)

(***************************************************************************)
(* No DPU is lost or handed out twice: what is free and what the threads   *)
(* hold are all the DPUs, and a thread that has returned holds none.       *)
(***************************************************************************)
Allocated == UNION {{t} \X DOMAIN mram[t] : t \in Threads}
PoolConserved ==
  /\ free + Cardinality(Allocated) = AVAILABLE_DPUS
  /\ \A t \in Threads : Returned(t) => DOMAIN mram[t] = {}

\* With NR_DPUS for every thread, no dpu_alloc fails.
NoAbort == Cardinality(Threads) * NR_DPUS <= AVAILABLE_DPUS => ~Aborted

(***************************************************************************)
(* What HElib-dpu/readme.md says of NR_DPUS, that it may be any number up  *)
(* to the available DPUs: no call ends the program for want of DPUs.       *)
(***************************************************************************)
EnoughDpus == NR_DPUS \in 1..AVAILABLE_DPUS => ~Aborted

(***************************************************************************)
(* Every element of every thread's B goes once from what it was to the     *)
(* element of the thread's own A with the reversed index.                  *)
(***************************************************************************)
Cells == UNION {{<<t, x>> : x \in DOMAIN B[t]} : t \in Threads}
Old == [c \in Cells |-> <<"B", c[1], c[2]>>]
New == [c \in Cells |-> A(c[1])[Reversed(c[2], k[c[1]])]]
Copies == INSTANCE Elementwise
            WITH cell <- [c \in Cells |-> B[c[1]][c[2]]], orig <- Old,
                 target <- New
ImplementsCopy == Copies!Safety

\* Every call returns, and unless it threw B is the bit-reversed A, also the
\* pieces of blocks that an iteration after the first has brought.
AllCopied ==
  <>(\A t \in Threads :
       \/ pc[t] = "thrown"
       \/ pc[t] = "done" /\ \A x \in DOMAIN B[t] : B[t][Reversed(x, k[t])] = A(t)[x])
================================================================================

-------------------------------- MODULE FftLayer --------------------------------
(***************************************************************************)
(* dpu_new_fft_ifft_layer: a layer of the FFT or the inverse FFT offloaded *)
(* to the single-tasklet butterfly programs.  A block of size elements is  *)
(* 2 * half of them, half butterflies, which are divided among             *)
(* per_block_dpus DPUs; with more blocks than DPUs the layer takes several *)
(* iterations.  The forward and the inverse case differ in the timers and  *)
(* the name of DPU_DO_.._BUTTERFLY0.                                       *)
(*                                                                         *)
(* The host is sequential: an action is one transfer, or one iteration of  *)
(* a planning loop.  The DPUs run concurrently, a DPU in one step.         *)
(***************************************************************************)
EXTENDS Integers, Sequences

CONSTANTS
  NR_DPUS,          \* DPUs the library is compiled to use
  AVAILABLE_DPUS,   \* DPUs dpu_alloc finds free
  Layers,           \* pairs of the numbers of blocks and elements in a block
  Given(_), Factor(_),   \* an element of xp and of wtab
  NoInit,           \* what MRAM holds before anything is sent to it
  Bf(_, _, _),      \* fwd_butterfly or inv_butterfly: a pair
  Bf0(_, _)         \* the same for the factor 1

\* What the constants are.
LayersConstants ==
  /\ NR_DPUS \in Nat \ {0} /\ AVAILABLE_DPUS \in Nat
  /\ Layers \subseteq (Nat \ {0}) \X (Nat \ {0}) /\ \A l \in Layers : l[2] % 8 = 0

VARIABLES
  pc,                \* the host's next action
  blocks, size,      \* the arguments
  nr_iterations,     \* the plan, counted down by the iterations
  per_iteration_blocks, per_block_dpus,
  xp,                \* the caller's array
  dpu_xp,            \* its converted copy
  start,             \* dpu_xp_start_it: where the iteration's blocks start
  i, n,              \* the current block of the iteration and its next transfer
  mram,              \* mram[d]: xp0, xp1, wtab, butterfly0 and size of a DPU
  running            \* DPUs that have not finished the launched program

call == <<blocks, size>>
plan == <<nr_iterations, per_iteration_blocks, per_block_dpus>>
vars == <<pc, call, plan, xp, dpu_xp, start, i, n, mram, running>>

half == size \div 2
nr_dpus == per_block_dpus * per_iteration_blocks
per_dpu_size == half \div per_block_dpus
Dpus == 0..(nr_dpus - 1)
Elements == 0..(blocks * size - 1)

Init ==
  /\ pc = "plan_iterations"
  /\ \E l \in Layers : blocks = l[1] /\ size = l[2]
  /\ nr_iterations = 1 /\ per_iteration_blocks = 0 /\ per_block_dpus = 0
  /\ xp = [e \in Elements |-> Given(e)]
  /\ dpu_xp = <<>> /\ start = 0 /\ i = 0 /\ n = 1 /\ mram = <<>> /\ running = {}

\* while (blocks / nr_iterations > NR_DPUS)
PlanIterations ==
  /\ pc = "plan_iterations"
  /\ IF blocks \div nr_iterations > NR_DPUS
     THEN nr_iterations' = 2 * nr_iterations /\ UNCHANGED <<pc, per_iteration_blocks, per_block_dpus>>
     ELSE /\ per_iteration_blocks' = blocks \div nr_iterations
          /\ per_block_dpus' = NR_DPUS \div (blocks \div nr_iterations)
          /\ pc' = "plan_dpus"
          /\ UNCHANGED nr_iterations
  /\ UNCHANGED <<call, xp, dpu_xp, start, i, n, mram, running>>

\* while ((size / 2) / per_block_dpus < 4)
PlanDpus ==
  /\ pc = "plan_dpus"
  /\ IF half \div per_block_dpus < 4
     THEN per_block_dpus' = per_block_dpus \div 2 /\ pc' = pc
     ELSE per_block_dpus' = per_block_dpus /\ pc' = "alloc"
  /\ UNCHANGED <<call, nr_iterations, per_iteration_blocks, xp, dpu_xp, start, i, n, mram, running>>

\* dpu_alloc, which ends the program when there are not enough DPUs, and the
\* conversion of xp.
Alloc ==
  /\ pc = "alloc"
  /\ IF nr_dpus > AVAILABLE_DPUS
     THEN pc' = "abort" /\ UNCHANGED <<dpu_xp, mram>>
     ELSE /\ pc' = "send"
          /\ dpu_xp' = xp
          /\ mram' = [d \in Dpus |->
               [xp0 |-> NoInit, xp1 |-> NoInit, wtab |-> NoInit, butterfly0 |-> NoInit, size |-> 0]]
  /\ UNCHANGED <<call, plan, xp, start, i, n, running>>

\* The elements of the current block from the given one on, for its DPU number j.
Part(from, j) == [k \in 0..(per_dpu_size - 1) |-> dpu_xp[start + i * size + from + j * per_dpu_size + k]]

Payload(name, j) ==
  CASE name = "xp0" -> Part(0, j)
    [] name = "xp1" -> Part(half, j)
    [] name = "wtab" -> [k \in 0..(per_dpu_size - 1) |-> Factor(j * per_dpu_size + k)]
    [] name = "butterfly0" -> j = 0

Transfers == <<"xp0", "xp1", "wtab", "butterfly0">>

(***************************************************************************)
(* One transfer of a block to its DPUs, the next per_block_dpus ones of    *)
(* the transfer's own iterator.                                            *)
(***************************************************************************)
Send ==
  /\ pc = "send"
  /\ mram' = [d \in Dpus |->
       IF d \div per_block_dpus = i
       THEN [mram[d] EXCEPT ![Transfers[n]] = Payload(Transfers[n], d % per_block_dpus)]
       ELSE mram[d]]
  /\ \/ /\ n < Len(Transfers)
        /\ n' = n + 1 /\ UNCHANGED <<pc, i>>
     \/ /\ n = Len(Transfers) /\ i + 1 < per_iteration_blocks
        /\ n' = 1 /\ i' = i + 1 /\ UNCHANGED pc
     \/ /\ n = Len(Transfers) /\ i + 1 = per_iteration_blocks
        /\ n' = 1 /\ i' = 0 /\ pc' = "launch"
  /\ UNCHANGED <<call, plan, xp, dpu_xp, start, running>>

\* dpu_broadcast_to of DPU_SIZE and dpu_launch.
Launch ==
  /\ pc = "launch"
  /\ mram' = [d \in Dpus |-> [mram[d] EXCEPT !.size = per_dpu_size]]
  /\ running' = Dpus
  /\ pc' = "wait"
  /\ UNCHANGED <<call, plan, xp, dpu_xp, start, i, n>>

\* The single-tasklet program computes butterfly after butterfly.
Pair(m, k) ==
  IF k = 0 /\ m.butterfly0 THEN Bf0(m.xp0[k], m.xp1[k]) ELSE Bf(m.xp0[k], m.xp1[k], m.wtab[k])

RunDpu(d) ==
  /\ d \in running
  /\ mram' = [mram EXCEPT
       ![d].xp0 = [k \in DOMAIN @ |-> Pair(mram[d], k)[1]],
       ![d].xp1 = [k \in DOMAIN @ |-> Pair(mram[d], k)[2]]]
  /\ running' = running \ {d}
  /\ UNCHANGED <<pc, call, plan, xp, dpu_xp, start, i, n>>

\* dpu_launch(set, DPU_SYNCHRONOUS) returns when no DPU runs any more.
Return ==
  /\ pc = "wait"
  /\ running = {}
  /\ pc' = "read"
  /\ UNCHANGED <<call, plan, xp, dpu_xp, start, i, n, mram, running>>

\* Mutant of Behind: the next iteration starts where this one did.
Behind_NotMoved == start

\* Where dpu_xp points after the blocks of an iteration.
Behind == start + per_iteration_blocks * size

\* The DPU that has element e of the current block's xp0 or xp1.
DpuOf(e) == i * per_block_dpus + ((e - start) % half) \div per_dpu_size

(***************************************************************************)
(* One transfer back, of the xp0 or the xp1 of a block.  After the last    *)
(* block the pointer stands behind the blocks of this iteration and the    *)
(* iterations are counted down; after the last one, dpu_free.              *)
(***************************************************************************)
Read ==
  /\ pc = "read"
  /\ dpu_xp' = [e \in Elements |->
       LET from == start + i * size + (n - 1) * half
           k == ((e - start) % half) % per_dpu_size
       IN IF e \in from..(from + half - 1) /\ (e - from) \div per_dpu_size < per_block_dpus
          THEN mram[DpuOf(e)][Transfers[n]][k]
          ELSE dpu_xp[e]]
  /\ \/ /\ n = 1
        /\ n' = 2 /\ UNCHANGED <<pc, i, start, mram, nr_iterations>>
     \/ /\ n = 2 /\ i + 1 < per_iteration_blocks
        /\ n' = 1 /\ i' = i + 1 /\ UNCHANGED <<pc, start, mram, nr_iterations>>
     \/ /\ n = 2 /\ i + 1 = per_iteration_blocks
        /\ n' = 1 /\ i' = 0
        /\ start' = Behind
        /\ nr_iterations' = nr_iterations - 1
        /\ IF nr_iterations = 1 THEN pc' = "convert" /\ mram' = <<>> ELSE pc' = "send" /\ mram' = mram
  /\ UNCHANGED <<call, per_iteration_blocks, per_block_dpus, xp, running>>

\* convert_from_dpu_complex
Convert ==
  /\ pc = "convert"
  /\ xp' = dpu_xp
  /\ pc' = "done"
  /\ UNCHANGED <<call, plan, dpu_xp, start, i, n, mram, running>>

Stopped == pc \in {"done", "abort"} /\ UNCHANGED vars

Host == PlanIterations \/ PlanDpus \/ Alloc \/ Send \/ Launch \/ Return \/ Read \/ Convert

Next == Host \/ (\E d \in running : RunDpu(d)) \/ Stopped

Spec == Init /\ [][Next]_vars

\* The host thread runs, and a launched DPU runs to the end of its program.
FairSpec == Spec /\ WF_vars(Host) /\ WF_vars(\E d \in running : RunDpu(d))

--------------------------------------------------------------------------------
(***************************************************************************)
(* The plan: at most NR_DPUS DPUs, at least the four butterflies a DPU     *)
(* computes at once on each, and together exactly those of the blocks of   *)
(* an iteration (helib_pgfft_dpu.cpp:277-295, 322-326, which only warn).   *)
(***************************************************************************)
PlanCovers ==
  pc \notin {"plan_iterations", "plan_dpus", "abort"} =>
    /\ nr_dpus \in 1..NR_DPUS
    /\ per_dpu_size >= 4
    /\ per_dpu_size * per_block_dpus = half
    /\ start + nr_iterations * per_iteration_blocks * size = blocks * size

\* The index of a butterfly's first element among those of a DPU, in an iteration.
FirstOf(d, k) == start + (d \div per_block_dpus) * size + (d % per_block_dpus) * per_dpu_size + k

(***************************************************************************)
(* When the DPUs start, also in a later iteration with what the one before *)
(* left in their memory, the four transfers of every block have met: two   *)
(* halves of a butterfly, its factor, and whether it has one.              *)
(***************************************************************************)
TransfersMeet ==
  pc = "wait" /\ running = Dpus =>
    \A d \in Dpus :
      /\ mram[d].butterfly0 = (d % per_block_dpus = 0)
      /\ mram[d].size = per_dpu_size
      /\ \A k \in 0..(per_dpu_size - 1) :
           /\ mram[d].xp0[k] = Given(FirstOf(d, k))
           /\ mram[d].xp1[k] = Given(FirstOf(d, k) + half)
           /\ mram[d].wtab[k] = Factor((d % per_block_dpus) * per_dpu_size + k)

\* new_fft_layer of PGFFT.cpp: the butterflies of every block.
NewElement(e) ==
  LET k == e % half
      e0 == e - (e % size) + k
      pair == IF k = 0 THEN Bf0(Given(e0), Given(e0 + half)) ELSE Bf(Given(e0), Given(e0 + half), Factor(k))
  IN IF e = e0 THEN pair[1] ELSE pair[2]
NewXp == [e \in Elements |-> NewElement(e)]

\* The caller's array goes once from what it was to what new_fft_layer makes of it.
Op == INSTANCE Elementwise WITH cell <- xp, orig <- [e \in Elements |-> Given(e)], target <- NewXp
ImplementsLayer == Op!Safety

\* The method returns, and then the layer is complete: no iteration, block or
\* butterfly is left out.
Completes == <>(pc = "done" /\ xp = NewXp)
================================================================================

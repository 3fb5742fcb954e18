------------------------------- MODULE FftLayer2 -------------------------------
(***************************************************************************)
(* dpu_new_fft_ifft_layer_2: a layer of the FFT or the inverse FFT         *)
(* offloaded to the butterfly programs for several tasklets.  Unlike       *)
(* FftLayer it makes one launch: several DPUs share a block, or a DPU has  *)
(* several blocks, one after the other in its buffers.                     *)
(*                                                                         *)
(* A DPU runs in one step, which stands for the tasklets of                *)
(* ButterflyKernel with the blocks, size and butterfly0 it was sent.       *)
(***************************************************************************)
EXTENDS ButterflyShares, Sequences

CONSTANTS
  NR_DPUS,          \* DPUs the library is compiled to use
  AVAILABLE_DPUS,   \* DPUs dpu_alloc finds free
  Layers,           \* pairs of the numbers of blocks and elements in a block
  Given(_), Factor(_),   \* an element of xp and of wtab
  NoInit,           \* what MRAM holds before anything is sent to it
  Bf(_, _, _),      \* fwd_butterfly or inv_butterfly: a pair
  Bf0(_, _)         \* the same for the factor 1

\* What the constants are.
LayersConstants ==
  /\ NR_DPUS \in Nat \ {0} /\ AVAILABLE_DPUS \in Nat
  /\ Layers \subseteq (Nat \ {0}) \X (Nat \ {0}) /\ \A l \in Layers : l[2] % 8 = 0
  /\ NoInit \notin BOOLEAN

VARIABLES
  pc,              \* the host's next action
  blocks, size,    \* the arguments
  nr_dpus,         \* the plan
  xp, dpu_xp,      \* the caller's array and its converted copy
  i, n,            \* the current block and its next transfer
  mram,            \* mram[d]: xp0, xp1, wtab, butterfly0, blocks and size of a DPU
  running          \* DPUs that have not finished the launched program

call == <<blocks, size>>
vars == <<pc, call, nr_dpus, xp, dpu_xp, i, n, mram, running>>

half == size \div 2
per_dpu_blocks == blocks \div nr_dpus
per_block_dpus == nr_dpus \div blocks
Shared == per_block_dpus > 0
per_dpu_size == IF Shared THEN half \div per_block_dpus ELSE half
Dpus == 0..(nr_dpus - 1)
Elements == 0..(blocks * size - 1)

Init ==
  /\ pc = "plan"
  /\ \E l \in Layers : blocks = l[1] /\ size = l[2]
  /\ nr_dpus = NR_DPUS
  /\ xp = [e \in Elements |-> Given(e)]
  /\ dpu_xp = <<>> /\ i = 0 /\ n = 1 /\ mram = <<>> /\ running = {}

\* Mutant of Plan: a DPU may have four elements, so two butterflies.
Plan_FourElements ==
  /\ pc = "plan"
  /\ IF nr_dpus > (blocks * size) \div 4
     THEN nr_dpus' = nr_dpus \div 2 /\ pc' = pc
     ELSE nr_dpus' = nr_dpus /\ pc' = "alloc"
  /\ UNCHANGED <<call, xp, dpu_xp, i, n, mram, running>>

\* while (nr_dpus > blocks * size / 8)
Plan ==
  /\ pc = "plan"
  /\ IF nr_dpus > (blocks * size) \div 8
     THEN nr_dpus' = nr_dpus \div 2 /\ pc' = pc
     ELSE nr_dpus' = nr_dpus /\ pc' = "alloc"
  /\ UNCHANGED <<call, xp, dpu_xp, i, n, mram, running>>

\* dpu_alloc, which ends the program when there are not enough DPUs, and the
\* conversion of xp.
Alloc ==
  /\ pc = "alloc"
  /\ IF nr_dpus > AVAILABLE_DPUS
     THEN pc' = "abort" /\ UNCHANGED <<dpu_xp, mram>>
     ELSE /\ pc' = IF Shared THEN "send_shared" ELSE "send_blocks"
          /\ dpu_xp' = xp
          /\ mram' = [d \in Dpus |->
               [xp0 |-> <<>>, xp1 |-> <<>>, wtab |-> <<>>, butterfly0 |-> NoInit, blocks |-> 0, size |-> 0]]
  /\ UNCHANGED <<call, nr_dpus, xp, i, n, running>>

Transfers == <<"xp0", "xp1", "wtab", "butterfly0">>

Piece(block, from, j) == [k \in 0..(per_dpu_size - 1) |-> dpu_xp[block * size + from + j * per_dpu_size + k]]
Factors(j) == [k \in 0..(per_dpu_size - 1) |-> Factor(j * per_dpu_size + k)]

Payload(name, j) ==
  CASE name = "xp0" -> Piece(i, 0, j)
    [] name = "xp1" -> Piece(i, half, j)
    [] name = "wtab" -> Factors(j)
    [] name = "butterfly0" -> j = 0

\* Several DPUs to a block: one transfer of a block to the next per_block_dpus DPUs.
SendShared ==
  /\ pc = "send_shared"
  /\ mram' = [d \in Dpus |->
       IF d \div per_block_dpus = i
       THEN [mram[d] EXCEPT ![Transfers[n]] = Payload(Transfers[n], d % per_block_dpus)]
       ELSE mram[d]]
  /\ \/ /\ n < Len(Transfers)
        /\ n' = n + 1 /\ UNCHANGED <<pc, i>>
     \/ /\ n = Len(Transfers) /\ i + 1 < blocks
        /\ n' = 1 /\ i' = i + 1 /\ UNCHANGED pc
     \/ /\ n = Len(Transfers) /\ i + 1 = blocks
        /\ n' = 1 /\ i' = 0 /\ pc' = "launch"
  /\ UNCHANGED <<call, nr_dpus, xp, dpu_xp, running>>

\* f with the elements of g from position at on.
Placed(f, at, g) ==
  [k \in (DOMAIN f) \cup {at + m : m \in DOMAIN g} |->
     IF k - at \in DOMAIN g THEN g[k - at] ELSE f[k]]

\* Several blocks to a DPU: the dpu_copy_to of the three arrays of block i; the
\* DPUs take per_dpu_blocks blocks one after the other.
SendBlocks ==
  /\ pc = "send_blocks"
  /\ LET d == i \div per_dpu_blocks
         at == (i % per_dpu_blocks) * per_dpu_size
     IN mram' = [mram EXCEPT ![d].xp0 = Placed(@, at, Piece(i, 0, 0)),
                             ![d].xp1 = Placed(@, at, Piece(i, half, 0)),
                             ![d].wtab = Placed(@, at, Factors(0))]
  /\ IF i + 1 < nr_dpus * per_dpu_blocks THEN i' = i + 1 /\ pc' = pc ELSE i' = 0 /\ pc' = "launch"
  /\ UNCHANGED <<call, nr_dpus, xp, dpu_xp, n, running>>

\* dpu_broadcast_to of DPU_BLOCKS and DPU_SIZE, and dpu_launch.
Launch ==
  /\ pc = "launch"
  /\ mram' = [d \in Dpus |->
       [mram[d] EXCEPT !.blocks = IF Shared THEN 1 ELSE per_dpu_blocks, !.size = per_dpu_size]]
  /\ running' = Dpus
  /\ pc' = "wait"
  /\ UNCHANGED <<call, nr_dpus, xp, dpu_xp, i, n>>

\* Mutant of ZeroFactor: every DPU starts with a butterfly0.
ZeroFactor_EveryDpu(m, k) == k % m.size = 0

(***************************************************************************)
(* What ButterflyKernel does with what a DPU was sent.  A DPU that was     *)
(* sent nothing computes on what its memory held, and no one reads it.     *)
(***************************************************************************)
ZeroFactor(m, k) == k % m.size = 0 /\ (m.blocks > 1 \/ m.butterfly0 = TRUE)
Pair(m, k) == IF ZeroFactor(m, k) THEN Bf0(m.xp0[k], m.xp1[k]) ELSE Bf(m.xp0[k], m.xp1[k], m.wtab[k])

RunDpu(d) ==
  /\ d \in running
  /\ mram' = [mram EXCEPT
       ![d].xp0 = [k \in DOMAIN @ |-> Pair(mram[d], k)[1]],
       ![d].xp1 = [k \in DOMAIN @ |-> Pair(mram[d], k)[2]]]
  /\ running' = running \ {d}
  /\ UNCHANGED <<pc, call, nr_dpus, xp, dpu_xp, i, n>>

\* dpu_launch(set, DPU_SYNCHRONOUS) returns when no DPU runs any more.
Return ==
  /\ pc = "wait"
  /\ running = {}
  /\ pc' = IF Shared THEN "read_shared" ELSE "read_blocks"
  /\ UNCHANGED <<call, nr_dpus, xp, dpu_xp, i, n, mram, running>>

\* One transfer back, of the xp0 or the xp1 of a block, from the block's DPUs.
ReadShared ==
  /\ pc = "read_shared"
  /\ LET from == i * size + (n - 1) * half
     IN dpu_xp' = [e \in Elements |->
          IF e \in from..(from + per_block_dpus * per_dpu_size - 1)
          THEN mram[i * per_block_dpus + (e - from) \div per_dpu_size][Transfers[n]][(e - from) % per_dpu_size]
          ELSE dpu_xp[e]]
  /\ \/ n = 1 /\ n' = 2 /\ UNCHANGED <<pc, i, mram>>
     \/ n = 2 /\ i + 1 < blocks /\ n' = 1 /\ i' = i + 1 /\ UNCHANGED <<pc, mram>>
     \/ n = 2 /\ i + 1 = blocks /\ n' = 1 /\ i' = 0 /\ pc' = "convert" /\ mram' = <<>>
  /\ UNCHANGED <<call, nr_dpus, xp, running>>

\* The dpu_copy_from of both halves of a block, and dpu_free after the last one.
ReadBlocks ==
  /\ pc = "read_blocks"
  /\ LET m == mram[i \div per_dpu_blocks]
         at == (i % per_dpu_blocks) * per_dpu_size
     IN dpu_xp' = [e \in Elements |->
          IF e \div size # i THEN dpu_xp[e]
          ELSE IF e % size < half THEN m.xp0[at + (e % size)] ELSE m.xp1[at + (e % size) - half]]
  /\ IF i + 1 < nr_dpus * per_dpu_blocks
     THEN i' = i + 1 /\ UNCHANGED <<pc, mram>>
     ELSE i' = 0 /\ pc' = "convert" /\ mram' = <<>>
  /\ UNCHANGED <<call, nr_dpus, xp, n, running>>

\* convert_from_dpu_complex
Convert ==
  /\ pc = "convert"
  /\ xp' = dpu_xp
  /\ pc' = "done"
  /\ UNCHANGED <<call, nr_dpus, dpu_xp, i, n, mram, running>>

Stopped == pc \in {"done", "abort"} /\ UNCHANGED vars

Host == Plan \/ Alloc \/ SendShared \/ SendBlocks \/ Launch \/ Return \/ ReadShared \/ ReadBlocks \/ Convert

Next == Host \/ (\E d \in running : RunDpu(d)) \/ Stopped

Spec == Init /\ [][Next]_vars

\* The host thread runs, and a launched DPU runs to the end of its program.
FairSpec == Spec /\ WF_vars(Host) /\ WF_vars(\E d \in running : RunDpu(d))

--------------------------------------------------------------------------------
(***************************************************************************)
(* What a DPU is sent is what its program can divide: DPU_SIZE and         *)
(* DPU_BLOCKS of the plan give every tasklet whole groups of four          *)
(* butterflies, and DPU_DO_.._BUTTERFLY0 has a value whenever it is used.  *)
(***************************************************************************)
LaunchOf(m) == [blocks |-> m.blocks, size |-> m.size, butterfly0 |-> IF m.butterfly0 = TRUE THEN 1 ELSE 0]
KernelCanDivide ==
  pc = "wait" =>
    \A d \in running :
      /\ WholeShares(LaunchOf(mram[d]))
      /\ mram[d].blocks = 1 => mram[d].butterfly0 # NoInit

\* new_fft_layer of PGFFT.cpp: the butterflies of every block.
NewElement(e) ==
  LET k == e % half
      e0 == e - (e % size) + k
      pair == IF k = 0 THEN Bf0(Given(e0), Given(e0 + half)) ELSE Bf(Given(e0), Given(e0 + half), Factor(k))
  IN IF e = e0 THEN pair[1] ELSE pair[2]
NewXp == [e \in Elements |-> NewElement(e)]

\* The caller's array goes once from what it was to what new_fft_layer makes of it.
Op == INSTANCE Elementwise WITH cell <- xp, orig <- [e \in Elements |-> Given(e)], target <- NewXp
ImplementsLayer == Op!Safety

\* The method returns, and then no block and no butterfly is left out.
Completes == <>(pc = "done" /\ xp = NewXp)
================================================================================

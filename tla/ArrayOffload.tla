------------------------------ MODULE ArrayOffload ------------------------------
(***************************************************************************)
(* The host methods of helib_pgfft_dpu.cpp that cut arrays into one        *)
(* portion for each DPU: dpu_fwd_butterfly_loop, dpu_inv_butterfly_loop,   *)
(* their versions _2 for several tasklets, dpu_new_fft_last_two_layers and *)
(* dpu_new_ifft_first_two_layers.  All have one shape, with different      *)
(* arrays (DPU_XP0, DPU_XP1 and DPU_WTAB, or DPU_XP) and a different least *)
(* portion (four elements, or one block); these are constants.             *)
(*                                                                         *)
(* A DPU runs its program in one step, which stands for the tasklets of    *)
(* ButterflyKernel and TwoLayersKernel.  How the tasklets divide a portion *)
(* of a given size is theirs and not checked by the host: Missed and Raced *)
(* are the elements that no tasklet computes and that two of them do.      *)
(***************************************************************************)
EXTENDS Integers, Sequences

CONSTANTS
  NR_DPUS,          \* DPUs the library is compiled to use
  AVAILABLE_DPUS,   \* DPUs dpu_alloc finds free
  LEAST,            \* per_dpu_size before the loop: 4, or 1 block
  Sizes,            \* lengths of the arrays
  Arrays,           \* names of the arrays in the order they are sent
  Results,          \* names of those that are read back, in this order
  Given(_, _),      \* element of an array when the method is called
  NoInit,           \* what MRAM holds before anything is sent to it
  Compute(_, _, _), \* new element of an array, from the elements of all arrays
                    \* and whether it is the first one and has the factor 1
  Missed(_),        \* elements of a portion of a size that no tasklet computes
  Raced(_)          \* those that two tasklets compute

Names == {Arrays[j] : j \in DOMAIN Arrays}
ResultNames == {Results[j] : j \in DOMAIN Results}

\* What the constants are.
ArraysConstants ==
  /\ NR_DPUS \in Nat \ {0} /\ AVAILABLE_DPUS \in Nat
  /\ LEAST \in Nat \ {0}
  /\ Sizes \subseteq Nat \ {0}
  /\ Arrays \in Seq(Names) /\ Len(Arrays) > 0
  /\ Results \in Seq(Names) /\ Len(Results) > 0

VARIABLES
  pc,            \* the host's next action
  size,          \* the length of the arrays
  per_dpu_size,  \* the plan
  host,          \* host[a]: the array a of the caller
  copy,          \* copy[a]: its converted copy, dpu_xp0, dpu_xp1 and dpu_wtab
  n,             \* the next of Arrays or Results
  mram,          \* mram[d]: arrays, size and butterfly0 of a DPU
  running        \* DPUs that have not finished the launched program

plan == <<size, per_dpu_size>>
vars == <<pc, plan, host, copy, n, mram, running>>

\* ceil(size / (float)per_dpu_size)
nr_dpus == (size + per_dpu_size - 1) \div per_dpu_size

last_dpu_size == IF size % per_dpu_size = 0 THEN per_dpu_size ELSE size % per_dpu_size

Dpus == 0..(nr_dpus - 1)
Last(d) == d = nr_dpus - 1

Init ==
  /\ pc = "plan"
  /\ size \in Sizes /\ per_dpu_size = LEAST
  /\ host = [a \in Names |-> [k \in 0..(size - 1) |-> Given(a, k)]]
  /\ copy = <<>> /\ n = 1 /\ mram = <<>> /\ running = {}

\* while (nr_dpus > NR_DPUS)
Plan ==
  /\ pc = "plan"
  /\ IF nr_dpus > NR_DPUS
     THEN per_dpu_size' = 2 * per_dpu_size /\ pc' = pc
     ELSE per_dpu_size' = per_dpu_size /\ pc' = "alloc"
  /\ UNCHANGED <<size, host, copy, n, mram, running>>

\* dpu_alloc, which ends the program when there are not enough DPUs, and the
\* conversion of the arrays.
Alloc ==
  /\ pc = "alloc"
  /\ IF nr_dpus > AVAILABLE_DPUS
     THEN pc' = "abort" /\ UNCHANGED <<copy, mram>>
     ELSE /\ pc' = "send"
          /\ copy' = host
          /\ mram' = [d \in Dpus |-> [arrays |-> [a \in Names |-> NoInit], size |-> 0, butterfly0 |-> FALSE]]
  /\ UNCHANGED <<plan, host, n, running>>

\* The portion of a DPU: the last one has its own size.
Portion(d) == IF Last(d) THEN 0..(last_dpu_size - 1) ELSE 0..(per_dpu_size - 1)

\* dpu_transfer_complex_array_to_dpu: dpu_broadcast_to for the last DPU and a
\* parallel transfer to the others.
Send ==
  /\ pc = "send"
  /\ mram' = [d \in Dpus |->
       [mram[d] EXCEPT !.arrays[Arrays[n]] =
          [k \in Portion(d) |-> copy[Arrays[n]][d * per_dpu_size + k]]]]
  /\ IF n = Len(Arrays) THEN n' = 1 /\ pc' = "send_size" ELSE n' = n + 1 /\ pc' = pc
  /\ UNCHANGED <<plan, host, copy, running>>

\* How many elements a DPU has.
PortionSize(d) == IF Last(d) THEN last_dpu_size ELSE per_dpu_size

\* dpu_transfer_size_to_dpu, or DPU_BLOCKS for the two layers.
SendSize ==
  /\ pc = "send_size"
  /\ mram' = [d \in Dpus |-> [mram[d] EXCEPT !.size = PortionSize(d)]]
  /\ pc' = "send_butterfly0"
  /\ UNCHANGED <<plan, host, copy, n, running>>

\* dpu_transfer_do_butterfly0_to_dpu; nothing for the two layers.
SendButterfly0 ==
  /\ pc = "send_butterfly0"
  /\ mram' = [d \in Dpus |-> [mram[d] EXCEPT !.butterfly0 = (d = 0)]]
  /\ pc' = "launch"
  /\ UNCHANGED <<plan, host, copy, n, running>>

\* dpu_launch
Launch ==
  /\ pc = "launch"
  /\ running' = Dpus
  /\ pc' = "wait"
  /\ UNCHANGED <<plan, host, copy, n, mram>>

\* The elements a program changes in an array.
Changed(a, s) == IF a \in ResultNames THEN (0..(s - 1)) \ Missed(s) ELSE {}

\* A DPU runs its program on the size elements it was told of.  An element that two
\* tasklets compute is computed once when the second reads before the first
\* writes, and has a value nobody asked for (here NoInit) when it does not.
RunDpu(d) ==
  /\ d \in running
  /\ \E garbled \in SUBSET Raced(mram[d].size) :
       mram' = [mram EXCEPT ![d].arrays =
         [a \in Names |->
            [k \in DOMAIN mram[d].arrays[a] |->
               IF k \notin Changed(a, mram[d].size) THEN mram[d].arrays[a][k]
               ELSE IF k \in garbled THEN NoInit
               ELSE Compute(a, [b \in Names |-> mram[d].arrays[b][k]], k = 0 /\ mram[d].butterfly0)]]]
  /\ running' = running \ {d}
  /\ UNCHANGED <<pc, plan, host, copy, n>>

\* dpu_launch(set, DPU_SYNCHRONOUS) returns when no DPU runs any more.
Return ==
  /\ pc = "wait"
  /\ running = {}
  /\ pc' = "read"
  /\ UNCHANGED <<plan, host, copy, n, mram, running>>

\* dpu_transfer_complex_array_from_dpu; dpu_free after the last one.
Read ==
  /\ pc = "read"
  /\ copy' = [copy EXCEPT ![Results[n]] =
       [k \in 0..(size - 1) |->
          LET d == k \div per_dpu_size
          IN IF k % per_dpu_size \in Portion(d)
             THEN mram[d].arrays[Results[n]][k % per_dpu_size] ELSE @[k]]]
  /\ IF n = Len(Results)
     THEN n' = 1 /\ pc' = "convert" /\ mram' = <<>>
     ELSE n' = n + 1 /\ pc' = pc /\ mram' = mram
  /\ UNCHANGED <<plan, host, running>>

\* convert_from_dpu_complex of the arrays that were read.
Convert ==
  /\ pc = "convert"
  /\ host' = [a \in Names |-> IF a \in ResultNames THEN copy[a] ELSE host[a]]
  /\ pc' = "done"
  /\ UNCHANGED <<plan, copy, n, mram, running>>

Stopped == pc \in {"done", "abort"} /\ UNCHANGED vars

Host ==
  Plan \/ Alloc \/ Send \/ SendSize \/ SendButterfly0 \/ Launch \/ Return \/ Read \/ Convert

Next == Host \/ (\E d \in running : RunDpu(d)) \/ Stopped

Spec == Init /\ [][Next]_vars

\* The host thread runs, and a launched DPU runs to the end of its program.
FairSpec == Spec /\ WF_vars(Host) /\ WF_vars(\E d \in running : RunDpu(d))

--------------------------------------------------------------------------------
(***************************************************************************)
(* The portions cover the arrays: no more DPUs than allowed, all portions  *)
(* but the last one full, and together exactly the length of the arrays    *)
(* (GET_NR_DPUS_AND_SIZE_PER_DPU; the sizes are rounded up and the         *)
(* remainder of zero is a special case).                                   *)
(***************************************************************************)
PortionsCover ==
  pc # "plan" =>
    /\ nr_dpus \in 1..NR_DPUS
    /\ last_dpu_size \in 1..per_dpu_size
    /\ (nr_dpus - 1) * per_dpu_size + last_dpu_size = size

(***************************************************************************)
(* And every portion, the smaller last one too, is one that the tasklets   *)
(* of a DPU divide: each element is computed by one of them.  The host     *)
(* only makes portions of four times a power of two and gives the last DPU *)
(* what is left (GET_NR_DPUS_AND_SIZE_PER_DPU), the program only halves    *)
(* the tasklets (dpu_multi_fwd_butterfly_loop.c:96-104).                   *)
(***************************************************************************)
PortionsDivide ==
  pc # "plan" => \A d \in Dpus : Missed(PortionSize(d)) = {} /\ Raced(PortionSize(d)) = {}

(***************************************************************************)
(* When the DPUs start, every DPU holds elements of all arrays that belong *)
(* together and as many as it is told, and only the one with the start of  *)
(* the arrays skips the factor.                                            *)
(***************************************************************************)
TransfersMeet ==
  pc = "wait" /\ running = Dpus =>
    \A d \in Dpus :
      /\ mram[d].butterfly0 = (d = 0)
      /\ \A a \in Names :
           mram[d].arrays[a] = [k \in 0..(mram[d].size - 1) |-> Given(a, d * per_dpu_size + k)]

OldArrays == [a \in Names |-> [k \in 0..(size - 1) |-> Given(a, k)]]
NewArrays ==
  [a \in Names |->
     [k \in 0..(size - 1) |->
        IF a \in ResultNames THEN Compute(a, [b \in Names |-> Given(b, k)], k = 0) ELSE Given(a, k)]]

\* The caller's arrays go once from what they were to what the loop of PGFFT.cpp makes
\* of them; the factors are left alone.
Op == INSTANCE Elementwise WITH cell <- host, orig <- OldArrays, target <- NewArrays
ImplementsLoop == Op!Safety

\* The method returns, and then the arrays are what the loop of PGFFT.cpp makes of them.
Completes == <>(pc = "done" /\ host = NewArrays)
================================================================================

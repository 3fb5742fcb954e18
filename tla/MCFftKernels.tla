------------------------------ MODULE MCFftKernels ------------------------------
(***************************************************************************)
(* The programs of one transform on one DPU, one launch after the other:   *)
(* the butterflies of a layer (ButterflyKernel) and, when that launch has  *)
(* returned, the last two layers (TwoLayersKernel).  In the run forward    *)
(* butterflies on numbers modulo 7 stand for those on complex numbers.     *)
(***************************************************************************)
EXTENDS ButterflyKernel

\* Those of TwoLayersKernel.
CONSTANTS BUFFER_BLOCKS, BlockCounts, BlockValue, BlockXp, Quad(_)

VARIABLES DPU_BLOCKS, two_xp, two_pc, two_i, two_blocks, two_cache

MCPi == 7
MCValue == 0..(MCPi - 1)
MCBf(x0, x1, w) == <<(x0 + x1) % MCPi, ((x0 - x1) * w) % MCPi>>
MCBf0(x0, x1) == <<(x0 + x1) % MCPi, (x0 - x1) % MCPi>>

\* No factor is 1: a butterfly in place of a butterfly0 shows.
MCXp == [k \in 0..(BUFFER_SIZE - 1) |-> <<(3 * k + 1) % MCPi, (2 * k * k + 3) % MCPi>>]
MCWtab == [k \in 0..(BUFFER_SIZE - 1) |-> 2 + (k % 4)]

\* Blocks shared by tasklets, a block each and two blocks each.
MCLaunches ==
  [blocks : {1}, size : {4, 8, 16}, butterfly0 : {0, 1}]
    \cup [blocks : {2}, size : {4, 16}, butterfly0 : {0}]
    \cup [blocks : {4, 8}, size : {4}, butterfly0 : {0}]

\* A block counts, modulo 4, how often it was computed.
MCBlockValue == 0..3
MCBlockXp == [k \in 0..(BUFFER_BLOCKS - 1) |-> 0]
MCQuad(v) == (v + 1) % 4

Two ==
  INSTANCE TwoLayersKernel WITH
    Value <- BlockValue, Xp <- BlockXp,
    xp <- two_xp, pc <- two_pc, i <- two_i, blocks <- two_blocks, cache <- two_cache

ASSUME MCWholeShares == \A l \in Launches : WholeShares(l) /\ CountableCalls(l)
ASSUME MCTwoLayers == Two!TwoLayersConstants /\ Two!WholeBlocks

two_vars == <<DPU_BLOCKS, two_xp, two_pc, two_i, two_blocks, two_cache>>

Returned == \A t \in Tasklets : pc[t] = "done"

\* A DPU with n butterflies has n / 2 blocks of four; fewer are enough to check.
MCInit == Init /\ Two!Init /\ DPU_BLOCKS = IF Butterflies(launch) = 32 THEN 4 ELSE Butterflies(launch) \div 2

MCNext ==
  \/ (\E t \in Tasklets : Tasklet(t)) /\ UNCHANGED two_vars
  \/ Returned /\ (\E t \in Tasklets : Two!Tasklet(t)) /\ UNCHANGED vars
  \/ Returned /\ Two!Finished /\ UNCHANGED vars

\* The DPU's pipeline schedules every tasklet that can run.
MCSpec ==
  /\ MCInit /\ [][MCNext]_<<vars, two_vars>>
  /\ \A t \in Tasklets : WF_vars(Tasklet(t)) /\ WF_two_vars(Returned /\ Two!Tasklet(t))

\* See TwoLayersKernel.tla.
OwnBlocks == Two!OwnBlocks
BlocksComputed == Two!BlocksComputed
BothTerminate == Terminates /\ Two!Terminates
================================================================================

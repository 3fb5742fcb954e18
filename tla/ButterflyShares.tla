---------------------------- MODULE ButterflyShares ----------------------------
(***************************************************************************)
(* How dpu_multi_fwd_butterfly_loop.c and dpu_multi_inv_butterfly_loop.c   *)
(* divide the butterflies of a layer among the tasklets of a DPU: several  *)
(* tasklets to a block, or several blocks to a tasklet.  A launch is a     *)
(* record of the variables the host sends: blocks (DPU_BLOCKS), size       *)
(* (DPU_SIZE, butterflies in a block) and butterfly0 (DPU_DO_..).          *)
(***************************************************************************)
EXTENDS Integers

CONSTANTS
  NR_TASKLETS,   \* tasklets the program is compiled for
  UINT8          \* 2^8, from where a uint8_t wraps

ASSUME TaskletsAssumption ==
  /\ NR_TASKLETS \in Nat \ {0}
  /\ UINT8 \in Nat /\ NR_TASKLETS < UINT8

Tasklets == 0..(NR_TASKLETS - 1)

\* The butterflies of one mram_read, LOCAL_CACHE_SIZE bytes.
BLOCK_SIZE == 4

Butterflies(l) == l.blocks * l.size

\* nr_tasklets is halved until every tasklet has four butterflies.
Halvings == {NR_TASKLETS \div 2^h : h \in 0..8}
NrTasklets(l) ==
  CHOOSE n \in Halvings :
    /\ n <= Butterflies(l) \div BLOCK_SIZE
    /\ \A m \in Halvings : m <= Butterflies(l) \div BLOCK_SIZE => m <= n

PerTaskletBlocks(l) == l.blocks \div NrTasklets(l)
PerBlockTasklets(l) == NrTasklets(l) \div l.blocks
SharedBlocks(l) == PerBlockTasklets(l) > 0
PerTaskletSize(l) == IF SharedBlocks(l) THEN l.size \div PerBlockTasklets(l) ELSE l.size

\* Calls of fwd_butterfly_loop a tasklet makes.
Calls(l) == IF SharedBlocks(l) THEN 1 ELSE PerTaskletBlocks(l)

\* Mutant of CallStart: tasklets that share blocks all work on the first one.
CallStart_FirstBlock(t, i, l) ==
  IF SharedBlocks(l)
  THEN (t % PerBlockTasklets(l)) * PerTaskletSize(l)
  ELSE t * (PerTaskletSize(l) * PerTaskletBlocks(l)) + i * PerTaskletSize(l)

\* mram_read_start of tasklet t's call number i.
CallStart(t, i, l) ==
  IF SharedBlocks(l)
  THEN (t \div PerBlockTasklets(l)) * l.size + (t % PerBlockTasklets(l)) * PerTaskletSize(l)
  ELSE t * (PerTaskletSize(l) * PerTaskletBlocks(l)) + i * PerTaskletSize(l)

\* Mutant of DoButterfly0: what the host sends counts for every launch.
DoButterfly0_FromHost(t, l) == l.butterfly0 = 1 /\ t = 0

\* Whether the first butterfly of a call has the factor 1 and skips it.
DoButterfly0(t, l) ==
  IF ~SharedBlocks(l) THEN TRUE
  ELSE IF l.blocks > 1 THEN t % PerBlockTasklets(l) = 0
  ELSE l.butterfly0 = 1 /\ t = 0

\* Whether a call of fwd_butterfly_loop computes a butterfly: it takes four at a
\* time from its start, at least once and until it has as many as the share.
Computes(t, i, k, l) ==
  LET j == k - CallStart(t, i, l)
  IN j >= 0 /\ (j < BLOCK_SIZE \/ (j \div BLOCK_SIZE) * BLOCK_SIZE < PerTaskletSize(l))

\* The tasklets that compute a butterfly, and the butterflies of a launch that none
\* and that two of them compute: shares that are no whole groups of four overlap.
Computing(k, l) ==
  {t \in 0..(NrTasklets(l) - 1) : \E i \in 0..(Calls(l) - 1) : Computes(t, i, k, l)}
MissedPlaces(l) == {k \in 0..(Butterflies(l) - 1) : Computing(k, l) = {}}
RacedPlaces(l) ==
  {k \in 0..(Butterflies(l) - 1) : \E t, u \in Computing(k, l) : t # u}

(***************************************************************************)
(* What the programs rely on and do not check: the blocks or the tasklets  *)
(* divide the others, and a share is made of whole groups of four.         *)
(***************************************************************************)
WholeShares(l) ==
  /\ l.blocks > 0
  /\ NrTasklets(l) \in 1..NR_TASKLETS
  /\ IF SharedBlocks(l)
     THEN NrTasklets(l) = l.blocks * PerBlockTasklets(l) /\ l.size = PerBlockTasklets(l) * PerTaskletSize(l)
     ELSE l.blocks = NrTasklets(l) * PerTaskletBlocks(l)
  /\ PerTaskletSize(l) > 0 /\ PerTaskletSize(l) % BLOCK_SIZE = 0

\* And that the counter of calls, a uint8_t, reaches their number.
CountableCalls(l) == Calls(l) < UINT8
================================================================================

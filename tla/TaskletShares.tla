----------------------------- MODULE TaskletShares -----------------------------
(***************************************************************************)
(* How the DPU programs dpu_add_ctxt.c and dpu_mul_ctxt.c divide a row     *)
(* among the tasklets of a DPU, and a tasklet's share into chunks that fit *)
(* its cache.                                                              *)
(***************************************************************************)
EXTENDS Integers

CONSTANTS
  NR_TASKLETS,   \* tasklets the program is compiled for
  WRAM_SIZE      \* bytes of working memory of a DPU

\* Elements of a tasklet's cache (8 is sizeof(long)).
C_SIZE == ((WRAM_SIZE \div NR_TASKLETS) \div 4) \div 8

Tasklets == 0..(NR_TASKLETS - 1)

\* The values nr_tasklets takes in the loop of main, a uint8_t being halved.
Halvings == {NR_TASKLETS \div 2^h : h \in 0..8}

\* The first of them, so the largest, that is not above DPU_SIZE.
NrTasklets(size) ==
  CHOOSE n \in Halvings :
    n <= size /\ \A m \in Halvings : m <= size => m <= n

PerTasklet(size) == size \div NrTasklets(size)

\* _size, the elements of one chunk.
Chunk(size) ==
  IF PerTasklet(size) < C_SIZE THEN PerTasklet(size) ELSE C_SIZE

(***************************************************************************)
(* What the code relies on and does not check: the tasklets share the row  *)
(* equally and each works on whole chunks.                                 *)
(***************************************************************************)
WholeChunks(size) ==
  /\ NrTasklets(size) \in 1..NR_TASKLETS
  /\ size = NrTasklets(size) * PerTasklet(size)
  /\ PerTasklet(size) > 0
  /\ PerTasklet(size) % Chunk(size) = 0

\* Mutant of Start: as if no tasklet had left.
Start_OfAllTasklets(t, size) == (t * size) \div NR_TASKLETS

\* The elements tasklet t works on, given as start and size to ctxt_add.
Start(t, size) == (t * size) \div NrTasklets(size)

\* Mutant of End: a share is taken for a single chunk.
End_OfOneChunk(t, size) == Start(t, size) + Chunk(size)

\* Where its share ends.
End(t, size) == Start(t, size) + PerTasklet(size)
Share(t, size) == Start(t, size)..(End(t, size) - 1)

\* Mutant of ChunkAt: the transfers have the size of the cache.
ChunkAt_WholeCache(k, size) == k..(k + C_SIZE - 1)

\* The elements of the chunk that begins at k.
ChunkAt(k, size) == k..(k + Chunk(size) - 1)

\* Mutant of NextChunk: the step is what is left of a share after its chunks.
NextChunk_Rest(k, size) == k + (PerTasklet(size) % Chunk(size))

\* i += _size
NextChunk(k, size) == k + Chunk(size)

ASSUME TaskletsAssumption ==
  /\ NR_TASKLETS \in Nat \ {0}
  /\ WRAM_SIZE \in Nat
  /\ C_SIZE \in Nat \ {0}
================================================================================

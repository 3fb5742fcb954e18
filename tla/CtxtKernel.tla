------------------------------- MODULE CtxtKernel -------------------------------
(***************************************************************************)
(* The DPU programs dpu_add_ctxt.c and dpu_mul_ctxt.c on one DPU: the      *)
(* tasklets that combine the row DPU_ROW_OTHER into the row DPU_ROW_THIS,  *)
(* chunk by chunk through a cache in working memory.  The two programs     *)
(* differ in the call made for an element, AddMod or MulMod; it is the     *)
(* constant operator Fun, so that what is shown here holds for both.       *)
(*                                                                         *)
(* A tasklet's chunk is two steps, the DMA read into the cache and, after  *)
(* the computation on the cache, the DMA write.  Tasklets interleave       *)
(* between them.  A DMA transfer of a chunk is one step: NoRace shows that *)
(* no other tasklet works on these elements meanwhile, so that a finer     *)
(* grain would change nothing.                                             *)
(***************************************************************************)
EXTENDS TaskletShares

CONSTANTS
  BUF_SIZE,      \* elements of a row buffer in MRAM
  Sizes,         \* the values of DPU_SIZE the host sends
  Value,         \* values of an element
  RowThis,       \* what the two row buffers hold at launch, the elements
  RowOther,      \*   the host sent and, after them, uninitialised memory
  Fun(_, _)      \* AddMod or MulMod modulo DPU_PI

ASSUME MemoryAssumption == BUF_SIZE \in Nat

ASSUME RowsAssumption ==
  /\ RowThis \in [0..(BUF_SIZE - 1) -> Value]
  /\ RowOther \in [0..(BUF_SIZE - 1) -> Value]

ASSUME FunAssumption == \A a, b \in Value : Fun(a, b) \in Value

ASSUME SizesAssumption ==
  /\ Sizes \subseteq Nat
  /\ \A s \in Sizes : s + C_SIZE <= BUF_SIZE

VARIABLES
  DPU_SIZE,       \* length of the part of the rows this DPU works on
  DPU_ROW_THIS,   \* MRAM, read and written
  pc,             \* pc[t]: "start", "read", "write" or "done"
  i,              \* i[t]: first element of the tasklet's current chunk
  cache           \* cache[t]: row_this and row_other after the read, by offset

vars == <<DPU_SIZE, DPU_ROW_THIS, pc, i, cache>>

Init ==
  /\ DPU_SIZE \in Sizes
  /\ DPU_ROW_THIS = RowThis
  /\ pc = [t \in Tasklets |-> "start"]
  /\ i = [t \in Tasklets |-> 0]
  /\ cache = [t \in Tasklets |-> <<>>]

\* main: a tasklet beyond nr_tasklets returns at once.
Leave(t) ==
  /\ pc[t] = "start"
  /\ t >= NrTasklets(DPU_SIZE)
  /\ pc' = [pc EXCEPT ![t] = "done"]
  /\ UNCHANGED <<DPU_SIZE, DPU_ROW_THIS, i, cache>>

\* main: the others call ctxt_add(start, size).
Enter(t) ==
  /\ pc[t] = "start"
  /\ t < NrTasklets(DPU_SIZE)
  /\ i' = [i EXCEPT ![t] = Start(t, DPU_SIZE)]
  /\ pc' = [pc EXCEPT ![t] = IF Start(t, DPU_SIZE) < End(t, DPU_SIZE) THEN "read" ELSE "done"]
  /\ UNCHANGED <<DPU_SIZE, DPU_ROW_THIS, cache>>

\* The two mram_read of a chunk.
Read(t) ==
  /\ pc[t] = "read"
  /\ cache' = [cache EXCEPT ![t] =
                 [k \in ChunkAt(i[t], DPU_SIZE) |-> [this |-> DPU_ROW_THIS[k], other |-> RowOther[k]]]]
  /\ pc' = [pc EXCEPT ![t] = "write"]
  /\ UNCHANGED <<DPU_SIZE, DPU_ROW_THIS, i>>

\* The computation on the cache, mram_write and the end of the iteration.
Write(t) ==
  /\ pc[t] = "write"
  /\ DPU_ROW_THIS' = [k \in DOMAIN DPU_ROW_THIS |->
                        IF k \in ChunkAt(i[t], DPU_SIZE)
                        THEN Fun(cache[t][k].this, cache[t][k].other)
                        ELSE DPU_ROW_THIS[k]]
  /\ i' = [i EXCEPT ![t] = NextChunk(i[t], DPU_SIZE)]
  /\ pc' = [pc EXCEPT ![t] = IF NextChunk(i[t], DPU_SIZE) < End(t, DPU_SIZE) THEN "read" ELSE "done"]
  /\ cache' = [cache EXCEPT ![t] = <<>>]
  /\ UNCHANGED DPU_SIZE

Tasklet(t) == Leave(t) \/ Enter(t) \/ Read(t) \/ Write(t)

\* dpu_launch(set, DPU_SYNCHRONOUS) returns when every tasklet has returned.
Finished ==
  /\ \A t \in Tasklets : pc[t] = "done"
  /\ UNCHANGED vars

Next == (\E t \in Tasklets : Tasklet(t)) \/ Finished

\* The DPU's pipeline schedules every tasklet that can run.
Fairness == \A t \in Tasklets : WF_vars(Tasklet(t))

Spec == Init /\ [][Next]_vars
FairSpec == Spec /\ Fairness

--------------------------------------------------------------------------------
\* Every size the host sends divides into whole chunks.
WholeSizes == \A s \in Sizes : WholeChunks(s)

TypeOK ==
  /\ DPU_SIZE \in Sizes
  /\ DPU_ROW_THIS \in [0..(BUF_SIZE - 1) -> Value]
  /\ pc \in [Tasklets -> {"start", "read", "write", "done"}]
  /\ i \in [Tasklets -> Nat]
  /\ DOMAIN cache = Tasklets
  /\ \A t \in Tasklets : pc[t] = "write" =>
       cache[t] \in [ChunkAt(i[t], DPU_SIZE) -> [this : Value, other : Value]]

Working(t) == pc[t] \in {"read", "write"}

(***************************************************************************)
(* Two tasklets never work on chunks that share an element: no tasklet     *)
(* reads an element another is about to overwrite, the data race the       *)
(* kernel has no lock or barrier against.                                  *)
(***************************************************************************)
NoRace ==
  \A t, u \in Tasklets :
    t # u /\ Working(t) /\ Working(u) => ChunkAt(i[t], DPU_SIZE) \cap ChunkAt(i[u], DPU_SIZE) = {}

\* The row as DoubleCRT::Op would leave it: Fun applied once to every element
\* of the row, and nothing behind the row touched.
ResultRow ==
  [k \in 0..(BUF_SIZE - 1) |->
     IF k < DPU_SIZE THEN Fun(RowThis[k], RowOther[k]) ELSE RowThis[k]]

\* When the launch returns, the row is what the CPU method would have computed.
ResultCorrect ==
  (\A t \in Tasklets : pc[t] = "done") => DPU_ROW_THIS = ResultRow

\* The launch returns.
Terminates == <>(\A t \in Tasklets : pc[t] = "done")

(***************************************************************************)
(* The inductive invariant of the proofs: where a tasklet stands in its    *)
(* share and what it has left behind.                                      *)
(***************************************************************************)
Untouched(k) == DPU_ROW_THIS[k] = RowThis[k]
Combined(k) == DPU_ROW_THIS[k] = Fun(RowThis[k], RowOther[k])
Active(t) == t < NrTasklets(DPU_SIZE)

\* A working tasklet is at the beginning of a chunk of its share.
PositionInv(t) ==
  Working(t) =>
    /\ Active(t)
    /\ i[t] \in Share(t, DPU_SIZE)
    /\ (i[t] - Start(t, DPU_SIZE)) % Chunk(DPU_SIZE) = 0

\* Its share is combined up to there and untouched from there on.
ShareInv(t) ==
  \A k \in Share(t, DPU_SIZE) :
    /\ pc[t] = "start" => Untouched(k)
    /\ Working(t) /\ k < i[t] => Combined(k)
    /\ Working(t) /\ k >= i[t] => Untouched(k)
    /\ pc[t] = "done" => Combined(k)

\* Between the read and the write the cache holds what the row still holds.
CacheInv(t) ==
  pc[t] = "write" =>
    cache[t] = [k \in ChunkAt(i[t], DPU_SIZE) |-> [this |-> RowThis[k], other |-> RowOther[k]]]

RestInv == \A k \in DPU_SIZE..(BUF_SIZE - 1) : Untouched(k)

KernelInv ==
  /\ TypeOK
  /\ \A t \in Tasklets : PositionInv(t) /\ CacheInv(t)
  /\ \A t \in Tasklets : Active(t) => ShareInv(t)
  /\ RestInv

Op == INSTANCE Elementwise
        WITH cell <- DPU_ROW_THIS, orig <- RowThis, target <- ResultRow

\* The kernel does what the abstract element-wise method promises.
ImplementsElementwise == Op!Safety
================================================================================

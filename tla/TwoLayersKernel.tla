---------------------------- MODULE TwoLayersKernel ----------------------------
(***************************************************************************)
(* The DPU programs dpu_multi_new_fft_last_two_layers.c and                *)
(* dpu_multi_new_ifft_first_two_layers.c on one DPU.  A block is four      *)
(* complex numbers, replaced by four others; the two programs differ in    *)
(* that computation, which is the constant operator Quad.                  *)
(*                                                                         *)
(* Unlike the butterfly programs these have no tasklet return at once: the *)
(* tasklets that are not counted in nr_tasklets compute too, on the blocks *)
(* that follow.                                                            *)
(***************************************************************************)
EXTENDS Integers

CONSTANTS
  NR_TASKLETS,   \* tasklets the program is compiled for
  BUFFER_BLOCKS, \* blocks that fit into DPU_XP
  BlockCounts,   \* the values of DPU_BLOCKS the host sends
  Value,         \* contents of a block
  Xp,            \* DPU_XP at the launch
  Quad(_)        \* the two layers on a block

\* What the constants are.
TwoLayersConstants ==
  /\ NR_TASKLETS \in Nat \ {0} /\ BUFFER_BLOCKS \in Nat
  /\ BlockCounts \subseteq 1..BUFFER_BLOCKS
  /\ Xp \in [0..(BUFFER_BLOCKS - 1) -> Value]
  /\ \A v \in Value : Quad(v) \in Value

(***************************************************************************)
(* What the programs rely on and do not check: that the shares of all the  *)
(* tasklets are whole blocks of the buffer.  Fewer blocks than tasklets    *)
(* need not be a power of two.                                             *)
(***************************************************************************)
WholeBlocks ==
  /\ \E e \in 0..8 : NR_TASKLETS = 2^e
  /\ NR_TASKLETS <= BUFFER_BLOCKS
  /\ \A b \in BlockCounts : b < NR_TASKLETS \/ b % NR_TASKLETS = 0

VARIABLES
  DPU_BLOCKS,
  xp,         \* the blocks of DPU_XP
  pc,         \* pc[t]: "start", "read", "write" or "done"
  i,          \* i[t]: the tasklet's current block
  blocks,     \* blocks[t]: how many it has left
  cache       \* cache[t]: the block that was read

vars == <<DPU_BLOCKS, xp, pc, i, blocks, cache>>

Tasklets == 0..(NR_TASKLETS - 1)

\* while (nr_tasklets > DPU_BLOCKS)
Halvings == {NR_TASKLETS \div 2^h : h \in 0..8}
NrTasklets == CHOOSE n \in Halvings : n <= DPU_BLOCKS /\ \A m \in Halvings : m <= DPU_BLOCKS => m <= n
PerTaskletBlocks == DPU_BLOCKS \div NrTasklets

Init ==
  /\ DPU_BLOCKS \in BlockCounts
  /\ xp = Xp
  /\ pc = [t \in Tasklets |-> "start"]
  /\ i = [t \in Tasklets |-> 0]
  /\ blocks = [t \in Tasklets |-> 0]
  /\ cache = [t \in Tasklets |-> Xp[0]]

\* Mutant of Enter: the blocks are dealt among all tasklets.
Enter_AllTasklets(t) ==
  /\ pc[t] = "start"
  /\ i' = [i EXCEPT ![t] = (t * DPU_BLOCKS) \div NR_TASKLETS]
  /\ blocks' = [blocks EXCEPT ![t] = PerTaskletBlocks]
  /\ pc' = [pc EXCEPT ![t] = "read"]
  /\ UNCHANGED <<DPU_BLOCKS, xp, cache>>

\* main
Enter(t) ==
  /\ pc[t] = "start"
  /\ i' = [i EXCEPT ![t] = t * PerTaskletBlocks]
  /\ blocks' = [blocks EXCEPT ![t] = PerTaskletBlocks]
  /\ pc' = [pc EXCEPT ![t] = "read"]
  /\ UNCHANGED <<DPU_BLOCKS, xp, cache>>

\* mram_read; a tasklet behind the buffer reads and writes what is not modelled.
Read(t) ==
  /\ pc[t] = "read"
  /\ cache' = [cache EXCEPT ![t] = IF i[t] \in DOMAIN xp THEN xp[i[t]] ELSE Xp[0]]
  /\ pc' = [pc EXCEPT ![t] = "write"]
  /\ UNCHANGED <<DPU_BLOCKS, xp, i, blocks>>

\* Mutant of Write: the loop tests before it counts down.
Write_OneMore(t) ==
  /\ pc[t] = "write"
  /\ xp' = [k \in DOMAIN xp |-> IF k = i[t] THEN Quad(cache[t]) ELSE xp[k]]
  /\ i' = [i EXCEPT ![t] = @ + 1]
  /\ blocks' = [blocks EXCEPT ![t] = @ - 1]
  /\ pc' = [pc EXCEPT ![t] = IF blocks[t] = 0 THEN "done" ELSE "read"]
  /\ UNCHANGED <<DPU_BLOCKS, cache>>

\* The two layers of a block, mram_write and the end of the iteration.
Write(t) ==
  /\ pc[t] = "write"
  /\ xp' = [k \in DOMAIN xp |-> IF k = i[t] THEN Quad(cache[t]) ELSE xp[k]]
  /\ i' = [i EXCEPT ![t] = @ + 1]
  /\ blocks' = [blocks EXCEPT ![t] = @ - 1]
  /\ pc' = [pc EXCEPT ![t] = IF blocks[t] = 1 THEN "done" ELSE "read"]
  /\ UNCHANGED <<DPU_BLOCKS, cache>>

Tasklet(t) == Enter(t) \/ Read(t) \/ Write(t)

Finished == (\A t \in Tasklets : pc[t] = "done") /\ UNCHANGED vars

Next == (\E t \in Tasklets : Tasklet(t)) \/ Finished

Spec == Init /\ [][Next]_vars

\* The DPU's pipeline schedules every tasklet that can run.
FairSpec == Spec /\ \A t \in Tasklets : WF_vars(Tasklet(t))

--------------------------------------------------------------------------------
Working(t) == pc[t] \in {"read", "write"}

(***************************************************************************)
(* No two tasklets work on the same block, and none on a block outside the *)
(* buffer, though nothing stops a tasklet beyond nr_tasklets               *)
(* (dpu_multi_new_fft_last_two_layers.c:51-67).                            *)
(***************************************************************************)
OwnBlocks ==
  \A t \in Tasklets : Working(t) =>
    /\ i[t] \in 0..(BUFFER_BLOCKS - 1)
    /\ \A u \in Tasklets \ {t} : Working(u) => i[t] # i[u]

(***************************************************************************)
(* When the launch returns each of the DPU's blocks has been computed      *)
(* once; a block behind them, which the host does not read, has been       *)
(* computed once or not at all.                                            *)
(***************************************************************************)
BlocksComputed ==
  (\A t \in Tasklets : pc[t] = "done") =>
    /\ \A k \in 0..(DPU_BLOCKS - 1) : xp[k] = Quad(Xp[k])
    /\ \A k \in DPU_BLOCKS..(BUFFER_BLOCKS - 1) : xp[k] \in {Xp[k], Quad(Xp[k])}

\* The launch returns: the countdown of a tasklet's blocks does not start at zero.
Terminates == <>(\A t \in Tasklets : pc[t] = "done")
================================================================================

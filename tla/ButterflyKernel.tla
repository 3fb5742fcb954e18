---------------------------- MODULE ButterflyKernel ----------------------------
(***************************************************************************)
(* The DPU programs dpu_multi_fwd_butterfly_loop.c and                     *)
(* dpu_multi_inv_butterfly_loop.c on one DPU.  They differ in the          *)
(* butterfly, which is the constant operator Bf, so that what is shown     *)
(* here holds for both.  An element of xp is a pair of DPU_XP0 and         *)
(* DPU_XP1 at the same place: the programs only touch them together.       *)
(*                                                                         *)
(* Four butterflies are two steps, the DMA reads into the cache and, after *)
(* the computation on the cache, the DMA writes, between which other       *)
(* tasklets take steps.                                                    *)
(***************************************************************************)
EXTENDS ButterflyShares

CONSTANTS
  BUFFER_SIZE,   \* elements of a buffer in MRAM
  Launches,      \* what the host sends
  Value,         \* complex numbers
  Xp, Wtab,      \* what the buffers hold at the launch
  Bf(_, _, _),   \* fwd_butterfly or inv_butterfly: a new pair of values
  Bf0(_, _)      \* the same for the factor 1

ASSUME BuffersAssumption ==
  /\ BUFFER_SIZE \in Nat
  /\ Xp \in [0..(BUFFER_SIZE - 1) -> Value \X Value]
  /\ Wtab \in [0..(BUFFER_SIZE - 1) -> Value]

ASSUME ButterflyAssumption ==
  \A x0, x1, w \in Value : Bf(x0, x1, w) \in Value \X Value /\ Bf0(x0, x1) \in Value \X Value

ASSUME LaunchesAssumption ==
  /\ Launches \subseteq [blocks : Nat, size : Nat, butterfly0 : {0, 1}]
  /\ \A l \in Launches : Butterflies(l) <= BUFFER_SIZE

VARIABLES
  launch,   \* DPU_BLOCKS, DPU_SIZE and DPU_DO_FWD_BUTTERFLY0
  xp,       \* DPU_XP0 and DPU_XP1
  pc,       \* pc[t]: "start", "read", "write" or "done"
  i,        \* i[t]: the tasklet's current call of fwd_butterfly_loop
  at,       \* at[t]: mram_read_start of the current four butterflies
  cache     \* cache[t]: xp0, xp1 and wtab after the read

vars == <<launch, xp, pc, i, at, cache>>

Four(k) == k..(k + BLOCK_SIZE - 1)

Init ==
  /\ launch \in Launches
  /\ xp = Xp
  /\ pc = [t \in Tasklets |-> "start"]
  /\ i = [t \in Tasklets |-> 0]
  /\ at = [t \in Tasklets |-> 0]
  /\ cache = [t \in Tasklets |-> <<>>]

\* Mutant of Leave: a tasklet beyond nr_tasklets waits.
Leave_Never(t) ==
  /\ pc[t] = "start"
  /\ t >= NrTasklets(launch)
  /\ UNCHANGED vars

\* main: a tasklet beyond nr_tasklets returns.
Leave(t) ==
  /\ pc[t] = "start"
  /\ t >= NrTasklets(launch)
  /\ pc' = [pc EXCEPT ![t] = "done"]
  /\ UNCHANGED <<launch, xp, i, at, cache>>

\* main: the others make their first call.
Enter(t) ==
  /\ pc[t] = "start"
  /\ t < NrTasklets(launch)
  /\ at' = [at EXCEPT ![t] = CallStart(t, 0, launch)]
  /\ pc' = [pc EXCEPT ![t] = "read"]
  /\ UNCHANGED <<launch, xp, i, cache>>

\* Mutant of Read: five elements for the four butterflies.
Read_OneMore(t) ==
  /\ pc[t] = "read"
  /\ cache' = [cache EXCEPT ![t] = [k \in at[t]..(at[t] + BLOCK_SIZE) |-> <<xp[k], Wtab[k]>>]]
  /\ pc' = [pc EXCEPT ![t] = "write"]
  /\ UNCHANGED <<launch, xp, i, at>>

\* mram_read of xp0, xp1 and wtab.
Read(t) ==
  /\ pc[t] = "read"
  /\ cache' = [cache EXCEPT ![t] = [k \in Four(at[t]) |-> <<xp[k], Wtab[k]>>]]
  /\ pc' = [pc EXCEPT ![t] = "write"]
  /\ UNCHANGED <<launch, xp, i, at>>

\* The four butterflies; the first one of a call may be butterfly0.
Computed(t, k) ==
  LET x == cache[t][k][1]
  IN IF k = CallStart(t, i[t], launch) /\ DoButterfly0(t, launch)
     THEN Bf0(x[1], x[2])
     ELSE Bf(x[1], x[2], cache[t][k][2])

\* j < per_tasklet_size
NextFour(t) == at[t] + BLOCK_SIZE < CallStart(t, i[t], launch) + PerTaskletSize(launch)

\* i < per_tasklet_blocks, after i++
NextCall(t) == (IF SharedBlocks(launch) THEN i[t] + 1 ELSE (i[t] + 1) % UINT8) < Calls(launch)

\* mram_write of xp0 and xp1, and the next four butterflies.
Write(t) ==
  /\ pc[t] = "write"
  /\ xp' = [k \in DOMAIN xp |-> IF k \in Four(at[t]) THEN Computed(t, k) ELSE xp[k]]
  /\ cache' = [cache EXCEPT ![t] = <<>>]
  /\ \/ /\ NextFour(t)
        /\ at' = [at EXCEPT ![t] = at[t] + BLOCK_SIZE]
        /\ pc' = [pc EXCEPT ![t] = "read"]
        /\ i' = i
     \/ /\ ~NextFour(t) /\ NextCall(t)
        /\ i' = [i EXCEPT ![t] = (i[t] + 1) % UINT8]
        /\ at' = [at EXCEPT ![t] = CallStart(t, (i[t] + 1) % UINT8, launch)]
        /\ pc' = [pc EXCEPT ![t] = "read"]
     \/ /\ ~NextFour(t) /\ ~NextCall(t)
        /\ pc' = [pc EXCEPT ![t] = "done"]
        /\ UNCHANGED <<i, at>>
  /\ UNCHANGED launch

Tasklet(t) == Leave(t) \/ Enter(t) \/ Read(t) \/ Write(t)

\* dpu_launch(set, DPU_SYNCHRONOUS) returns when every tasklet has returned.
Finished == (\A t \in Tasklets : pc[t] = "done") /\ UNCHANGED vars

Next == (\E t \in Tasklets : Tasklet(t)) \/ Finished

Spec == Init /\ [][Next]_vars

\* The DPU's pipeline schedules every tasklet that can run.
FairSpec == Spec /\ \A t \in Tasklets : WF_vars(Tasklet(t))

--------------------------------------------------------------------------------
TypeOK ==
  /\ launch \in Launches
  /\ xp \in [0..(BUFFER_SIZE - 1) -> Value \X Value]
  /\ pc \in [Tasklets -> {"start", "read", "write", "done"}]
  /\ i \in [Tasklets -> 0..(UINT8 - 1)]
  /\ at \in [Tasklets -> Nat]
  /\ DOMAIN cache = Tasklets
  /\ \A t \in Tasklets :
       pc[t] = "write" => cache[t] \in [Four(at[t]) -> (Value \X Value) \X Value]

Working(t) == pc[t] \in {"read", "write"}

(***************************************************************************)
(* No two tasklets work on the same butterflies, neither of one block nor  *)
(* of neighbouring ones (dpu_multi_fwd_butterfly_loop.c:114): nothing      *)
(* synchronises them.                                                      *)
(***************************************************************************)
NoRace ==
  \A t, u \in Tasklets : t # u /\ Working(t) /\ Working(u) => Four(at[t]) \cap Four(at[u]) = {}

(***************************************************************************)
(* The layer as new_fft_layer makes it: the first butterfly of a block is  *)
(* butterfly0, unless the DPU has only a later part of the block.          *)
(***************************************************************************)
ResultAt(k) ==
  IF k % launch.size = 0 /\ (launch.blocks > 1 \/ launch.butterfly0 = 1)
  THEN Bf0(Xp[k][1], Xp[k][2])
  ELSE Bf(Xp[k][1], Xp[k][2], Wtab[k])
ResultXp ==
  [k \in 0..(BUFFER_SIZE - 1) |-> IF k < Butterflies(launch) THEN ResultAt(k) ELSE Xp[k]]

\* When the launch returns, every butterfly has been computed once and nothing
\* behind the blocks has changed.
ResultCorrect == (\A t \in Tasklets : pc[t] = "done") => xp = ResultXp

\* The launch returns.
Terminates == <>(\A t \in Tasklets : pc[t] = "done")

(***************************************************************************)
(* The inductive invariant of the proofs: where a tasklet stands in its    *)
(* share, the butterflies of its calls one behind the other, and what it   *)
(* has left behind.                                                        *)
(***************************************************************************)
ShareSize == PerTaskletSize(launch) * Calls(launch)
Share(t) == (t * ShareSize)..(t * ShareSize + ShareSize - 1)
Active(t) == t < NrTasklets(launch)
Untouched(k) == xp[k] = Xp[k]
Made(k) == xp[k] = ResultAt(k)

\* A working tasklet is at a group of four of the current call's butterflies.
PositionInv(t) ==
  /\ pc[t] = "start" => i[t] = 0
  /\ Working(t) =>
       /\ Active(t) /\ i[t] < Calls(launch)
       /\ at[t] - CallStart(t, i[t], launch) \in 0..(PerTaskletSize(launch) - 1)
       /\ (at[t] - CallStart(t, i[t], launch)) % BLOCK_SIZE = 0

\* Its share is computed up to there and untouched from there on.
ShareInv(t) ==
  \A k \in Share(t) :
    /\ pc[t] = "start" => Untouched(k)
    /\ Working(t) => IF k < at[t] THEN Made(k) ELSE Untouched(k)
    /\ pc[t] = "done" => Made(k)

\* Between the read and the write the cache holds what the buffers still hold.
CacheInv(t) == pc[t] = "write" => cache[t] = [k \in Four(at[t]) |-> <<Xp[k], Wtab[k]>>]

RestInv == \A k \in Butterflies(launch)..(BUFFER_SIZE - 1) : Untouched(k)

KernelInv ==
  /\ TypeOK
  /\ \A t \in Tasklets : PositionInv(t) /\ CacheInv(t)
  /\ \A t \in Tasklets : Active(t) => ShareInv(t)
  /\ RestInv

\* The kernel does what the abstract element-wise method promises.
Op == INSTANCE Elementwise WITH cell <- xp, orig <- Xp, target <- ResultXp
ImplementsElementwise == Op!Safety
================================================================================

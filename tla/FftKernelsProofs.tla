---------------------------- MODULE FftKernelsProofs ----------------------------
(***************************************************************************)
(* Proofs about the programs of one transform on a DPU.                    *)
(*                                                                         *)
(* First ButterflyKernel, for every number of tasklets, every launch of    *)
(* whole shares, every content of the buffers and both butterflies: types, *)
(* freedom from races, the result and the implementation of Elementwise.   *)
(*                                                                         *)
(* Then TwoLayersKernel as MCFftKernels runs it, after the launch of the   *)
(* butterflies, for every number of tasklets that is a power of two, every *)
(* content of the blocks and every computation: the tasklets keep to       *)
(* blocks of their own and leave none out.  All tasklets take part, also   *)
(* those that nr_tasklets does not count, so that what has to be shown of  *)
(* the division is that the first NR_TASKLETS shares cover the blocks and  *)
(* do not go beyond the buffer.                                            *)
(***************************************************************************)
EXTENDS MCFftKernels, EqualShares

--------------------------------------------------------------------------------
(* The geometry of the shares. *)

WholeLaunches == \A l \in Launches : WholeShares(l) /\ CountableCalls(l)

\* The quantities of the division are positive integers.
LEMMA ShareNumbers ==
  ASSUME NEW l \in Launches, WholeLaunches
  PROVE  /\ l.blocks \in Nat \ {0} /\ l.size \in Nat /\ l.butterfly0 \in {0, 1}
         /\ NrTasklets(l) \in Nat \ {0} /\ NrTasklets(l) <= NR_TASKLETS
         /\ PerTaskletSize(l) \in Nat \ {0} /\ PerTaskletSize(l) % BLOCK_SIZE = 0
         /\ Calls(l) \in Nat \ {0} /\ Calls(l) < UINT8
         /\ PerTaskletBlocks(l) \in Nat /\ PerBlockTasklets(l) \in Nat
<1>1. l.blocks \in Nat /\ l.size \in Nat /\ l.butterfly0 \in {0, 1} /\ UINT8 \in Nat
      /\ NR_TASKLETS \in Nat
  BY LaunchesAssumption, TaskletsAssumption
<1>2. WholeShares(l) /\ CountableCalls(l)
  BY DEF WholeLaunches
<1>3. l.blocks \in Nat \ {0} /\ NrTasklets(l) \in Nat \ {0} /\ NrTasklets(l) <= NR_TASKLETS
  BY <1>1, <1>2 DEF WholeShares
<1>4. PerTaskletBlocks(l) \in Nat /\ PerBlockTasklets(l) \in Nat
  BY <1>3 DEF PerTaskletBlocks, PerBlockTasklets
<1>5. PerTaskletSize(l) \in Int
  BY <1>1, <1>4 DEF PerTaskletSize, SharedBlocks
<1>6. PerTaskletSize(l) \in Nat \ {0} /\ PerTaskletSize(l) % BLOCK_SIZE = 0
  BY <1>2, <1>5 DEF WholeShares
<1>7. Calls(l) \in Nat \ {0}
  <2>1. CASE SharedBlocks(l)
    BY <2>1 DEF Calls
  <2>2. CASE ~SharedBlocks(l)
    <3>1. l.blocks = NrTasklets(l) * PerTaskletBlocks(l)
      BY <1>2, <2>2 DEF WholeShares
    <3>2. PerTaskletBlocks(l) # 0
      BY <1>3, <3>1
    <3>3. QED BY <1>4, <2>2, <3>2 DEF Calls
  <2>3. QED BY <2>1, <2>2
<1>8. QED BY <1>1, <1>2, <1>3, <1>4, <1>6, <1>7 DEF CountableCalls

\* The tasklets' shares are as large as the blocks together.
LEMMA SharesTogether ==
  ASSUME NEW l \in Launches, WholeLaunches
  PROVE  NrTasklets(l) * (PerTaskletSize(l) * Calls(l)) = Butterflies(l)
<1> DEFINE n == NrTasklets(l)
           p == PerTaskletSize(l)
           b == l.blocks
           s == l.size
           tb == PerTaskletBlocks(l)
           bt == PerBlockTasklets(l)
<1>1. n \in Nat /\ p \in Nat /\ b \in Nat /\ s \in Nat /\ tb \in Nat /\ bt \in Nat
      /\ Butterflies(l) = b * s
  BY ShareNumbers DEF Butterflies
<1>2. CASE SharedBlocks(l)
  <2>1. n = b * bt /\ s = bt * p /\ Calls(l) = 1
    BY <1>2 DEF WholeLaunches, WholeShares, Calls
  <2> HIDE DEF n, p, b, s, tb, bt
  <2>2. n * p = b * s
    BY <1>1, <2>1
  <2>3. QED BY <1>1, <2>1, <2>2 DEF n, p
<1>3. CASE ~SharedBlocks(l)
  <2>1. b = n * tb /\ p = s /\ Calls(l) = tb
    BY <1>3 DEF WholeLaunches, WholeShares, Calls, PerTaskletSize
  <2> HIDE DEF n, p, b, s, tb, bt
  <2>2. n * (p * tb) = b * s
    BY <1>1, <2>1
  <2>3. QED BY <1>1, <2>1, <2>2 DEF n, p
<1>4. QED BY <1>2, <1>3

\* The calls of a tasklet follow each other from the beginning of its share.
LEMMA CallStartInShare ==
  ASSUME NEW l \in Launches, WholeLaunches, NEW t \in Nat, NEW c \in 0..(Calls(l) - 1)
  PROVE  /\ PerTaskletSize(l) * Calls(l) \in Nat
         /\ CallStart(t, c, l) = t * (PerTaskletSize(l) * Calls(l)) + c * PerTaskletSize(l)
         /\ CallStart(t, c, l) \in Nat
<1> DEFINE p == PerTaskletSize(l)
           bt == PerBlockTasklets(l)
           tb == PerTaskletBlocks(l)
<1>1. p \in Nat /\ bt \in Nat /\ tb \in Nat /\ Calls(l) \in Nat /\ l.size \in Nat /\ c \in Nat
  BY ShareNumbers
<1>2. CASE SharedBlocks(l)
  <2>1. bt \in Nat \ {0} /\ l.size = bt * p /\ Calls(l) = 1 /\ c = 0
    BY <1>1, <1>2 DEF WholeLaunches, WholeShares, SharedBlocks, Calls
  <2>2. CallStart(t, c, l) = (t \div bt) * l.size + (t % bt) * p
    BY <1>2 DEF CallStart
  <2> HIDE DEF p, bt, tb
  <2> DEFINE q == t \div bt
             r == t % bt
  <2>3. q \in Int /\ r \in Int /\ t = bt * q + r
    BY <2>1, DivMod
  <2> HIDE DEF q, r
  <2>4. q * (bt * p) + r * p = (bt * q + r) * p
    BY <1>1, <2>1, <2>3
  <2>5. CallStart(t, c, l) = t * p
    BY <2>1, <2>2, <2>3, <2>4 DEF q, r
  <2>6. t * p \in Nat
    BY <1>1
  <2>7. QED BY <1>1, <2>1, <2>5, <2>6 DEF p
<1>3. CASE ~SharedBlocks(l)
  <2>1. Calls(l) = tb
    BY <1>3 DEF Calls
  <2>2. CallStart(t, c, l) = t * (p * tb) + c * p
    BY <1>3 DEF CallStart
  <2> HIDE DEF p, bt, tb
  <2>3. t * (p * tb) \in Nat /\ c * p \in Nat /\ p * tb \in Nat
    BY <1>1
  <2>4. QED BY <2>1, <2>2, <2>3 DEF p
<1>4. QED BY <1>2, <1>3

\* The first butterfly of a call is a butterfly0 exactly if it is the first of
\* a block, and the host did not keep the factor 1 for another DPU.
LEMMA FirstButterfly ==
  ASSUME NEW l \in Launches, WholeLaunches, NEW t \in Nat, t < NrTasklets(l),
         NEW c \in 0..(Calls(l) - 1), NEW d \in 0..(PerTaskletSize(l) - 1)
  PROVE  (d = 0 /\ DoButterfly0(t, l))
           <=> ((CallStart(t, c, l) + d) % l.size = 0 /\ (l.blocks > 1 \/ l.butterfly0 = 1))
<1> DEFINE p == PerTaskletSize(l)
           bt == PerBlockTasklets(l)
           tb == PerTaskletBlocks(l)
           s == l.size
           n == NrTasklets(l)
<1>1. /\ p \in Nat \ {0} /\ bt \in Nat /\ tb \in Nat /\ s \in Nat /\ c \in Nat /\ d \in Nat
      /\ n \in Nat \ {0} /\ l.blocks \in Nat \ {0}
  BY ShareNumbers
<1>2. CASE ~SharedBlocks(l)
  <2>1. s = p /\ DoButterfly0(t, l) /\ CallStart(t, c, l) = t * (p * tb) + c * p
    BY <1>2 DEF PerTaskletSize, DoButterfly0, CallStart
  <2>2. l.blocks > 1
    <3>1. n \div l.blocks = 0
      BY <1>1, <1>2 DEF SharedBlocks, PerBlockTasklets
    <3> HIDE DEF n
    <3>2. n = l.blocks * 0 + (n % l.blocks) /\ n % l.blocks \in 0..(l.blocks - 1)
      BY <1>1, <3>1, DivMod
    <3>3. QED BY <1>1, <3>2
  <2> HIDE DEF p, bt, tb, s, n
  <2>3. t * (p * tb) + c * p + d = (t * tb + c) * s + d /\ t * tb + c \in Nat
    BY <1>1, <2>1
  <2>4. ((t * tb + c) * s + d) % s = d
    BY <1>1, <2>1, <2>3, BlockStart DEF p
  <2>5. (CallStart(t, c, l) + d) % s = d
    BY <2>1, <2>3, <2>4
  <2>6. QED BY <2>1, <2>2, <2>5 DEF s
<1>3. CASE SharedBlocks(l)
  <2>1. bt \in Nat \ {0} /\ s = bt * p /\ n = l.blocks * bt
    BY <1>1, <1>3 DEF WholeLaunches, WholeShares, SharedBlocks
  <2>2. CallStart(t, c, l) = (t \div bt) * s + (t % bt) * p
    BY <1>3 DEF CallStart
  <2>3. DoButterfly0(t, l) <=> IF l.blocks > 1 THEN t % bt = 0 ELSE l.butterfly0 = 1 /\ t = 0
    BY <1>3 DEF DoButterfly0
  <2>4. d < p
    BY <1>1
  <2> HIDE DEF p, bt, tb, s, n
  <2> DEFINE q == t \div bt
             r == t % bt
  <2>5. q \in Nat /\ r \in 0..(bt - 1) /\ t = bt * q + r
    <3>1. q \in Int /\ r \in 0..(bt - 1) /\ t = bt * q + r
      BY <2>1, DivMod
    <3> HIDE DEF q, r
    <3>2. q <= -1 => bt * q <= -bt
      BY <2>1, <3>1
    <3>3. QED BY <2>1, <3>1, <3>2
  <2>6. l.blocks = 1 => r = t
    <3>1. SUFFICES ASSUME l.blocks = 1 PROVE r = t
      OBVIOUS
    <3>2. t < bt
      BY <1>1, <2>1, <3>1 DEF n
    <3>3. CASE q >= 1
      <4>1. bt * q >= bt
        BY <2>1, <2>5, <3>3
      <4>2. QED BY <2>1, <2>5, <3>2, <4>1
    <3>4. CASE q = 0
      BY <2>1, <2>5, <3>4
    <3>5. QED BY <2>5, <3>3, <3>4
  <2> HIDE DEF q, r
  <2>7. r * p + d \in 0..(s - 1)
    <3>1. r \in Nat /\ r < bt /\ bt \in Nat
      BY <2>1, <2>5
    <3>2. r * p + p <= bt * p /\ r * p \in Nat
      BY <1>1, <3>1, SharesApart
    <3>3. QED BY <1>1, <2>1, <2>4, <3>2
  <2>8. s \in Nat \ {0}
    BY <1>1, <2>7
  <2>9. (q * s + (r * p + d)) % s = r * p + d
    BY <2>5, <2>7, <2>8, BlockStart
  <2>10. r * p + d = 0 <=> r = 0 /\ d = 0
    <3>1. r >= 1 => r * p >= p
      BY <1>1, <2>5
    <3>2. r = 0 => r * p = 0
      BY <1>1
    <3>3. QED BY <1>1, <2>5, <3>1, <3>2
  <2>11. (CallStart(t, c, l) + d) % s = r * p + d
    <3>1. q * s \in Nat /\ r * p \in Nat
      BY <1>1, <2>5
    <3>2. (q * s + r * p) + d = q * s + (r * p + d)
      BY <1>1, <3>1
    <3>3. CallStart(t, c, l) = q * s + r * p
      BY <2>2 DEF q, r
    <3>4. QED BY <2>9, <3>2, <3>3
  <2>12. DoButterfly0(t, l) <=> r = 0 /\ (l.blocks > 1 \/ l.butterfly0 = 1)
    <3>1. CASE l.blocks > 1
      BY <2>3, <3>1 DEF r
    <3>2. CASE l.blocks = 1
      BY <2>3, <2>6, <3>2
    <3>3. QED BY <1>1, <3>1, <3>2
  <2>13. QED BY <2>10, <2>11, <2>12 DEF s
<1>4. QED BY <1>2, <1>3

\* The quantities of the current launch.
LEMMA ShareFacts ==
  ASSUME WholeLaunches, TypeOK
  PROVE  /\ launch \in Launches /\ ShareSize \in Nat \ {0}
         /\ PerTaskletSize(launch) \in Nat \ {0} /\ Calls(launch) \in Nat \ {0}
         /\ NrTasklets(launch) \in Nat \ {0} /\ NrTasklets(launch) <= NR_TASKLETS
         /\ Butterflies(launch) = NrTasklets(launch) * ShareSize
         /\ Butterflies(launch) \in Nat /\ Butterflies(launch) <= BUFFER_SIZE
         /\ BUFFER_SIZE \in Nat
<1>1. launch \in Launches
  BY DEF TypeOK
<1>2. /\ PerTaskletSize(launch) \in Nat \ {0} /\ Calls(launch) \in Nat \ {0}
      /\ NrTasklets(launch) \in Nat \ {0} /\ NrTasklets(launch) <= NR_TASKLETS
  BY <1>1, ShareNumbers
<1>3. ShareSize \in Nat \ {0}
  <2> DEFINE p == PerTaskletSize(launch)
             c == Calls(launch)
  <2>1. p \in Nat \ {0} /\ c \in Nat \ {0}
    BY <1>2
  <2> HIDE DEF p, c
  <2>2. p * c \in Nat /\ p * c >= p
    BY <2>1, (c - 1) * p >= 0
  <2>3. QED BY <2>1, <2>2 DEF ShareSize, p, c
<1>4. Butterflies(launch) = NrTasklets(launch) * ShareSize
  BY <1>1, SharesTogether DEF ShareSize
<1>5. Butterflies(launch) \in Nat
  BY <1>2, <1>3, <1>4
<1>6. Butterflies(launch) <= BUFFER_SIZE /\ BUFFER_SIZE \in Nat
  BY <1>1, LaunchesAssumption, BuffersAssumption
<1>7. QED BY <1>1, <1>2, <1>3, <1>4, <1>5, <1>6

\* Shares do not overlap.
LEMMA SharesDisjoint ==
  ASSUME WholeLaunches, TypeOK, NEW t \in Tasklets, NEW u \in Tasklets, t # u
  PROVE  Share(t) \cap Share(u) = {}
<1>1. t \in Nat /\ u \in Nat /\ ShareSize \in Nat
  BY ShareFacts, TaskletsAssumption DEF Tasklets
<1>2. t * ShareSize \in Nat /\ u * ShareSize \in Nat
  BY <1>1
<1>3. t < u => t * ShareSize + ShareSize <= u * ShareSize
  BY <1>1, SharesApart
<1>4. u < t => u * ShareSize + ShareSize <= t * ShareSize
  BY <1>1, SharesApart
<1>5. QED BY <1>1, <1>2, <1>3, <1>4 DEF Share

\* The shares of the active tasklets lie among the butterflies and cover them.
LEMMA SharesInBlocks ==
  ASSUME WholeLaunches, TypeOK, NEW t \in Tasklets, Active(t)
  PROVE  Share(t) \subseteq 0..(Butterflies(launch) - 1)
<1>1. /\ t \in Nat /\ ShareSize \in Nat /\ NrTasklets(launch) \in Nat
      /\ Butterflies(launch) = NrTasklets(launch) * ShareSize
      /\ Butterflies(launch) \in Nat
  BY ShareFacts, TaskletsAssumption DEF Tasklets
<1>2. t * ShareSize + ShareSize <= NrTasklets(launch) * ShareSize
  BY <1>1, SharesApart DEF Active
<1>3. t * ShareSize \in Nat
  BY <1>1
<1>4. QED BY <1>1, <1>2, <1>3 DEF Share

\* The shares of the active tasklets leave no butterfly of the launch out.
LEMMA SharesCoverBlocks ==
  ASSUME WholeLaunches, TypeOK, NEW k \in 0..(Butterflies(launch) - 1)
  PROVE  \E t \in Tasklets : Active(t) /\ k \in Share(t)
<1>1. /\ ShareSize \in Nat \ {0} /\ NrTasklets(launch) \in Nat \ {0}
      /\ NrTasklets(launch) <= NR_TASKLETS /\ NR_TASKLETS \in Nat
      /\ Butterflies(launch) = NrTasklets(launch) * ShareSize /\ Butterflies(launch) \in Nat
  BY ShareFacts, TaskletsAssumption
<1>2. k \in Nat /\ k < NrTasklets(launch) * ShareSize
  BY <1>1
<1>3. PICK t \in 0..(NrTasklets(launch) - 1) : t * ShareSize <= k /\ k < t * ShareSize + ShareSize
  BY <1>1, <1>2, SharesCover
<1>4. t \in Tasklets /\ Active(t)
  BY <1>1, <1>3 DEF Tasklets, Active
<1>5. t * ShareSize \in Nat
  BY <1>1, <1>3
<1>6. k \in Share(t)
  BY <1>1, <1>2, <1>3, <1>5 DEF Share
<1>7. QED BY <1>4, <1>6

\* A working tasklet's four butterflies lie in its share; behind them is the
\* rest of the call, the next call or the end of the share.
LEMMA WorkingFour ==
  ASSUME WholeLaunches, TypeOK, NEW t \in Tasklets, PositionInv(t), Working(t)
  PROVE  /\ Active(t) /\ t \in Nat /\ at[t] \in Nat
         /\ i[t] \in Nat /\ i[t] < Calls(launch)
         /\ Four(at[t]) \subseteq Share(t)
         /\ Four(at[t]) \subseteq 0..(BUFFER_SIZE - 1)
         /\ at[t] + BLOCK_SIZE <= CallStart(t, i[t], launch) + PerTaskletSize(launch)
         /\ CallStart(t, i[t], launch) \in Nat
         /\ CallStart(t, i[t], launch) + PerTaskletSize(launch)
              <= t * ShareSize + ShareSize
         /\ (at[t] + BLOCK_SIZE - CallStart(t, i[t], launch)) % BLOCK_SIZE = 0
<1> DEFINE p == PerTaskletSize(launch)
           n == Calls(launch)
           c == i[t]
           st == CallStart(t, i[t], launch)
           w == ShareSize
           d == at[t] - st
<1>1. /\ p \in Nat \ {0} /\ n \in Nat \ {0} /\ w \in Nat \ {0} /\ launch \in Launches
      /\ t \in Nat /\ p % BLOCK_SIZE = 0 /\ w = p * n
  BY ShareFacts, ShareNumbers, TaskletsAssumption DEF Tasklets, ShareSize
<1>2. Active(t) /\ c \in 0..(n - 1) /\ c \in Nat /\ c < n /\ at[t] \in Nat
  BY <1>1 DEF PositionInv, TypeOK
<1>3. d \in 0..(p - 1) /\ d % BLOCK_SIZE = 0
  BY DEF PositionInv
<1>4. st = t * w + c * p /\ st \in Nat
  BY <1>1, <1>2, CallStartInShare DEF ShareSize
<1>5. Share(t) = (t * w)..(t * w + w - 1)
  BY DEF Share
<1>6. Four(at[t]) = at[t]..(at[t] + BLOCK_SIZE - 1)
  BY DEF Four
<1>10. Share(t) \subseteq 0..(BUFFER_SIZE - 1)
  BY <1>2, SharesInBlocks, ShareFacts
<1>11. at[t] = st + d
  BY <1>2, <1>3, <1>4
<1> HIDE DEF p, n, c, st, w, d
<1>7. d + BLOCK_SIZE <= p
  <2> DEFINE a == d \div BLOCK_SIZE
             b == p \div BLOCK_SIZE
  <2>1. a \in Nat /\ b \in Nat /\ d = a * BLOCK_SIZE /\ p = b * BLOCK_SIZE
    BY <1>1, <1>3 DEF BLOCK_SIZE
  <2> HIDE DEF a, b
  <2>2. a * BLOCK_SIZE < b * BLOCK_SIZE
    BY <1>1, <1>3, <2>1
  <2>3. a * BLOCK_SIZE + BLOCK_SIZE <= b * BLOCK_SIZE
    BY <2>1, <2>2 DEF BLOCK_SIZE
  <2>4. QED BY <2>1, <2>3
<1>8. c * p + p <= w
  <2>1. c * p + p <= n * p
    BY <1>1, <1>2, SharesApart
  <2>2. n * p = p * n
    BY <1>1
  <2>3. QED BY <1>1, <2>1, <2>2
<1>9. t * w \in Nat /\ c * p \in Nat
  BY <1>1, <1>2
<1>12. at[t] \in Nat /\ at[t] >= t * w /\ at[t] + BLOCK_SIZE <= st + p /\ st + p <= t * w + w
  BY <1>1, <1>2, <1>3, <1>4, <1>7, <1>8, <1>9, <1>11 DEF BLOCK_SIZE
<1>13. Four(at[t]) \subseteq Share(t)
  <2> DEFINE x == t * w
             y == at[t]
  <2>1. x \in Nat /\ y \in Nat /\ w \in Nat /\ x <= y /\ y + 4 <= x + w
    BY <1>1, <1>4, <1>9, <1>12 DEF BLOCK_SIZE
  <2>2. Share(t) = x..(x + w - 1) /\ Four(at[t]) = y..(y + 3)
    BY <1>5, <1>6, <2>1 DEF BLOCK_SIZE
  <2> HIDE DEF x, y
  <2>3. QED BY <2>1, <2>2
<1>14. (at[t] + BLOCK_SIZE - st) % BLOCK_SIZE = 0
  BY <1>3, <1>4, <1>11 DEF BLOCK_SIZE
<1>15. QED
  BY <1>1, <1>2, <1>4, <1>10, <1>12, <1>13, <1>14 DEF p, n, c, st, w

--------------------------------------------------------------------------------
(* The invariant. *)

LEMMA InitInv == ASSUME Init PROVE KernelInv
<1>1. TypeOK
  BY BuffersAssumption, TaskletsAssumption DEF Init, TypeOK
<1>2. \A t \in Tasklets : PositionInv(t) /\ CacheInv(t)
  BY DEF Init, PositionInv, CacheInv, Working
<1>3. \A t \in Tasklets : Active(t) => ShareInv(t)
  BY DEF Init, ShareInv, Working, Untouched
<1>4. RestInv
  BY DEF Init, RestInv, Untouched
<1>5. QED BY <1>1, <1>2, <1>3, <1>4 DEF KernelInv

\* What a tasklet keeps when neither its share nor its own variables change.
LEMMA Frame ==
  ASSUME NEW t \in Tasklets, PositionInv(t), CacheInv(t), Active(t) => ShareInv(t),
         launch' = launch, pc'[t] = pc[t], i'[t] = i[t], at'[t] = at[t], cache'[t] = cache[t],
         Active(t) => \A k \in Share(t) : xp'[k] = xp[k]
  PROVE  PositionInv(t)' /\ CacheInv(t)' /\ (Active(t) => ShareInv(t))'
<1>1. PositionInv(t)' /\ CacheInv(t)'
  BY DEF PositionInv, CacheInv, Working, Active
<1>2. (Active(t) => ShareInv(t))'
  BY DEF ShareInv, Share, ShareSize, Working, Active, Untouched, Made, ResultAt
<1>3. QED BY <1>1, <1>2

\* A tasklet beyond those that the launch calls for leaves KernelInv true.
LEMMA LeaveInv == ASSUME WholeLaunches, KernelInv, NEW t \in Tasklets, Leave(t) PROVE KernelInv'
<1> USE DEF KernelInv
<1>1. TypeOK'
  BY DEF TypeOK, Leave
<1>2. ASSUME NEW u \in Tasklets
      PROVE  PositionInv(u)' /\ CacheInv(u)' /\ (Active(u) => ShareInv(u))'
  <2>1. CASE u = t
    <3>1. t \in Nat /\ NrTasklets(launch) \in Nat
      BY ShareFacts, TaskletsAssumption DEF Tasklets
    <3>2. ~Active(t) /\ pc'[t] = "done" /\ launch' = launch
      BY <3>1 DEF Leave, Active, TypeOK
    <3>3. QED BY <2>1, <3>2 DEF PositionInv, CacheInv, Working, Active
  <2>2. CASE u # t
    BY <2>2, Frame DEF Leave, TypeOK
  <2>3. QED BY <2>1, <2>2
<1>3. RestInv'
  BY DEF Leave, RestInv, Untouched
<1>4. QED BY <1>1, <1>2, <1>3

\* So does a tasklet that takes up its share.
LEMMA EnterInv == ASSUME WholeLaunches, KernelInv, NEW t \in Tasklets, Enter(t) PROVE KernelInv'
<1> USE DEF KernelInv
<1>1. launch \in Launches /\ launch' = launch /\ Active(t) /\ pc[t] = "start" /\ t \in Nat
  BY TaskletsAssumption DEF Enter, Active, TypeOK, Tasklets
<1>2. /\ PerTaskletSize(launch) \in Nat \ {0} /\ Calls(launch) \in Nat \ {0}
      /\ ShareSize \in Nat \ {0}
  BY ShareFacts
<1>3. CallStart(t, 0, launch) = t * ShareSize /\ CallStart(t, 0, launch) \in Nat
  BY <1>1, <1>2, CallStartInShare DEF ShareSize
<1>4. i[t] = 0
  BY <1>1 DEF PositionInv
<1>5. pc'[t] = "read" /\ at'[t] = CallStart(t, 0, launch) /\ i'[t] = 0 /\ xp' = xp
  BY <1>4 DEF Enter, TypeOK
<1>6. TypeOK'
  BY <1>3, <1>5 DEF TypeOK, Enter
<1>7. ASSUME NEW u \in Tasklets
      PROVE  PositionInv(u)' /\ CacheInv(u)' /\ (Active(u) => ShareInv(u))'
  <2>1. CASE u = t
    <3>1. at'[t] - CallStart(t, 0, launch) = 0
      BY <1>3, <1>5
    <3>2. PositionInv(t)' /\ CacheInv(t)'
      BY <1>1, <1>2, <1>5, <3>1 DEF PositionInv, CacheInv, Active, Working, BLOCK_SIZE
    <3>3. ASSUME NEW k \in Share(t) PROVE Untouched(k)' /\ ~(k < at'[t])
      <4>1. ShareInv(t)
        BY <1>1
      <4>2. Untouched(k)
        BY <1>1, <4>1 DEF ShareInv
      <4>3. k >= t * ShareSize /\ t * ShareSize \in Nat /\ k \in Int
        BY <1>1, <1>2, <1>3 DEF Share
      <4>4. QED BY <1>3, <1>5, <4>2, <4>3 DEF Untouched
    <3>4. Share(t)' = Share(t)
      BY <1>1 DEF Share, ShareSize
    <3>5. ShareInv(t)'
      BY <1>5, <3>3, <3>4 DEF ShareInv, Working
    <3>6. QED BY <2>1, <3>2, <3>5
  <2>2. CASE u # t
    BY <2>2, Frame DEF Enter, TypeOK
  <2>3. QED BY <2>1, <2>2
<1>8. RestInv'
  BY DEF Enter, RestInv, Untouched
<1>9. QED BY <1>6, <1>7, <1>8

\* So does the transfer of a block of butterflies from MRAM, since it is inside the tasklet's own
\* share.
LEMMA ReadInv == ASSUME WholeLaunches, KernelInv, NEW t \in Tasklets, Read(t) PROVE KernelInv'
<1>1. /\ Working(t) /\ pc[t] = "read" /\ launch' = launch /\ xp' = xp /\ i' = i /\ at' = at
      /\ TypeOK /\ PositionInv(t)
  BY DEF Read, Working, KernelInv
<1> DEFINE four == Four(at[t])
<1>2. Active(t) /\ four \subseteq Share(t) /\ four \subseteq 0..(BUFFER_SIZE - 1) /\ at[t] \in Nat
  BY <1>1, WorkingFour
<1>3. \A k \in four : xp[k] \in Value \X Value /\ Wtab[k] \in Value
  BY <1>2, BuffersAssumption DEF KernelInv, TypeOK
<1>4. \A k \in four : Untouched(k)
  <2>1. \A k \in four : ~(k < at[t])
    BY <1>2 DEF Four, BLOCK_SIZE
  <2>2. QED BY <1>1, <1>2, <2>1 DEF KernelInv, ShareInv
<1>5. /\ pc' = [pc EXCEPT ![t] = "write"]
      /\ cache' = [cache EXCEPT ![t] = [k \in four |-> <<xp[k], Wtab[k]>>]]
  BY DEF Read
<1>6. pc'[t] = "write" /\ cache'[t] = [k \in four |-> <<Xp[k], Wtab[k]>>]
  BY <1>4, <1>5 DEF KernelInv, TypeOK, Untouched
<1>7. ASSUME NEW u \in Tasklets, u # t PROVE pc'[u] = pc[u] /\ cache'[u] = cache[u]
  BY <1>5, <1>7 DEF KernelInv, TypeOK
<1>8. TypeOK'
  <2>1. cache'[t] \in [four -> (Value \X Value) \X Value]
    BY <1>3, <1>5 DEF KernelInv, TypeOK
  <2>2. \A u \in Tasklets :
          pc'[u] = "write" => cache'[u] \in [Four(at'[u]) -> (Value \X Value) \X Value]
    BY <1>1, <1>7, <2>1 DEF KernelInv, TypeOK
  <2>3. DOMAIN cache' = Tasklets /\ pc' \in [Tasklets -> {"start", "read", "write", "done"}]
    BY <1>5 DEF KernelInv, TypeOK
  <2>4. QED BY <1>1, <2>2, <2>3 DEF TypeOK
<1>9. ASSUME NEW u \in Tasklets
      PROVE  PositionInv(u)' /\ CacheInv(u)' /\ (Active(u) => ShareInv(u))'
  <2>1. CASE u = t
    <3>1. PositionInv(t)'
      BY <1>1, <1>6 DEF PositionInv, Working, Active
    <3>2. CacheInv(t)'
      BY <1>1, <1>6 DEF CacheInv
    <3>3. ShareInv(t)'
      BY <1>1, <1>2, <1>6
      DEF KernelInv, ShareInv, Share, ShareSize, Working, Untouched, Made, ResultAt
    <3>4. QED BY <2>1, <3>1, <3>2, <3>3
  <2>2. CASE u # t
    BY <1>1, <1>7, <2>2, Frame DEF KernelInv
  <2>3. QED BY <2>1, <2>2
<1>10. RestInv'
  BY <1>1 DEF KernelInv, RestInv, Untouched
<1>11. QED BY <1>8, <1>9, <1>10 DEF KernelInv

\* The computation on the cache gives the butterflies of the layer.
LEMMA CacheResult ==
  ASSUME WholeLaunches, KernelInv, NEW t \in Tasklets, pc[t] = "write", NEW k \in Four(at[t])
  PROVE  /\ cache[t][k] = <<Xp[k], Wtab[k]>>
         /\ Computed(t, k) = ResultAt(k)
         /\ ResultAt(k) \in Value \X Value
<1>1. TypeOK /\ PositionInv(t) /\ CacheInv(t) /\ Working(t)
  BY DEF KernelInv, Working
<1>2. cache[t][k] = <<Xp[k], Wtab[k]>>
  BY <1>1 DEF CacheInv
<1>3. /\ launch \in Launches /\ t \in Nat /\ Active(t) /\ i[t] \in Nat /\ i[t] < Calls(launch)
      /\ Calls(launch) \in Nat /\ k \in 0..(BUFFER_SIZE - 1) /\ at[t] \in Nat
      /\ CallStart(t, i[t], launch) \in Nat /\ PerTaskletSize(launch) \in Nat
      /\ at[t] + BLOCK_SIZE <= CallStart(t, i[t], launch) + PerTaskletSize(launch)
  BY <1>1, WorkingFour, ShareFacts
<1> DEFINE st == CallStart(t, i[t], launch)
           d == k - st
<1>4. d \in 0..(PerTaskletSize(launch) - 1) /\ k = st + d /\ (d = 0 <=> k = st)
  <2>1. at[t] - st \in 0..(PerTaskletSize(launch) - 1)
    BY <1>1 DEF PositionInv
  <2>2. k \in at[t]..(at[t] + BLOCK_SIZE - 1)
    BY DEF Four
  <2>3. QED BY <1>3, <2>1, <2>2 DEF BLOCK_SIZE
<1> HIDE DEF d
<1>5. (d = 0 /\ DoButterfly0(t, launch))
        <=> ((st + d) % launch.size = 0 /\ (launch.blocks > 1 \/ launch.butterfly0 = 1))
  <2>1. t < NrTasklets(launch) /\ i[t] \in 0..(Calls(launch) - 1)
    BY <1>3 DEF Active
  <2>2. QED BY <1>3, <1>4, <2>1, FirstButterfly
<1>6. Computed(t, k) = ResultAt(k)
  BY <1>2, <1>4, <1>5 DEF Computed, ResultAt
<1>7. Xp[k] \in Value \X Value /\ Wtab[k] \in Value
  BY <1>3, BuffersAssumption
<1>8. Xp[k][1] \in Value /\ Xp[k][2] \in Value
  BY <1>7
<1>9. ResultAt(k) \in Value \X Value
  BY <1>7, <1>8, ButterflyAssumption DEF ResultAt
<1>10. QED BY <1>2, <1>6, <1>9

\* After a write a tasklet is four butterflies further or at the end of its share.
LEMMA Advance ==
  ASSUME WholeLaunches, KernelInv, NEW t \in Tasklets, Write(t)
  PROVE  /\ i' \in [Tasklets -> 0..(UINT8 - 1)] /\ at' \in [Tasklets -> Nat]
         /\ \/ pc'[t] = "read" /\ at'[t] = at[t] + BLOCK_SIZE /\ PositionInv(t)'
            \/ pc'[t] = "done" /\ at[t] + BLOCK_SIZE = t * ShareSize + ShareSize
<1>1. /\ TypeOK /\ PositionInv(t) /\ Working(t) /\ pc[t] = "write" /\ launch' = launch
      /\ launch \in Launches
  BY DEF Write, Working, KernelInv, TypeOK
<1> DEFINE p == PerTaskletSize(launch)
           n == Calls(launch)
           c == i[t]
           st == CallStart(t, c, launch)
<1>2. /\ Active(t) /\ t \in Nat /\ at[t] \in Nat /\ c \in Nat /\ c < n /\ st \in Nat
      /\ at[t] + BLOCK_SIZE <= st + p /\ (at[t] + BLOCK_SIZE - st) % BLOCK_SIZE = 0
      /\ p \in Nat \ {0} /\ n \in Nat \ {0} /\ n < UINT8 /\ UINT8 \in Nat /\ ShareSize \in Nat
  BY <1>1, WorkingFour, ShareFacts, ShareNumbers, TaskletsAssumption
<1>3. st = t * ShareSize + c * p
  <2>1. c \in 0..(n - 1)
    BY <1>2
  <2>2. QED BY <1>1, <1>2, <2>1, CallStartInShare DEF ShareSize
<1>4. at[t] - st \in 0..(p - 1)
  BY <1>1 DEF PositionInv
<1>5. (c + 1) % UINT8 = c + 1
  BY <1>2
<1>6. NextCall(t) <=> c + 1 < n
  <2>1. SharedBlocks(launch) => n = 1
    BY DEF Calls
  <2>2. QED BY <1>2, <1>5, <2>1 DEF NextCall
<1>7. (c + 1) * p = c * p + p /\ c * p \in Nat /\ t * ShareSize \in Nat
  <2>1. c \in Nat /\ p \in Nat /\ t \in Nat /\ ShareSize \in Nat
    BY <1>2
  <2> HIDE DEF c, p
  <2>2. QED BY <2>1
<1>8. i' \in [Tasklets -> 0..(UINT8 - 1)]
  BY <1>1, <1>2, <1>5, SMTT(20) DEF Write, TypeOK
<1>9. CASE NextFour(t)
  <2>1. at' = [at EXCEPT ![t] = at[t] + BLOCK_SIZE] /\ pc' = [pc EXCEPT ![t] = "read"] /\ i' = i
    BY <1>9 DEF Write
  <2>2. at'[t] = at[t] + BLOCK_SIZE /\ pc'[t] = "read" /\ i'[t] = c /\ at' \in [Tasklets -> Nat]
    BY <1>1, <1>2, <2>1 DEF TypeOK, BLOCK_SIZE
  <2>3. at'[t] - st \in 0..(p - 1)
    BY <1>2, <1>4, <1>9, <2>2 DEF NextFour, BLOCK_SIZE
  <2>4. PositionInv(t)'
    <3>1. (at'[t] - st) % BLOCK_SIZE = 0
      <4>1. at'[t] - st = at[t] + BLOCK_SIZE - st
        BY <1>2, <2>2 DEF BLOCK_SIZE
      <4> HIDE DEF st
      <4>2. QED BY <1>2, <4>1
    <3>2. CallStart(t, i'[t], launch') = st /\ PerTaskletSize(launch') = p /\ Calls(launch') = n
      BY <1>1, <2>2
    <3>3. Active(t)'
      BY <1>1, <1>2 DEF Active
    <3> HIDE DEF p, n, c, st
    <3>4. QED BY <1>2, <2>2, <2>3, <3>1, <3>2, <3>3 DEF PositionInv
  <2>5. QED BY <1>8, <2>2, <2>4
<1>10. CASE ~NextFour(t)
  <2>1. at[t] + BLOCK_SIZE = st + p
    BY <1>2, <1>10 DEF NextFour, BLOCK_SIZE
  <2>2. CASE NextCall(t)
    <3>1. /\ i' = [i EXCEPT ![t] = c + 1]
          /\ at' = [at EXCEPT ![t] = CallStart(t, c + 1, launch)]
          /\ pc' = [pc EXCEPT ![t] = "read"]
      BY <1>5, <1>10, <2>2 DEF Write
    <3>2. c + 1 \in 0..(n - 1) /\ c + 1 \in Nat /\ c + 1 < n
      BY <1>2, <1>6, <2>2
    <3>3. /\ CallStart(t, c + 1, launch) = t * ShareSize + (c + 1) * p
          /\ CallStart(t, c + 1, launch) \in Nat
      BY <1>1, <1>2, <3>2, CallStartInShare DEF ShareSize
    <3>4. CallStart(t, c + 1, launch) = at[t] + BLOCK_SIZE
      <4> HIDE DEF p, c, st, n
      <4>1. t * ShareSize + (c * p + p) = (t * ShareSize + c * p) + p
        BY <1>7, <1>2
      <4>2. CallStart(t, c + 1, launch) = st + p
        BY <1>3, <1>7, <3>3, <4>1
      <4>3. QED BY <2>1, <4>2
    <3>5. /\ at'[t] = at[t] + BLOCK_SIZE /\ i'[t] = c + 1 /\ pc'[t] = "read"
          /\ at' \in [Tasklets -> Nat]
      BY <1>1, <3>1, <3>3, <3>4 DEF TypeOK
    <3>6. at'[t] - CallStart(t, c + 1, launch) = 0
      BY <3>3, <3>4, <3>5
    <3>7. PositionInv(t)'
      BY <1>1, <1>2, <3>2, <3>5, <3>6 DEF PositionInv, Working, Active, BLOCK_SIZE
    <3>8. QED BY <1>8, <3>5, <3>7
  <2>3. CASE ~NextCall(t)
    <3>1. pc' = [pc EXCEPT ![t] = "done"] /\ at' = at
      BY <1>10, <2>3 DEF Write
    <3>2. pc'[t] = "done" /\ at' \in [Tasklets -> Nat]
      BY <1>1, <3>1 DEF TypeOK
    <3>3. c + 1 = n
      BY <1>2, <1>6, <2>3
    <3>4. c * p + p = ShareSize
      <4>1. ShareSize = p * n
        BY DEF ShareSize
      <4> HIDE DEF p, n, c
      <4>2. (c + 1) * p = p * n
        BY <1>2, <3>3
      <4>3. QED BY <1>7, <4>1, <4>2
    <3>5. at[t] + BLOCK_SIZE = t * ShareSize + ShareSize
      <4> HIDE DEF p, c, st, n
      <4>1. (t * ShareSize + c * p) + p = t * ShareSize + (c * p + p)
        BY <1>7, <1>2
      <4>2. QED BY <1>3, <2>1, <3>4, <4>1
    <3>6. QED BY <1>8, <3>2, <3>5
  <2>4. QED BY <2>2, <2>3
<1>11. QED BY <1>9, <1>10

\* So does the transfer of their results back: no other tasklet owns the elements it writes.
LEMMA WriteInv == ASSUME WholeLaunches, KernelInv, NEW t \in Tasklets, Write(t) PROVE KernelInv'
<1> DEFINE four == Four(at[t])
<1>1. /\ Working(t) /\ pc[t] = "write" /\ launch' = launch /\ launch \in Launches
      /\ TypeOK /\ PositionInv(t)
  BY DEF Write, Working, KernelInv, TypeOK
<1>2. /\ Active(t) /\ ShareInv(t) /\ t \in Nat /\ at[t] \in Nat
      /\ four \subseteq Share(t) /\ four \subseteq 0..(BUFFER_SIZE - 1)
      /\ ShareSize \in Nat \ {0} /\ t * ShareSize \in Nat
  <2>1. Active(t) /\ four \subseteq Share(t) /\ four \subseteq 0..(BUFFER_SIZE - 1) /\ t \in Nat
        /\ at[t] \in Nat /\ ShareSize \in Nat \ {0}
    BY <1>1, WorkingFour, ShareFacts
  <2>2. QED BY <2>1 DEF KernelInv
<1>3. /\ xp' = [k \in 0..(BUFFER_SIZE - 1) |-> IF k \in four THEN Computed(t, k) ELSE xp[k]]
      /\ cache' = [cache EXCEPT ![t] = <<>>]
  BY <1>1 DEF Write, TypeOK
<1>4. /\ i' \in [Tasklets -> 0..(UINT8 - 1)] /\ at' \in [Tasklets -> Nat]
      /\ \/ pc'[t] = "read" /\ at'[t] = at[t] + BLOCK_SIZE /\ PositionInv(t)'
         \/ pc'[t] = "done" /\ at[t] + BLOCK_SIZE = t * ShareSize + ShareSize
  BY Advance
<1>5. ASSUME NEW u \in Tasklets, u # t
      PROVE  pc'[u] = pc[u] /\ cache'[u] = cache[u] /\ i'[u] = i[u] /\ at'[u] = at[u]
  BY <1>1, <1>5 DEF Write, TypeOK
<1>6. ASSUME NEW k \in four PROVE Made(k)' /\ xp'[k] \in Value \X Value
  <2>1. xp'[k] = ResultAt(k) /\ ResultAt(k) \in Value \X Value
    BY <1>1, <1>2, <1>3, CacheResult
  <2>2. QED BY <1>1, <2>1 DEF Made, ResultAt
<1>7. \A k \in 0..(BUFFER_SIZE - 1) : k \notin four => xp'[k] = xp[k]
  BY <1>3
<1>8. TypeOK'
  <2>1. xp' \in [0..(BUFFER_SIZE - 1) -> Value \X Value]
    BY <1>1, <1>3, <1>6 DEF TypeOK
  <2>2. pc' \in [Tasklets -> {"start", "read", "write", "done"}]
    BY <1>1 DEF Write, TypeOK
  <2>3. DOMAIN cache' = Tasklets
    BY <1>1, <1>3 DEF TypeOK
  <2>4. \A u \in Tasklets :
          pc'[u] = "write" => cache'[u] \in [Four(at'[u]) -> (Value \X Value) \X Value]
    BY <1>1, <1>4, <1>5 DEF TypeOK
  <2>5. QED BY <1>1, <1>4, <2>1, <2>2, <2>3, <2>4 DEF TypeOK
<1>9. ASSUME NEW u \in Tasklets
      PROVE  PositionInv(u)' /\ CacheInv(u)' /\ (Active(u) => ShareInv(u))'
  <2>1. CASE u = t
    <3>1. Share(t)' = Share(t) /\ four = at[t]..(at[t] + BLOCK_SIZE - 1)
          /\ Share(t) = (t * ShareSize)..(t * ShareSize + ShareSize - 1)
      BY <1>1 DEF Share, ShareSize, Four
    <3>2. ASSUME NEW k \in Share(t), k < at[t] + BLOCK_SIZE PROVE Made(k)'
      <4>1. CASE k \in four
        BY <1>6, <4>1
      <4>2. CASE k \notin four
        <5>1. k < at[t]
          BY <1>2, <3>1, <3>2, <4>2 DEF BLOCK_SIZE
        <5>2. Made(k)
          BY <1>1, <1>2, <5>1 DEF ShareInv
        <5>3. k \in 0..(BUFFER_SIZE - 1)
          BY <1>1, <1>2, SharesInBlocks, ShareFacts
        <5>4. QED BY <1>1, <1>7, <4>2, <5>2, <5>3 DEF Made, ResultAt
      <4>3. QED BY <4>1, <4>2
    <3>3. ASSUME NEW k \in Share(t), ~(k < at[t] + BLOCK_SIZE) PROVE Untouched(k)'
      <4>1. k \notin four /\ ~(k < at[t])
        BY <1>2, <3>1, <3>3 DEF BLOCK_SIZE
      <4>2. Untouched(k)
        BY <1>1, <1>2, <4>1 DEF ShareInv
      <4>3. k \in 0..(BUFFER_SIZE - 1)
        BY <1>1, <1>2, SharesInBlocks, ShareFacts
      <4>4. QED BY <1>7, <4>1, <4>2, <4>3 DEF Untouched
    <3>4. CASE pc'[t] = "read" /\ at'[t] = at[t] + BLOCK_SIZE /\ PositionInv(t)'
      <4>1. ShareInv(t)'
        BY <3>1, <3>2, <3>3, <3>4 DEF ShareInv, Working
      <4>2. CacheInv(t)'
        BY <3>4 DEF CacheInv
      <4>3. QED BY <2>1, <3>4, <4>1, <4>2
    <3>5. CASE pc'[t] = "done" /\ at[t] + BLOCK_SIZE = t * ShareSize + ShareSize
      <4>1. \A k \in Share(t) : k < at[t] + BLOCK_SIZE
        BY <1>2, <3>1, <3>5
      <4>2. ShareInv(t)'
        BY <3>1, <3>2, <3>5, <4>1 DEF ShareInv, Working
      <4>3. PositionInv(t)' /\ CacheInv(t)'
        BY <3>5 DEF PositionInv, CacheInv, Working
      <4>4. QED BY <2>1, <4>2, <4>3
    <3>6. QED BY <1>4, <3>4, <3>5
  <2>2. CASE u # t
    <3>1. Active(u) => \A k \in Share(u) : xp'[k] = xp[k]
      <4>1. SUFFICES ASSUME Active(u), NEW k \in Share(u) PROVE xp'[k] = xp[k]
        OBVIOUS
      <4>2. k \notin four
        BY <1>1, <1>2, <2>2, SharesDisjoint
      <4>3. k \in 0..(BUFFER_SIZE - 1)
        BY <1>1, <4>1, SharesInBlocks, ShareFacts
      <4>4. QED BY <1>7, <4>2, <4>3
    <3>2. QED BY <1>1, <1>5, <2>2, <3>1, Frame DEF KernelInv
  <2>3. QED BY <2>1, <2>2
<1>10. RestInv'
  <2>1. ASSUME NEW k \in Butterflies(launch)..(BUFFER_SIZE - 1)
        PROVE  k \in 0..(BUFFER_SIZE - 1) /\ k \notin four
    BY <1>1, <1>2, SharesInBlocks, ShareFacts
  <2>2. QED BY <1>1, <1>7, <2>1 DEF KernelInv, RestInv, Untouched
<1>11. QED BY <1>8, <1>9, <1>10 DEF KernelInv

\* Every step of the program keeps KernelInv: one lemma per action, and a stutter.
LEMMA NextInv == ASSUME WholeLaunches, KernelInv, [Next]_vars PROVE KernelInv'
<1>1. CASE \E t \in Tasklets : Tasklet(t)
  BY <1>1, LeaveInv, EnterInv, ReadInv, WriteInv DEF Tasklet
<1>2. CASE UNCHANGED vars
  BY <1>2 DEF vars, KernelInv, TypeOK, PositionInv, CacheInv, ShareInv, RestInv, Working, Active,
              Untouched, Made, ResultAt, Share, ShareSize
<1>3. QED BY <1>1, <1>2 DEF Next, Finished

\* The cursors, the caches and the results of every launch, however the tasklets interleave.
THEOREM Invariance == ASSUME WholeLaunches PROVE Spec => []KernelInv
<1>1. Init => KernelInv
  BY InitInv
<1>2. KernelInv /\ [Next]_vars => KernelInv'
  BY NextInv
<1>3. QED BY <1>1, <1>2, PTL DEF Spec

--------------------------------------------------------------------------------
(* What the invariant is for. *)

\* Whatever the order in which the tasklets are scheduled, no two of them are
\* at work on the same butterfly (dpu_multi_fwd_butterfly_loop.c:72-130).
THEOREM RaceFree == ASSUME WholeLaunches PROVE Spec => []NoRace
<1>1. KernelInv => NoRace
  <2>1. SUFFICES ASSUME KernelInv, NEW t \in Tasklets, NEW u \in Tasklets,
                        t # u, Working(t), Working(u)
                 PROVE  Four(at[t]) \cap Four(at[u]) = {}
    BY DEF NoRace
  <2>2. TypeOK /\ PositionInv(t) /\ PositionInv(u)
    BY <2>1 DEF KernelInv
  <2>3. Share(t) \cap Share(u) = {}
    BY <2>1, <2>2, SharesDisjoint
  <2>4. Four(at[t]) \subseteq Share(t) /\ Four(at[u]) \subseteq Share(u)
    BY <2>1, <2>2, WorkingFour
  <2>5. QED BY <2>3, <2>4
<1>2. QED BY <1>1, Invariance, PTL

\* When the launch returns, the layer has been made: every butterfly is computed
\* once, with the factor 1 where a block begins, and nothing behind the blocks
\* has been written (dpu_multi_fwd_butterfly_loop.c:33-130).
THEOREM Correct == ASSUME WholeLaunches PROVE Spec => []ResultCorrect
<1>1. KernelInv => ResultCorrect
  <2>1. SUFFICES ASSUME KernelInv, \A t \in Tasklets : pc[t] = "done"
                 PROVE  xp = ResultXp
    BY DEF ResultCorrect
  <2>2. /\ TypeOK /\ Butterflies(launch) \in Nat /\ BUFFER_SIZE \in Nat
        /\ xp \in [0..(BUFFER_SIZE - 1) -> Value \X Value]
    BY <2>1, ShareFacts DEF KernelInv, TypeOK
  <2>3. ASSUME NEW k \in 0..(BUFFER_SIZE - 1), k < Butterflies(launch)
        PROVE  xp[k] = ResultAt(k)
    <3>1. k \in 0..(Butterflies(launch) - 1)
      BY <2>2, <2>3
    <3>2. PICK t \in Tasklets : Active(t) /\ k \in Share(t)
      BY <2>2, <3>1, SharesCoverBlocks
    <3>3. ShareInv(t) /\ pc[t] = "done"
      BY <2>1, <3>2 DEF KernelInv
    <3>4. QED BY <3>2, <3>3 DEF ShareInv, Made
  <2>4. ASSUME NEW k \in 0..(BUFFER_SIZE - 1), ~(k < Butterflies(launch))
        PROVE  xp[k] = Xp[k]
    <3>1. k \in Butterflies(launch)..(BUFFER_SIZE - 1)
      BY <2>2, <2>4
    <3>2. QED BY <2>1, <3>1 DEF KernelInv, RestInv, Untouched
  <2>5. QED BY <2>2, <2>3, <2>4 DEF ResultXp
<1>2. QED BY <1>1, Invariance, PTL

\* Every step of the kernel is a step of the abstract element-wise method or
\* changes nothing that method has (dpu_multi_fwd_butterfly_loop.c:33-130).
THEOREM Implements == ASSUME WholeLaunches PROVE Spec => ImplementsElementwise
<1>1. Init => Op!Init
  BY BuffersAssumption DEF Init, Op!Init, ResultXp
<1>2. KernelInv /\ [Next]_vars => [Op!Replace]_(Op!vars)
  <2>1. SUFFICES ASSUME KernelInv, [Next]_vars PROVE [Op!Replace]_(Op!vars)
    OBVIOUS
  <2>2. ASSUME NEW t \in Tasklets, Write(t)
        PROVE  Op!Replace
    <3>1. /\ Working(t) /\ pc[t] = "write" /\ launch' = launch /\ TypeOK /\ PositionInv(t)
          /\ xp \in [0..(BUFFER_SIZE - 1) -> Value \X Value]
      BY <2>1, <2>2 DEF Write, Working, KernelInv, TypeOK
    <3>2. /\ Active(t) /\ Four(at[t]) \subseteq Share(t) /\ at[t] \in Nat
          /\ Butterflies(launch) \in Nat
          /\ Share(t) \subseteq 0..(Butterflies(launch) - 1)
      BY <3>1, WorkingFour, SharesInBlocks, ShareFacts
    <3>3. xp' = [k \in 0..(BUFFER_SIZE - 1) |-> IF k \in Four(at[t]) THEN Computed(t, k) ELSE xp[k]]
      BY <2>2, <3>1 DEF Write
    <3>4. ASSUME NEW k \in 0..(BUFFER_SIZE - 1)
          PROVE  xp'[k] = xp[k] \/ (xp[k] = Xp[k] /\ xp'[k] = ResultXp[k])
      <4>1. CASE k \in Four(at[t])
        <5>1. ~(k < at[t])
          BY <3>2, <4>1 DEF Four, BLOCK_SIZE
        <5>2. ShareInv(t) /\ k \in Share(t)
          BY <2>1, <3>2, <4>1 DEF KernelInv
        <5>3. xp[k] = Xp[k]
          BY <3>1, <5>1, <5>2 DEF ShareInv, Untouched
        <5>4. xp'[k] = ResultAt(k)
          BY <2>1, <3>1, <3>3, <4>1, CacheResult
        <5>5. k < Butterflies(launch)
          BY <3>2, <5>2
        <5>6. QED BY <5>3, <5>4, <5>5 DEF ResultXp
      <4>2. CASE k \notin Four(at[t])
        BY <3>3, <4>2
      <4>3. QED BY <4>1, <4>2
    <3>5. DOMAIN xp' = DOMAIN xp /\ DOMAIN xp = 0..(BUFFER_SIZE - 1)
      BY <3>1, <3>3
    <3>6. UNCHANGED ResultXp
      BY <3>1 DEF ResultXp, ResultAt
    <3>7. QED BY <3>4, <3>5, <3>6 DEF Op!Replace
  <2>3. CASE UNCHANGED <<launch, xp>>
    BY <2>3 DEF Op!vars, ResultXp, ResultAt
  <2>4. QED
    BY <2>1, <2>2, <2>3 DEF Next, Tasklet, Leave, Enter, Read, Finished, vars
<1>3. QED BY <1>1, <1>2, Invariance, PTL DEF Spec, ImplementsElementwise, Op!Safety

--------------------------------------------------------------------------------
(***************************************************************************)
(* The loop that halves nr_tasklets.                                       *)
(***************************************************************************)
SmallPowers == {1, 2, 4, 8, 16, 32, 64, 128, 256}

\* The powers of two up to the size of a buffer, each twice the one before.
LEMMA SmallPower ==
  /\ \A h \in 0..8 : 2^h \in SmallPowers
  /\ \A h \in 1..8 : h - 1 \in 0..8 /\ 2^h = 2 * 2^(h - 1)
  /\ 2^0 = 1
<1>1. 2^0 = 1
  OBVIOUS
<1>2. \A h \in 1..8 : h - 1 \in 0..8 /\ 2^h = 2 * 2^(h - 1)
  <2>1. SUFFICES ASSUME NEW h \in 1..8 PROVE h - 1 \in 0..8 /\ 2^h = 2 * 2^(h - 1)
    OBVIOUS
  <2>2. h - 1 \in Nat /\ (h - 1) + 1 = h
    OBVIOUS
  <2>3. 2^((h - 1) + 1) = 2 * 2^(h - 1)
    BY <2>2, PowerDoubles
  <2>4. QED BY <2>2, <2>3
<1> DEFINE pow(h) == 2^h
<1>3. pow(0) = 1 /\ \A h \in 1..8 : pow(h) = 2 * pow(h - 1)
  BY <1>1, <1>2
<1> HIDE DEF pow
<1>4. pow(1) = 2 /\ pow(2) = 4 /\ pow(3) = 8 /\ pow(4) = 16
  BY <1>3
<1>5. pow(5) = 32 /\ pow(6) = 64 /\ pow(7) = 128 /\ pow(8) = 256
  BY <1>3, <1>4
<1>6. \A h \in 0..8 : pow(h) \in SmallPowers
  <2>1. SUFFICES ASSUME NEW h \in 0..8 PROVE pow(h) \in SmallPowers
    OBVIOUS
  <2>2. h \in {0, 1, 2, 3, 4, 5, 6, 7, 8}
    OBVIOUS
  <2>3. QED BY <1>3, <1>4, <1>5, <2>2 DEF SmallPowers
<1>7. QED BY <1>1, <1>2, <1>6 DEF pow

\* A number of tasklets halved once more.
LEMMA Half ==
  ASSUME NEW x \in SmallPowers, NEW y \in SmallPowers, NEW z \in SmallPowers,
         y = 2 * z, y <= x
  PROVE  x \div z = 2 * (x \div y)
BY DEF SmallPowers

\* A power of two divided by another one.
LEMMA Quotient ==
  ASSUME NEW x \in SmallPowers, NEW y \in SmallPowers
  PROVE  /\ x \div y \in Nat /\ x \div 1 = x /\ x \div x = 1
         /\ x < y => x \div y = 0
BY DEF SmallPowers

(***************************************************************************)
(* Either the number of tasklets is not halved and divides the blocks, or  *)
(* it is halved until every tasklet has one block.                         *)
(***************************************************************************)
LEMMA BlockDivision ==
  ASSUME DPU_BLOCKS \in BlockCounts
  PROVE  /\ NR_TASKLETS \in Nat \ {0} /\ DPU_BLOCKS \in Nat \ {0} /\ BUFFER_BLOCKS \in Nat
         /\ Two!PerTaskletBlocks \in Nat \ {0}
         /\ DPU_BLOCKS <= NR_TASKLETS * Two!PerTaskletBlocks
         /\ NR_TASKLETS * Two!PerTaskletBlocks <= BUFFER_BLOCKS
<1> DEFINE b == DPU_BLOCKS
           ok(n) == n \in Two!Halvings /\ n <= b /\ \A m \in Two!Halvings : m <= b => m <= n
           pow(h) == 2^h
<1>1. /\ NR_TASKLETS \in Nat \ {0} /\ BUFFER_BLOCKS \in Nat /\ b \in Nat \ {0}
      /\ b <= BUFFER_BLOCKS /\ NR_TASKLETS <= BUFFER_BLOCKS
  BY MCTwoLayers DEF Two!TwoLayersConstants, Two!WholeBlocks
<1>2. PICK e \in 0..8 : NR_TASKLETS = 2^e
  BY MCTwoLayers DEF Two!WholeBlocks
<1>3. NR_TASKLETS \in SmallPowers /\ \A h \in 0..8 : 2^h \in SmallPowers
  BY <1>2, SmallPower
<1>4. /\ Two!Halvings \subseteq Nat
      /\ NR_TASKLETS \in Two!Halvings /\ 1 \in Two!Halvings
  <2>1. \A h \in 0..8 : NR_TASKLETS \div 2^h \in Two!Halvings
    BY DEF Two!Halvings
  <2>2. NR_TASKLETS \div 2^0 = NR_TASKLETS /\ 0 \in 0..8
    BY <1>3, SmallPower, Quotient
  <2>3. NR_TASKLETS \div 2^e = 1
    BY <1>2, <1>3, Quotient
  <2>4. \A h \in 0..8 : NR_TASKLETS \div 2^h \in Nat
    BY <1>3, Quotient
  <2>5. Two!Halvings \subseteq Nat
    BY <2>4 DEF Two!Halvings
  <2>6. QED BY <2>1, <2>2, <2>3, <2>5
<1>5. \E n : ok(n)
  <2> DEFINE S == {d \in Nat : \E m \in Two!Halvings : m <= b /\ d = b - m}
  <2>1. S \in SUBSET Nat /\ b - 1 \in S
    BY <1>1, <1>4
  <2>2. PICK d \in S : \A y \in S : d <= y
    <3> HIDE DEF S
    <3>1. QED BY <2>1, Least
  <2>3. PICK n \in Two!Halvings : n <= b /\ d = b - n
    BY <2>2
  <2>4. ASSUME NEW m \in Two!Halvings, m <= b PROVE m <= n
    <3>1. m \in Nat /\ n \in Nat /\ b - m \in Nat
      BY <1>1, <1>4, <2>4
    <3>2. b - m \in S
      BY <2>4, <3>1
    <3>3. d <= b - m
      <4> HIDE DEF S
      <4>1. QED BY <2>2, <3>2
    <3>4. QED BY <1>1, <2>3, <3>1, <3>3
  <2>5. QED BY <2>3, <2>4
<1>6. ok(Two!NrTasklets)
  <2>1. Two!NrTasklets = CHOOSE n : ok(n)
    BY DEF Two!NrTasklets
  <2> HIDE DEF ok
  <2>2. QED BY <1>5, <2>1
<1> DEFINE n == Two!NrTasklets
<1>7. n \in Nat \ {0} /\ n <= b
  BY <1>1, <1>4, <1>6
<1>8. CASE NR_TASKLETS <= b
  <2>1. \A x, y \in SmallPowers : x \div y <= x
    BY DEF SmallPowers
  <2>2. n <= NR_TASKLETS
    <3>1. PICK h \in 0..8 : n = NR_TASKLETS \div 2^h
      BY <1>6 DEF Two!Halvings
    <3>2. QED BY <1>3, <2>1, <3>1
  <2>3. n = NR_TASKLETS
    BY <1>1, <1>4, <1>6, <1>7, <1>8, <2>2
  <2>4. b % NR_TASKLETS = 0
    BY <1>1, <1>8, MCTwoLayers DEF Two!WholeBlocks
  <2> DEFINE p == b \div NR_TASKLETS
  <2>5. p \in Int /\ b = NR_TASKLETS * p
    BY <1>1, <2>4, DivMod
  <2>6. Two!PerTaskletBlocks = p
    BY <2>3 DEF Two!PerTaskletBlocks
  <2> HIDE DEF p
  <2>7. p > 0
    <3>1. CASE p <= 0
      <4>1. NR_TASKLETS * (0 - p) >= 0
        BY <1>1, <2>5, <3>1
      <4>2. NR_TASKLETS * (0 - p) = 0 - b
        BY <1>1, <2>5
      <4>3. QED BY <1>1, <4>1, <4>2
    <3>2. QED BY <2>5, <3>1
  <2>8. QED BY <1>1, <2>5, <2>6, <2>7
<1>9. CASE b < NR_TASKLETS
  <2>0. PICK h \in 0..8 : n = NR_TASKLETS \div pow(h)
    BY <1>6 DEF Two!Halvings
  <2>1. /\ pow(0) = 1 /\ \A k \in 0..8 : pow(k) \in SmallPowers
        /\ \A k \in 1..8 : k - 1 \in 0..8 /\ pow(k) = 2 * pow(k - 1)
        /\ \A k \in 0..8 : NR_TASKLETS \div pow(k) \in Two!Halvings
    BY SmallPower DEF Two!Halvings
  <2> HIDE DEF pow
  <2>2. h # 0
    <3>1. NR_TASKLETS \div pow(0) = NR_TASKLETS
      BY <1>3, <2>1, Quotient
    <3>2. QED BY <1>1, <1>7, <1>9, <2>0, <3>1
  <2>3. h \in 1..8 /\ h - 1 \in 0..8 /\ pow(h) = 2 * pow(h - 1)
    BY <2>1, <2>2
  <2>4. pow(h) <= NR_TASKLETS
    <3>1. pow(h) \in SmallPowers
      BY <2>1
    <3>2. NR_TASKLETS \in Nat /\ pow(h) \in Nat
      BY <1>3, <3>1 DEF SmallPowers
    <3>3. QED BY <1>3, <1>7, <2>0, <3>1, <3>2, Quotient
  <2>5. NR_TASKLETS \div pow(h - 1) = 2 * n
    BY <1>3, <2>0, <2>1, <2>3, <2>4, Half
  <2>6. 2 * n \in Two!Halvings
    BY <2>1, <2>3, <2>5
  <2>7. b < 2 * n
    BY <1>1, <1>6, <1>7, <2>6
  <2>8. b \div n = 1
    <3> HIDE DEF n, b
    <3> DEFINE q == b \div n
    <3>1. q \in Int /\ b % n \in 0..(n - 1) /\ b = n * q + (b % n)
      BY <1>1, <1>7, DivMod
    <3> HIDE DEF q
    <3>2. ~(q >= 2)
      <4>1. SUFFICES ASSUME q >= 2 PROVE FALSE
        OBVIOUS
      <4>2. n * (q - 2) >= 0 /\ n * (q - 2) = n * q - 2 * n
        BY <1>7, <3>1, <4>1
      <4>3. QED BY <1>1, <1>7, <2>7, <3>1, <4>2
    <3>3. ~(q <= 0)
      <4>1. SUFFICES ASSUME q <= 0 PROVE FALSE
        OBVIOUS
      <4>2. n * (0 - q) >= 0 /\ n * (0 - q) = 0 - n * q
        BY <1>7, <3>1, <4>1
      <4>3. QED BY <1>1, <1>7, <3>1, <4>2
    <3>4. q = 1
      BY <3>1, <3>2, <3>3
    <3>5. QED BY <3>4 DEF q
  <2>9. Two!PerTaskletBlocks = 1
    BY <2>8 DEF Two!PerTaskletBlocks
  <2>10. QED BY <1>1, <1>9, <2>9
<1>10. QED BY <1>1, <1>8, <1>9

--------------------------------------------------------------------------------
(***************************************************************************)
(* The shares of the tasklets, counted in nr_tasklets or not.              *)
(***************************************************************************)
BlockShareSize == Two!PerTaskletBlocks
BlockShare(t) == (t * BlockShareSize)..(t * BlockShareSize + BlockShareSize - 1)

\* The tasklets of the program of two layers own disjoint blocks, none outside the buffer, and
\* together the first of them without a gap.
LEMMA BlockShares ==
  ASSUME DPU_BLOCKS \in BlockCounts
  PROVE  /\ \A t \in Two!Tasklets :
              /\ t * BlockShareSize \in Nat /\ BlockShare(t) \subseteq 0..(BUFFER_BLOCKS - 1)
              /\ BlockShare(t) \subseteq 0..(NR_TASKLETS * BlockShareSize - 1)
         /\ \A t, u \in Two!Tasklets : t # u => BlockShare(t) \cap BlockShare(u) = {}
         /\ \A k \in 0..(NR_TASKLETS * BlockShareSize - 1) : \E t \in Two!Tasklets : k \in BlockShare(t)
<1> DEFINE n == NR_TASKLETS
           p == BlockShareSize
<1>1. n \in Nat \ {0} /\ p \in Nat \ {0} /\ n * p <= BUFFER_BLOCKS /\ BUFFER_BLOCKS \in Nat
      /\ n * p \in Nat
  <2>1. n \in Nat \ {0} /\ p \in Nat \ {0} /\ n * p <= BUFFER_BLOCKS /\ BUFFER_BLOCKS \in Nat
    BY BlockDivision DEF BlockShareSize
  <2>2. QED BY <2>1
<1>2. Two!Tasklets = 0..(n - 1) /\ \A t : BlockShare(t) = (t * p)..(t * p + p - 1)
  BY DEF Two!Tasklets, BlockShare
<1> HIDE DEF n, p
<1>3. ASSUME NEW t \in Two!Tasklets
      PROVE  t * p \in Nat /\ BlockShare(t) \subseteq 0..(BUFFER_BLOCKS - 1) /\ BlockShare(t) \subseteq 0..(n * p - 1)
  <2>1. t \in Nat /\ t < n /\ t * p \in Nat
    BY <1>1, <1>2
  <2>2. t * p + p <= n * p
    BY <1>1, <2>1, SharesApart
  <2>3. ASSUME NEW k \in BlockShare(t) PROVE k \in 0..(BUFFER_BLOCKS - 1) /\ k \in 0..(n * p - 1)
    BY <1>1, <1>2, <2>1, <2>2
  <2>4. QED BY <2>1, <2>3
<1>4. ASSUME NEW t \in Two!Tasklets, NEW u \in Two!Tasklets, t # u PROVE BlockShare(t) \cap BlockShare(u) = {}
  <2>1. t \in Nat /\ u \in Nat /\ t * p \in Nat /\ u * p \in Nat
    BY <1>1, <1>2, <1>3
  <2>2. (t < u => t * p + p <= u * p) /\ (u < t => u * p + p <= t * p)
    BY <1>1, <2>1, SharesApart
  <2>3. t * p + p <= u * p \/ u * p + p <= t * p
    BY <1>4, <2>1, <2>2
  <2>4. SUFFICES ASSUME NEW k \in BlockShare(t), k \in BlockShare(u) PROVE FALSE
    OBVIOUS
  <2>5. k >= t * p /\ k < t * p + p /\ k >= u * p /\ k < u * p + p /\ k \in Int
    BY <1>1, <1>2, <2>1, <2>4
  <2>6. QED BY <1>1, <2>1, <2>3, <2>5
<1>5. ASSUME NEW k \in 0..(n * p - 1) PROVE \E t \in Two!Tasklets : k \in BlockShare(t)
  <2>1. k \in Nat /\ k < n * p
    BY <1>1
  <2>2. PICK t \in 0..(n - 1) : t * p <= k /\ k < t * p + p
    BY <1>1, <2>1, SharesCover
  <2>3. t \in Two!Tasklets /\ t * p \in Nat
    BY <1>1, <1>2, <2>2
  <2>4. k \in BlockShare(t)
    BY <1>1, <1>2, <2>1, <2>2, <2>3
  <2>5. QED BY <2>3, <2>4
<1>6. QED BY <1>3, <1>4, <1>5 DEF n, p

--------------------------------------------------------------------------------
(***************************************************************************)
(* The inductive invariant: where a tasklet stands in its share and what   *)
(* it has left behind.                                                     *)
(***************************************************************************)
TwoTypeOK ==
  /\ DPU_BLOCKS \in BlockCounts
  /\ two_xp \in [0..(BUFFER_BLOCKS - 1) -> BlockValue]
  /\ two_pc \in [Two!Tasklets -> {"start", "read", "write", "done"}]
  /\ two_i \in [Two!Tasklets -> Nat]
  /\ two_blocks \in [Two!Tasklets -> Nat]
  /\ two_cache \in [Two!Tasklets -> BlockValue]

\* The countdown ends where the share does.
BlockPositionInv(t) ==
  Two!Working(t) => two_i[t] \in BlockShare(t) /\ two_i[t] + two_blocks[t] = t * BlockShareSize + BlockShareSize

BlockCacheInv(t) == two_pc[t] = "write" => two_cache[t] = BlockXp[two_i[t]]

Kept(k) == two_xp[k] = BlockXp[k]
Done(k) == two_xp[k] = Quad(BlockXp[k])

BlockShareInv(t) ==
  \A k \in BlockShare(t) :
    /\ two_pc[t] = "start" => Kept(k)
    /\ Two!Working(t) => IF k < two_i[t] THEN Done(k) ELSE Kept(k)
    /\ two_pc[t] = "done" => Done(k)

BlockRestInv == \A k \in (NR_TASKLETS * BlockShareSize)..(BUFFER_BLOCKS - 1) : Kept(k)

TwoInv ==
  /\ TwoTypeOK
  /\ \A t \in Two!Tasklets : BlockPositionInv(t) /\ BlockCacheInv(t) /\ BlockShareInv(t)
  /\ BlockRestInv

\* The program of two layers starts with its invariant true.
LEMMA TwoInitInv == ASSUME Two!Init PROVE TwoInv
<1>1. DPU_BLOCKS \in BlockCounts
  BY DEF Two!Init
<1>2. \A t \in Two!Tasklets : BlockShare(t) \subseteq 0..(BUFFER_BLOCKS - 1)
  BY <1>1, BlockShares
<1>3. 0 \in 0..(BUFFER_BLOCKS - 1)
  BY <1>1, MCTwoLayers DEF Two!TwoLayersConstants
<1>4. TwoTypeOK
  BY <1>1, <1>3, MCTwoLayers DEF Two!Init, TwoTypeOK, Two!TwoLayersConstants
<1>5. \A t \in Two!Tasklets : BlockPositionInv(t) /\ BlockCacheInv(t) /\ BlockShareInv(t)
  BY DEF Two!Init, BlockPositionInv, BlockCacheInv, BlockShareInv, Two!Working, Kept
<1>6. BlockRestInv
  BY DEF Two!Init, BlockRestInv, Kept
<1>7. QED BY <1>4, <1>5, <1>6 DEF TwoInv

\* Every step of it keeps the invariant.
LEMMA TwoNextInv == ASSUME TwoInv, [Two!Next]_two_vars PROVE TwoInv'
<1>1. TwoTypeOK /\ BlockRestInv /\ \A t \in Two!Tasklets : BlockPositionInv(t) /\ BlockCacheInv(t) /\ BlockShareInv(t)
  BY DEF TwoInv
<1>2. DPU_BLOCKS \in BlockCounts /\ BlockShareSize \in Nat \ {0} /\ BUFFER_BLOCKS \in Nat
  BY <1>1, BlockDivision DEF TwoTypeOK, BlockShareSize
<1>3. ASSUME DPU_BLOCKS' = DPU_BLOCKS PROVE BlockShareSize' = BlockShareSize /\ \A t : BlockShare(t)' = BlockShare(t)
  BY <1>3 DEF BlockShareSize, BlockShare, Two!PerTaskletBlocks, Two!NrTasklets
<1>4. ASSUME NEW t \in Two!Tasklets, Two!Enter(t) PROVE TwoInv'
  <2>1. /\ two_pc[t] = "start" /\ two_i' = [two_i EXCEPT ![t] = t * BlockShareSize] /\ two_blocks' = [two_blocks EXCEPT ![t] = BlockShareSize]
        /\ two_pc' = [two_pc EXCEPT ![t] = "read"] /\ UNCHANGED <<DPU_BLOCKS, two_xp, two_cache>>
    BY <1>4 DEF Two!Enter, BlockShareSize
  <2>2. t * BlockShareSize \in Nat /\ t * BlockShareSize \in BlockShare(t) /\ t * BlockShareSize + BlockShareSize = t * BlockShareSize + BlockShareSize
    <3>1. t * BlockShareSize \in Nat
      BY <1>2, BlockShares
    <3>2. QED BY <1>2, <3>1 DEF BlockShare
  <2>3. TwoTypeOK'
    BY <1>1, <1>2, <2>1, <2>2 DEF TwoTypeOK
  <2>4. ASSUME NEW u \in Two!Tasklets PROVE BlockPositionInv(u)' /\ BlockCacheInv(u)' /\ BlockShareInv(u)'
    <3>1. CASE u = t
      <4>1. two_pc'[t] = "read" /\ two_i'[t] = t * BlockShareSize /\ two_blocks'[t] = BlockShareSize /\ two_xp' = two_xp
        BY <1>1, <2>1 DEF TwoTypeOK
      <4>2. \A k \in BlockShare(t) : ~(k < t * BlockShareSize) /\ Kept(k)
        <5>1. \A k \in BlockShare(t) : Kept(k)
          BY <1>1, <2>1 DEF BlockShareInv
        <5>2. \A k \in BlockShare(t) : ~(k < t * BlockShareSize)
          BY <1>2, <2>2 DEF BlockShare
        <5>3. QED BY <5>1, <5>2
      <4>3. QED
        BY <1>3, <2>1, <2>2, <3>1, <4>1, <4>2 DEF BlockPositionInv, BlockCacheInv, BlockShareInv, Two!Working, Kept
    <3>2. CASE u # t
      <4>1. two_pc'[u] = two_pc[u] /\ two_i'[u] = two_i[u] /\ two_blocks'[u] = two_blocks[u] /\ two_xp' = two_xp /\ two_cache' = two_cache
        BY <1>1, <2>1, <3>2 DEF TwoTypeOK
      <4>2. QED
        BY <1>1, <1>3, <2>1, <4>1
           DEF BlockPositionInv, BlockCacheInv, BlockShareInv, Two!Working, Kept, Done
    <3>3. QED BY <3>1, <3>2
  <2>5. BlockRestInv'
    BY <1>1, <1>3, <2>1 DEF BlockRestInv, Kept
  <2>6. QED BY <2>3, <2>4, <2>5 DEF TwoInv
<1>5. ASSUME NEW t \in Two!Tasklets, Two!Read(t) PROVE TwoInv'
  <2>1. Two!Working(t) /\ two_i[t] \in BlockShare(t) /\ two_i[t] \in 0..(BUFFER_BLOCKS - 1)
    BY <1>1, <1>2, <1>5, BlockShares DEF Two!Read, Two!Working, BlockPositionInv
  <2>2. two_xp[two_i[t]] = BlockXp[two_i[t]] /\ two_xp[two_i[t]] \in BlockValue /\ two_i[t] \in DOMAIN two_xp
    <3>1. ~(two_i[t] < two_i[t])
      BY <2>1
    <3>2. QED BY <1>1, <2>1, <3>1 DEF BlockShareInv, Kept, TwoTypeOK
  <2>3. /\ two_pc[t] = "read" /\ two_pc' = [two_pc EXCEPT ![t] = "write"]
        /\ two_cache' = [two_cache EXCEPT ![t] = BlockXp[two_i[t]]]
        /\ UNCHANGED <<DPU_BLOCKS, two_xp, two_i, two_blocks>>
    BY <1>5, <2>2 DEF Two!Read
  <2>4. TwoTypeOK'
    BY <1>1, <2>2, <2>3 DEF TwoTypeOK
  <2>5. ASSUME NEW u \in Two!Tasklets PROVE BlockPositionInv(u)' /\ BlockCacheInv(u)' /\ BlockShareInv(u)'
    <3>1. CASE u = t
      <4>1. two_pc'[t] = "write" /\ two_cache'[t] = BlockXp[two_i[t]] /\ two_i' = two_i /\ two_blocks' = two_blocks /\ two_xp' = two_xp
        BY <1>1, <2>3 DEF TwoTypeOK
      <4>2. QED
        BY <1>1, <1>3, <2>1, <2>3, <3>1, <4>1
           DEF BlockPositionInv, BlockCacheInv, BlockShareInv, Two!Working, Kept, Done
    <3>2. CASE u # t
      <4>1. two_pc'[u] = two_pc[u] /\ two_cache'[u] = two_cache[u] /\ two_i' = two_i /\ two_blocks' = two_blocks /\ two_xp' = two_xp
        BY <1>1, <2>3, <3>2 DEF TwoTypeOK
      <4>2. QED
        BY <1>1, <1>3, <2>3, <4>1
           DEF BlockPositionInv, BlockCacheInv, BlockShareInv, Two!Working, Kept, Done
    <3>3. QED BY <3>1, <3>2
  <2>6. BlockRestInv'
    BY <1>1, <1>3, <2>3 DEF BlockRestInv, Kept
  <2>7. QED BY <2>4, <2>5, <2>6 DEF TwoInv
<1>6. ASSUME NEW t \in Two!Tasklets, Two!Write(t) PROVE TwoInv'
  <2>1. Two!Working(t) /\ two_i[t] \in BlockShare(t) /\ two_i[t] \in 0..(BUFFER_BLOCKS - 1)
        /\ two_i[t] + two_blocks[t] = t * BlockShareSize + BlockShareSize /\ two_cache[t] = BlockXp[two_i[t]] /\ t * BlockShareSize \in Nat
    BY <1>1, <1>2, <1>6, BlockShares DEF Two!Write, Two!Working, BlockPositionInv, BlockCacheInv
  <2>2. two_i[t] \in Nat /\ two_blocks[t] \in Nat \ {0}
    <3>1. two_i[t] \in Nat /\ two_blocks[t] \in Nat /\ two_i[t] <= t * BlockShareSize + BlockShareSize - 1
      BY <1>1, <1>2, <2>1 DEF TwoTypeOK, BlockShare
    <3>2. QED BY <1>2, <2>1, <3>1
  <2>3. /\ two_i' = [two_i EXCEPT ![t] = two_i[t] + 1] /\ two_blocks' = [two_blocks EXCEPT ![t] = two_blocks[t] - 1]
        /\ two_pc[t] = "write" /\ two_pc' = [two_pc EXCEPT ![t] = IF two_blocks[t] = 1 THEN "done" ELSE "read"]
        /\ two_xp' = [k \in DOMAIN two_xp |-> IF k = two_i[t] THEN Quad(BlockXp[two_i[t]]) ELSE two_xp[k]]
        /\ UNCHANGED <<DPU_BLOCKS, two_cache>>
    BY <1>6, <2>1 DEF Two!Write
  <2>4. TwoTypeOK'
    <3>1. Quad(BlockXp[two_i[t]]) \in BlockValue
      BY <2>1, MCTwoLayers DEF Two!TwoLayersConstants
    <3>2. two_xp' \in [0..(BUFFER_BLOCKS - 1) -> BlockValue]
      BY <1>1, <2>3, <3>1 DEF TwoTypeOK
    <3>3. two_blocks[t] - 1 \in Nat /\ two_i[t] + 1 \in Nat
      BY <2>2
    <3>4. QED BY <1>1, <2>3, <3>2, <3>3 DEF TwoTypeOK
  <2>5. \A k \in 0..(BUFFER_BLOCKS - 1) : two_xp'[k] = IF k = two_i[t] THEN Quad(BlockXp[k]) ELSE two_xp[k]
    BY <1>1, <2>3 DEF TwoTypeOK
  <2>6. ASSUME NEW u \in Two!Tasklets PROVE BlockPositionInv(u)' /\ BlockCacheInv(u)' /\ BlockShareInv(u)'
    <3>1. CASE u = t
      <4>1. two_pc'[t] \in {"read", "done"} /\ two_i'[t] = two_i[t] + 1 /\ two_blocks'[t] = two_blocks[t] - 1
            /\ (two_pc'[t] = "done" <=> two_blocks[t] = 1)
        BY <1>1, <2>3 DEF TwoTypeOK
      <4>2. BlockPositionInv(t)'
        <5>1. CASE two_blocks[t] = 1
          BY <4>1, <5>1 DEF BlockPositionInv, Two!Working
        <5>2. CASE two_blocks[t] # 1
          <6>1. two_i[t] + 1 \in BlockShare(t) /\ (two_i[t] + 1) + (two_blocks[t] - 1) = t * BlockShareSize + BlockShareSize
            BY <1>2, <2>1, <2>2, <5>2 DEF BlockShare
          <6>2. QED BY <1>3, <2>3, <4>1, <6>1 DEF BlockPositionInv
        <5>3. QED BY <5>1, <5>2
      <4>3. BlockCacheInv(t)'
        BY <4>1 DEF BlockCacheInv
      <4>4. ASSUME NEW k \in BlockShare(t)
            PROVE  /\ k < two_i[t] + 1 => Done(k)'
                   /\ ~(k < two_i[t] + 1) => Kept(k)'
                   /\ two_blocks[t] = 1 => k < two_i[t] + 1
        <5>1. k \in 0..(BUFFER_BLOCKS - 1)
          BY <1>2, BlockShares
        <5>2. IF k < two_i[t] THEN Done(k) ELSE Kept(k)
          BY <1>1, <2>1 DEF BlockShareInv
        <5>3. k = two_i[t] => Done(k)'
          BY <2>5, <5>1 DEF Done
        <5>4. k < two_i[t] => Done(k)'
          BY <2>2, <2>5, <5>1, <5>2 DEF Done
        <5>5. k > two_i[t] => Kept(k)'
          BY <2>2, <2>5, <5>1, <5>2 DEF Kept
        <5>6. k < two_i[t] + 1 <=> k < two_i[t] \/ k = two_i[t]
          BY <2>2, <5>1
        <5>7. two_blocks[t] = 1 => k < two_i[t] + 1
          BY <1>2, <2>1, <2>2 DEF BlockShare
        <5>8. QED BY <2>2, <5>1, <5>3, <5>4, <5>5, <5>6, <5>7
      <4>5. BlockShareInv(t)'
        BY <1>3, <2>3, <4>1, <4>4 DEF BlockShareInv, Two!Working
      <4>6. QED BY <3>1, <4>2, <4>3, <4>5
    <3>2. CASE u # t
      <4>1. two_pc'[u] = two_pc[u] /\ two_i'[u] = two_i[u] /\ two_blocks'[u] = two_blocks[u] /\ two_cache' = two_cache
        BY <1>1, <2>3, <3>2 DEF TwoTypeOK
      <4>2. ASSUME NEW k \in BlockShare(u) PROVE two_xp'[k] = two_xp[k]
        <5>1. k \in 0..(BUFFER_BLOCKS - 1) /\ k # two_i[t]
          BY <1>2, <2>1, <3>2, BlockShares
        <5>2. QED BY <2>5, <5>1
      <4>3. BlockShareInv(u)'
        BY <1>1, <1>3, <2>3, <4>1, <4>2 DEF BlockShareInv, Two!Working, Kept, Done
      <4>4. BlockPositionInv(u)' /\ BlockCacheInv(u)'
        BY <1>1, <1>3, <2>3, <4>1 DEF BlockPositionInv, BlockCacheInv, Two!Working
      <4>5. QED BY <4>3, <4>4
    <3>3. QED BY <3>1, <3>2
  <2>7. BlockRestInv'
    <3>1. ASSUME NEW k \in (NR_TASKLETS * BlockShareSize)..(BUFFER_BLOCKS - 1) PROVE Kept(k)'
      <4>1. NR_TASKLETS \in Nat /\ NR_TASKLETS * BlockShareSize \in Nat
        BY <1>2, BlockDivision
      <4>2. two_i[t] \in 0..(NR_TASKLETS * BlockShareSize - 1)
        BY <1>2, <2>1, BlockShares
      <4>3. k \in 0..(BUFFER_BLOCKS - 1) /\ k # two_i[t]
        BY <1>2, <4>1, <4>2
      <4>4. Kept(k)
        BY <1>1 DEF BlockRestInv
      <4>5. QED BY <2>5, <4>3, <4>4 DEF Kept
    <3>2. QED BY <1>3, <2>3, <3>1 DEF BlockRestInv
  <2>8. QED BY <2>4, <2>6, <2>7 DEF TwoInv
<1>7. CASE UNCHANGED two_vars
  BY <1>1, <1>3, <1>7
     DEF TwoInv, TwoTypeOK, BlockPositionInv, BlockCacheInv, BlockShareInv, BlockRestInv, Two!Working, Kept, Done, two_vars
<1>8. QED BY <1>4, <1>5, <1>6, <1>7 DEF Two!Next, Two!Tasklet, Two!Finished, Two!vars, two_vars

\* A step of MCFftKernels is one of the last two layers or does not touch them.
LEMMA TwoInvariance == MCSpec => []TwoInv
<1>1. MCInit => TwoInv
  BY TwoInitInv DEF MCInit
<1>2. TwoInv /\ [MCNext]_<<vars, two_vars>> => TwoInv'
  <2>1. [MCNext]_<<vars, two_vars>> => [Two!Next]_two_vars
    BY DEF MCNext, Two!Next, Tasklets, Two!Tasklets
  <2>2. QED BY <2>1, TwoNextInv
<1>3. QED BY <1>1, <1>2, PTL DEF MCSpec

(***************************************************************************)
(* No block belongs to two tasklets and none is outside the buffer         *)
(* (dpu_multi_new_fft_last_two_layers.c:51-67), though all NR_TASKLETS     *)
(* tasklets compute, also when there are fewer blocks than tasklets.       *)
(***************************************************************************)
THEOREM BlocksOwned == MCSpec => []OwnBlocks
<1>1. TwoInv => OwnBlocks
  <2>1. SUFFICES ASSUME TwoInv, NEW t \in Two!Tasklets, Two!Working(t)
                 PROVE  /\ two_i[t] \in 0..(BUFFER_BLOCKS - 1)
                        /\ \A u \in Two!Tasklets \ {t} : Two!Working(u) => two_i[t] # two_i[u]
    BY DEF OwnBlocks, Two!OwnBlocks
  <2>2. DPU_BLOCKS \in BlockCounts /\ \A u \in Two!Tasklets : Two!Working(u) => two_i[u] \in BlockShare(u)
    BY <2>1 DEF TwoInv, TwoTypeOK, BlockPositionInv
  <2>3. QED BY <2>1, <2>2, BlockShares
<1>2. QED BY <1>1, TwoInvariance, PTL

(***************************************************************************)
(* When the launch returns, every block the host sent has been computed,   *)
(* and computed once, whatever the number of blocks; behind them there are *)
(* blocks computed once, by the tasklets the program does not count, and   *)
(* blocks that were not touched.                                           *)
(***************************************************************************)
THEOREM BlocksAllComputed == MCSpec => []BlocksComputed
<1>1. TwoInv => BlocksComputed
  <2>1. SUFFICES ASSUME TwoInv, \A t \in Two!Tasklets : two_pc[t] = "done"
                 PROVE  /\ \A k \in 0..(DPU_BLOCKS - 1) : two_xp[k] = Quad(BlockXp[k])
                        /\ \A k \in DPU_BLOCKS..(BUFFER_BLOCKS - 1) : two_xp[k] \in {BlockXp[k], Quad(BlockXp[k])}
    BY DEF BlocksComputed, Two!BlocksComputed
  <2>2. DPU_BLOCKS \in BlockCounts /\ BlockRestInv /\ \A t \in Two!Tasklets : BlockShareInv(t)
    BY <2>1 DEF TwoInv, TwoTypeOK
  <2>3. /\ DPU_BLOCKS \in Nat /\ BUFFER_BLOCKS \in Nat /\ NR_TASKLETS * BlockShareSize \in Nat
        /\ DPU_BLOCKS <= NR_TASKLETS * BlockShareSize
    <3>1. /\ DPU_BLOCKS \in Nat /\ BUFFER_BLOCKS \in Nat /\ NR_TASKLETS \in Nat /\ BlockShareSize \in Nat
          /\ DPU_BLOCKS <= NR_TASKLETS * BlockShareSize
      BY <2>2, BlockDivision DEF BlockShareSize
    <3>2. QED BY <3>1
  <2>4. ASSUME NEW k \in 0..(NR_TASKLETS * BlockShareSize - 1) PROVE two_xp[k] = Quad(BlockXp[k])
    <3>1. PICK t \in Two!Tasklets : k \in BlockShare(t)
      BY <2>2, BlockShares
    <3>2. QED BY <2>1, <2>2, <3>1 DEF BlockShareInv, Done
  <2>5. ASSUME NEW k \in (NR_TASKLETS * BlockShareSize)..(BUFFER_BLOCKS - 1) PROVE two_xp[k] = BlockXp[k]
    BY <2>2 DEF BlockRestInv, Kept
  <2>6. QED BY <2>3, <2>4, <2>5
<1>2. QED BY <1>1, TwoInvariance, PTL
================================================================================

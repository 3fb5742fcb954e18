---------------------------- MODULE CtxtKernelProofs ----------------------------
(***************************************************************************)
(* Proofs about CtxtKernel for every number of tasklets, memory, rows and  *)
(* element function: types, freedom from races, the result and the         *)
(* implementation of Elementwise, for sizes of whole chunks.               *)
(***************************************************************************)
EXTENDS CtxtKernel, EqualShares

--------------------------------------------------------------------------------
(* The geometry of the shares. *)

\* The three quantities of the division of a row are positive integers.
LEMMA ShareNumbers ==
  ASSUME NEW s \in Sizes, WholeSizes
  PROVE  /\ s \in Nat /\ s + C_SIZE <= BUF_SIZE /\ C_SIZE \in Nat
         /\ NrTasklets(s) \in Nat \ {0} /\ NrTasklets(s) <= NR_TASKLETS
         /\ PerTasklet(s) \in Nat \ {0}
         /\ Chunk(s) \in Nat \ {0}
         /\ s = NrTasklets(s) * PerTasklet(s)
         /\ PerTasklet(s) % Chunk(s) = 0
<1>1. s \in Nat /\ s + C_SIZE <= BUF_SIZE /\ C_SIZE \in Nat \ {0} /\ NR_TASKLETS \in Nat
  BY SizesAssumption, TaskletsAssumption
<1>2. WholeChunks(s)
  BY DEF WholeSizes
<1>3. NrTasklets(s) \in Nat \ {0} /\ NrTasklets(s) <= NR_TASKLETS
  BY <1>1, <1>2 DEF WholeChunks
<1>4. PerTasklet(s) \in Int
  BY <1>1, <1>3 DEF PerTasklet
<1>5. PerTasklet(s) \in Nat \ {0}
  BY <1>2, <1>4 DEF WholeChunks
<1>6. Chunk(s) \in Nat \ {0}
  BY <1>1, <1>5 DEF Chunk
<1>7. QED
  BY <1>1, <1>2, <1>3, <1>5, <1>6 DEF WholeChunks

\* A tasklet starts behind the shares of the tasklets before it.
LEMMA ShareStart ==
  ASSUME NEW s \in Sizes, WholeSizes, NEW t \in Tasklets
  PROVE  /\ t \in Nat
         /\ Start(t, s) = t * PerTasklet(s) /\ Start(t, s) \in Nat
         /\ End(t, s) = t * PerTasklet(s) + PerTasklet(s) /\ End(t, s) \in Nat
<1>1. t \in Nat
  BY TaskletsAssumption DEF Tasklets
<1> DEFINE n == NrTasklets(s)
           p == PerTasklet(s)
<1>2. n \in Nat \ {0} /\ p \in Nat \ {0} /\ s = n * p
  BY ShareNumbers
<1> HIDE DEF n, p
<1>3. t * p \in Nat
  BY <1>1, <1>2
<1>4. t * s = n * (t * p)
  BY <1>1, <1>2
<1>5. (t * s) \div n = t * p
  BY <1>2, <1>3, <1>4, ExactDiv
<1>6. QED
  BY <1>1, <1>2, <1>3, <1>5 DEF Start, End, n, p

\* Shares do not overlap.
LEMMA SharesDisjoint ==
  ASSUME NEW s \in Sizes, WholeSizes, NEW t \in Tasklets, NEW u \in Tasklets, t # u
  PROVE  Share(t, s) \cap Share(u, s) = {}
<1>1. PerTasklet(s) \in Nat /\ t \in Nat /\ u \in Nat
  BY ShareNumbers, ShareStart
<1>2. t < u => End(t, s) <= Start(u, s)
  BY <1>1, SharesApart, ShareStart
<1>3. u < t => End(u, s) <= Start(t, s)
  BY <1>1, SharesApart, ShareStart
<1>4. End(t, s) <= Start(u, s) \/ End(u, s) <= Start(t, s)
  BY <1>1, <1>2, <1>3
<1>5. Start(t, s) \in Nat /\ Start(u, s) \in Nat /\ End(t, s) \in Nat /\ End(u, s) \in Nat
  BY ShareStart
<1>6. QED
  BY <1>4, <1>5 DEF Share

\* The shares of the active tasklets lie in the row and cover it.
LEMMA SharesInRow ==
  ASSUME NEW s \in Sizes, WholeSizes, NEW t \in Tasklets, t < NrTasklets(s)
  PROVE  Share(t, s) \subseteq 0..(s - 1)
<1>1. /\ NrTasklets(s) \in Nat /\ PerTasklet(s) \in Nat /\ s \in Nat
      /\ s = NrTasklets(s) * PerTasklet(s)
  BY ShareNumbers
<1>2. t * PerTasklet(s) + PerTasklet(s) <= NrTasklets(s) * PerTasklet(s)
  BY <1>1, ShareStart, SharesApart
<1>3. End(t, s) <= s /\ Start(t, s) \in Nat /\ End(t, s) \in Nat
  BY <1>1, <1>2, ShareStart
<1>4. QED
  BY <1>1, <1>3 DEF Share

\* The shares of the tasklets that a row of size s wakes leave no element of it out.
LEMMA SharesCoverRow ==
  ASSUME NEW s \in Sizes, WholeSizes, NEW k \in 0..(s - 1)
  PROVE  \E t \in Tasklets : t < NrTasklets(s) /\ k \in Share(t, s)
<1>1. /\ NrTasklets(s) \in Nat /\ PerTasklet(s) \in Nat \ {0} /\ s \in Nat
      /\ s = NrTasklets(s) * PerTasklet(s) /\ NrTasklets(s) <= NR_TASKLETS
  BY ShareNumbers
<1>2. k \in Nat /\ k < NrTasklets(s) * PerTasklet(s)
  BY <1>1
<1>3. PICK t \in 0..(NrTasklets(s) - 1) :
        t * PerTasklet(s) <= k /\ k < t * PerTasklet(s) + PerTasklet(s)
  BY <1>1, <1>2, SharesCover
<1>4. t \in Tasklets /\ t < NrTasklets(s)
  BY <1>1, <1>3, TaskletsAssumption DEF Tasklets
<1>5. Start(t, s) <= k /\ k < End(t, s) /\ Start(t, s) \in Nat /\ End(t, s) \in Nat
  BY <1>3, <1>4, ShareStart
<1>6. k \in Share(t, s)
  BY <1>2, <1>5 DEF Share
<1>7. QED BY <1>4, <1>6

\* From the beginning of a chunk inside a share, the whole chunk is inside, and
\* the next one begins where it ends.
LEMMA ChunkInShare ==
  ASSUME NEW s \in Sizes, WholeSizes, NEW t \in Tasklets, NEW k \in Share(t, s),
         (k - Start(t, s)) % Chunk(s) = 0
  PROVE  /\ ChunkAt(k, s) \subseteq Share(t, s)
         /\ k + Chunk(s) <= End(t, s)
         /\ ((k + Chunk(s)) - Start(t, s)) % Chunk(s) = 0
<1> DEFINE p == PerTasklet(s)
           c == Chunk(s)
           st == Start(t, s)
<1>1. /\ p \in Nat \ {0} /\ c \in Nat \ {0} /\ p % c = 0 /\ st \in Nat
      /\ End(t, s) = st + p /\ (k - st) % c = 0
      /\ ChunkAt(k, s) = k..(k + c - 1) /\ Share(t, s) = st..(st + p - 1)
  BY ShareNumbers, ShareStart, SMTT(20) DEF End, ChunkAt, Share
<1> HIDE DEF p, c, st
<1>2. k \in Nat /\ st <= k /\ k < st + p
  BY <1>1
<1> DEFINE a == (k - st) \div c
           b == p \div c
<1>3. a \in Nat /\ b \in Nat /\ k - st = a * c /\ p = b * c
  BY <1>1, <1>2
<1> HIDE DEF a, b
<1>4. a * c + c <= b * c
  BY <1>1, <1>2, <1>3, ChunkFits
<1>5. k + c <= st + p
  BY <1>1, <1>2, <1>3, <1>4
<1>6. ((k + c) - st) % c = 0
  <2>1. (k + c) - st = (a + 1) * c
    BY <1>1, <1>2, <1>3
  <2>2. c * (a + 1) = (a + 1) * c /\ a + 1 \in Nat
    BY <1>1, <1>3
  <2>3. (c * (a + 1)) % c = 0
    BY <1>1, <2>2, ExactMod
  <2>4. QED BY <2>1, <2>2, <2>3
<1>7. QED
  BY <1>1, <1>2, <1>5, <1>6 DEF c, st

--------------------------------------------------------------------------------
(* The invariant. *)

LEMMA InitInv == ASSUME WholeSizes, Init PROVE KernelInv
<1>1. TypeOK
  BY RowsAssumption DEF Init, TypeOK
<1>2. \A t \in Tasklets : PositionInv(t) /\ CacheInv(t)
  BY DEF Init, PositionInv, CacheInv, Working
<1>3. \A t \in Tasklets : Active(t) => ShareInv(t)
  BY DEF Init, ShareInv, Working, Untouched
<1>4. RestInv
  BY DEF Init, RestInv, Untouched
<1>5. QED BY <1>1, <1>2, <1>3, <1>4 DEF KernelInv

\* What a tasklet keeps when neither the row in its share nor its own variables change.
LEMMA Frame ==
  ASSUME NEW t \in Tasklets, PositionInv(t), CacheInv(t), Active(t) => ShareInv(t),
         DPU_SIZE' = DPU_SIZE, pc'[t] = pc[t], i'[t] = i[t], cache'[t] = cache[t],
         Active(t) => \A k \in Share(t, DPU_SIZE) : DPU_ROW_THIS'[k] = DPU_ROW_THIS[k]
  PROVE  PositionInv(t)' /\ CacheInv(t)' /\ (Active(t) => ShareInv(t))'
<1>1. PositionInv(t)' /\ CacheInv(t)'
  BY DEF PositionInv, CacheInv, Working, Active
<1>2. (Active(t) => ShareInv(t))'
  BY DEF ShareInv, Working, Active, Untouched, Combined
<1>3. QED BY <1>1, <1>2

\* A tasklet beyond those that the launch calls for leaves KernelInv true.
LEMMA LeaveInv ==
  ASSUME WholeSizes, KernelInv, NEW t \in Tasklets, Leave(t) PROVE KernelInv'
<1> USE DEF KernelInv
<1>1. TypeOK'
  BY DEF TypeOK, Leave
<1>2. ASSUME NEW u \in Tasklets
      PROVE  PositionInv(u)' /\ CacheInv(u)' /\ (Active(u) => ShareInv(u))'
  <2>1. CASE u = t
    <3>1. ~Active(t) /\ pc'[t] = "done" /\ DPU_SIZE' = DPU_SIZE
      BY ShareStart, ShareNumbers DEF Leave, Active, TypeOK
    <3>2. QED BY <2>1, <3>1 DEF PositionInv, CacheInv, Working, Active
  <2>2. CASE u # t
    BY <2>2, Frame DEF Leave, TypeOK
  <2>3. QED BY <2>1, <2>2
<1>3. RestInv'
  BY DEF Leave, RestInv, Untouched
<1>4. QED BY <1>1, <1>2, <1>3

\* So does a tasklet that takes up its share.
LEMMA EnterInv ==
  ASSUME WholeSizes, KernelInv, NEW t \in Tasklets, Enter(t) PROVE KernelInv'
<1> USE DEF KernelInv
<1>1. DPU_SIZE \in Sizes /\ DPU_SIZE' = DPU_SIZE /\ Active(t)
  BY DEF Enter, Active, TypeOK
<1>2. /\ Start(t, DPU_SIZE) \in Nat /\ End(t, DPU_SIZE) \in Nat
      /\ Start(t, DPU_SIZE) < End(t, DPU_SIZE) /\ Chunk(DPU_SIZE) \in Nat \ {0}
  BY <1>1, ShareStart, ShareNumbers DEF End
<1>3. pc'[t] = "read" /\ i'[t] = Start(t, DPU_SIZE) /\ pc[t] = "start"
  BY <1>2 DEF Enter, TypeOK
<1>4. TypeOK'
  BY <1>2, <1>3 DEF TypeOK, Enter
<1>5. ASSUME NEW u \in Tasklets
      PROVE  PositionInv(u)' /\ CacheInv(u)' /\ (Active(u) => ShareInv(u))'
  <2>1. CASE u = t
    <3>1. Start(t, DPU_SIZE) \in Share(t, DPU_SIZE)
      BY <1>2 DEF Share
    <3>2. (Start(t, DPU_SIZE) - Start(t, DPU_SIZE)) % Chunk(DPU_SIZE) = 0
      BY <1>2
    <3>3. PositionInv(t)' /\ CacheInv(t)'
      BY <1>1, <1>3, <3>1, <3>2 DEF PositionInv, CacheInv, Active
    <3>4. ShareInv(t)
      BY <1>1
    <3>5. ASSUME NEW k \in Share(t, DPU_SIZE) PROVE Untouched(k)' /\ k >= Start(t, DPU_SIZE)
      BY <1>2, <1>3, <3>4 DEF ShareInv, Untouched, Enter, Share
    <3>6. ShareInv(t)'
      BY <1>1, <1>2, <1>3, <3>5 DEF ShareInv, Share, Working
    <3>7. QED BY <2>1, <3>3, <3>6
  <2>2. CASE u # t
    BY <2>2, Frame DEF Enter, TypeOK
  <2>3. QED BY <2>1, <2>2
<1>6. RestInv'
  BY DEF Enter, RestInv, Untouched
<1>7. QED BY <1>4, <1>5, <1>6

\* A chunk about to be read or written lies in the tasklet's share, inside the row.
LEMMA WorkingChunk ==
  ASSUME WholeSizes, KernelInv, NEW t \in Tasklets, Working(t)
  PROVE  /\ Active(t)
         /\ i[t] \in Share(t, DPU_SIZE)
         /\ ChunkAt(i[t], DPU_SIZE) \subseteq Share(t, DPU_SIZE)
         /\ Share(t, DPU_SIZE) \subseteq 0..(DPU_SIZE - 1)
         /\ 0..(DPU_SIZE - 1) \subseteq 0..(BUF_SIZE - 1)
         /\ i[t] + Chunk(DPU_SIZE) <= End(t, DPU_SIZE)
         /\ ((i[t] + Chunk(DPU_SIZE)) - Start(t, DPU_SIZE)) % Chunk(DPU_SIZE) = 0
<1>1. DPU_SIZE \in Sizes /\ PositionInv(t)
  BY DEF KernelInv, TypeOK
<1>2. Active(t) /\ i[t] \in Share(t, DPU_SIZE)
      /\ (i[t] - Start(t, DPU_SIZE)) % Chunk(DPU_SIZE) = 0
  BY <1>1 DEF PositionInv
<1>3. /\ ChunkAt(i[t], DPU_SIZE) \subseteq Share(t, DPU_SIZE)
      /\ i[t] + Chunk(DPU_SIZE) <= End(t, DPU_SIZE)
      /\ ((i[t] + Chunk(DPU_SIZE)) - Start(t, DPU_SIZE)) % Chunk(DPU_SIZE) = 0
  BY <1>1, <1>2, ChunkInShare
<1>4. Share(t, DPU_SIZE) \subseteq 0..(DPU_SIZE - 1)
  BY <1>1, <1>2, SharesInRow DEF Active
<1>5. 0..(DPU_SIZE - 1) \subseteq 0..(BUF_SIZE - 1)
  BY <1>1, ShareNumbers, MemoryAssumption
<1>6. QED BY <1>2, <1>3, <1>4, <1>5

\* So does the transfer of a buffer from MRAM, since it is inside the tasklet's own share.
LEMMA ReadInv ==
  ASSUME WholeSizes, KernelInv, NEW t \in Tasklets, Read(t) PROVE KernelInv'
<1>1. Working(t) /\ pc[t] = "read" /\ DPU_SIZE' = DPU_SIZE /\ DPU_ROW_THIS' = DPU_ROW_THIS
      /\ i' = i /\ DPU_SIZE \in Sizes
  BY DEF Read, Working, KernelInv, TypeOK
<1> DEFINE chunk == ChunkAt(i[t], DPU_SIZE)
<1>2. Active(t) /\ chunk \subseteq Share(t, DPU_SIZE) /\ chunk \subseteq 0..(BUF_SIZE - 1)
  BY <1>1, WorkingChunk
<1>3. \A k \in chunk : DPU_ROW_THIS[k] \in Value /\ RowOther[k] \in Value
  BY <1>2, RowsAssumption DEF KernelInv, TypeOK
<1>4. \A k \in chunk : k >= i[t] /\ Untouched(k)
  <2>1. i[t] \in Nat /\ Chunk(DPU_SIZE) \in Nat
    BY <1>1, ShareNumbers DEF KernelInv, TypeOK
  <2>2. \A k \in chunk : k >= i[t]
    BY <2>1 DEF ChunkAt
  <2>3. QED BY <1>1, <1>2, <2>2 DEF KernelInv, ShareInv
<1>5. /\ pc' = [pc EXCEPT ![t] = "write"]
      /\ cache' = [cache EXCEPT ![t] =
                     [k \in chunk |-> [this |-> DPU_ROW_THIS[k], other |-> RowOther[k]]]]
  BY DEF Read
<1>6. /\ pc'[t] = "write" /\ i'[t] = i[t]
      /\ cache'[t] = [k \in chunk |-> [this |-> RowThis[k], other |-> RowOther[k]]]
  BY <1>1, <1>4, <1>5 DEF KernelInv, TypeOK, Untouched
<1>7. ASSUME NEW u \in Tasklets, u # t
      PROVE  pc'[u] = pc[u] /\ cache'[u] = cache[u] /\ i'[u] = i[u]
  BY <1>1, <1>5, <1>7 DEF KernelInv, TypeOK
<1>8. TypeOK'
  <2>1. cache'[t] \in [chunk -> [this : Value, other : Value]]
    BY <1>3, <1>5 DEF KernelInv, TypeOK
  <2>2. \A u \in Tasklets : pc'[u] = "write" =>
          cache'[u] \in [ChunkAt(i'[u], DPU_SIZE') -> [this : Value, other : Value]]
    BY <1>1, <1>6, <1>7, <2>1 DEF KernelInv, TypeOK
  <2>3. QED BY <1>1, <1>5, <2>2 DEF KernelInv, TypeOK
<1>9. ASSUME NEW u \in Tasklets
      PROVE  PositionInv(u)' /\ CacheInv(u)' /\ (Active(u) => ShareInv(u))'
  <2>1. CASE u = t
    <3>1. PositionInv(t)' /\ CacheInv(t)'
      BY <1>1, <1>6 DEF KernelInv, PositionInv, CacheInv, Working, Active
    <3>2. ShareInv(t)'
      BY <1>1, <1>2, <1>6 DEF KernelInv, ShareInv, Working, Untouched, Combined
    <3>3. QED BY <2>1, <3>1, <3>2
  <2>2. CASE u # t
    BY <1>1, <1>7, <2>2, Frame DEF KernelInv
  <2>3. QED BY <2>1, <2>2
<1>10. RestInv'
  BY <1>1 DEF KernelInv, RestInv, Untouched
<1>11. QED BY <1>8, <1>9, <1>10 DEF KernelInv

\* So does the transfer of a result back: no other tasklet owns the elements it writes.
LEMMA WriteInv ==
  ASSUME WholeSizes, KernelInv, NEW t \in Tasklets, Write(t) PROVE KernelInv'
<1> DEFINE chunk == ChunkAt(i[t], DPU_SIZE)
           share == Share(t, DPU_SIZE)
           c == Chunk(DPU_SIZE)
<1>1. Working(t) /\ pc[t] = "write" /\ DPU_SIZE' = DPU_SIZE /\ DPU_SIZE \in Sizes
  BY DEF Write, NextChunk, Working, KernelInv, TypeOK
<1>2. /\ Active(t) /\ i[t] \in share /\ chunk \subseteq share
      /\ share \subseteq 0..(BUF_SIZE - 1) /\ share \subseteq 0..(DPU_SIZE - 1)
      /\ i[t] + c <= End(t, DPU_SIZE)
      /\ ((i[t] + c) - Start(t, DPU_SIZE)) % c = 0
  BY <1>1, WorkingChunk
<1>3. /\ i[t] \in Nat /\ c \in Nat \ {0} /\ chunk = i[t]..(i[t] + c - 1)
      /\ Start(t, DPU_SIZE) \in Nat /\ End(t, DPU_SIZE) \in Nat
      /\ share = Start(t, DPU_SIZE)..(End(t, DPU_SIZE) - 1)
  BY <1>1, ShareNumbers, ShareStart DEF KernelInv, TypeOK, ChunkAt, Share
<1>4. /\ i' = [i EXCEPT ![t] = i[t] + c]
      /\ pc' = [pc EXCEPT ![t] = IF i[t] + c < End(t, DPU_SIZE) THEN "read" ELSE "done"]
      /\ cache' = [cache EXCEPT ![t] = <<>>]
      /\ DPU_ROW_THIS' = [k \in 0..(BUF_SIZE - 1) |->
                            IF k \in chunk
                            THEN Fun(cache[t][k].this, cache[t][k].other)
                            ELSE DPU_ROW_THIS[k]]
  BY DEF Write, NextChunk, KernelInv, TypeOK
<1>5. /\ i'[t] = i[t] + c
      /\ pc'[t] = IF i[t] + c < End(t, DPU_SIZE) THEN "read" ELSE "done"
  BY <1>4 DEF KernelInv, TypeOK
<1>6. ASSUME NEW u \in Tasklets, u # t
      PROVE  pc'[u] = pc[u] /\ cache'[u] = cache[u] /\ i'[u] = i[u]
  BY <1>4, <1>6 DEF KernelInv, TypeOK
<1>7. ASSUME NEW k \in chunk PROVE Combined(k)'
  <2>1. cache[t] = [j \in chunk |-> [this |-> RowThis[j], other |-> RowOther[j]]]
    BY <1>1 DEF KernelInv, CacheInv
  <2>2. cache[t][k].this = RowThis[k] /\ cache[t][k].other = RowOther[k]
    BY <2>1
  <2>3. DPU_ROW_THIS'[k] = Fun(cache[t][k].this, cache[t][k].other)
    BY <1>2, <1>4
  <2>4. QED BY <2>2, <2>3 DEF Combined
<1>8. \A k \in 0..(BUF_SIZE - 1) : k \notin chunk => DPU_ROW_THIS'[k] = DPU_ROW_THIS[k]
  BY <1>4
<1>9. TypeOK'
  <2>1. \A k \in chunk : Fun(cache[t][k].this, cache[t][k].other) \in Value
    BY <1>1, FunAssumption DEF KernelInv, TypeOK
  <2>2. DPU_ROW_THIS' \in [0..(BUF_SIZE - 1) -> Value]
    BY <1>4, <2>1 DEF KernelInv, TypeOK
  <2>3. i' \in [Tasklets -> Nat] /\ pc' \in [Tasklets -> {"start", "read", "write", "done"}]
    BY <1>3, <1>4 DEF KernelInv, TypeOK
  <2>4. DOMAIN cache' = Tasklets
    BY <1>4 DEF KernelInv, TypeOK
  <2>5. \A u \in Tasklets : pc'[u] = "write" =>
          cache'[u] \in [ChunkAt(i'[u], DPU_SIZE') -> [this : Value, other : Value]]
    BY <1>1, <1>5, <1>6 DEF KernelInv, TypeOK
  <2>6. QED BY <1>1, <2>2, <2>3, <2>4, <2>5 DEF TypeOK
<1>10. ASSUME NEW u \in Tasklets
       PROVE  PositionInv(u)' /\ CacheInv(u)' /\ (Active(u) => ShareInv(u))'
  <2>1. CASE u = t
    <3>1. CASE i[t] + c < End(t, DPU_SIZE)
      <4>1. pc'[t] = "read" /\ i'[t] \in share
        BY <1>2, <1>3, <1>5, <3>1
      <4>2. PositionInv(t)' /\ CacheInv(t)'
        BY <1>1, <1>2, <1>5, <4>1 DEF PositionInv, CacheInv, Active
      <4>3. ShareInv(t)
        BY <1>2 DEF KernelInv
      <4>4. ASSUME NEW k \in share, k < i'[t] PROVE Combined(k)'
        <5>1. CASE k \in chunk
          BY <1>7, <5>1
        <5>2. CASE k \notin chunk
          <6>1. k < i[t]
            BY <1>3, <1>5, <4>4, <5>2
          <6>2. Combined(k)
            BY <1>1, <4>3, <6>1 DEF ShareInv
          <6>3. QED BY <1>2, <1>8, <5>2, <6>2 DEF Combined
        <5>3. QED BY <5>1, <5>2
      <4>5. ASSUME NEW k \in share, k >= i'[t] PROVE Untouched(k)'
        <5>1. k \notin chunk /\ k >= i[t]
          BY <1>3, <1>5, <4>5
        <5>2. Untouched(k)
          BY <1>1, <4>3, <5>1 DEF ShareInv
        <5>3. QED BY <1>2, <1>8, <5>1, <5>2 DEF Untouched
      <4>6. ShareInv(t)'
        BY <1>1, <4>1, <4>4, <4>5 DEF ShareInv, Working
      <4>7. QED BY <2>1, <4>2, <4>6
    <3>2. CASE ~(i[t] + c < End(t, DPU_SIZE))
      <4>0. i[t] + c <= End(t, DPU_SIZE) /\ i[t] + c \in Nat /\ End(t, DPU_SIZE) \in Nat
        BY <1>2, <1>3
      <4>1. pc'[t] = "done" /\ i[t] + c = End(t, DPU_SIZE)
        BY <1>5, <3>2, <4>0
      <4>2. PositionInv(t)' /\ CacheInv(t)'
        BY <4>1 DEF PositionInv, CacheInv, Working
      <4>3. ShareInv(t)
        BY <1>2 DEF KernelInv
      <4>4. ASSUME NEW k \in share PROVE Combined(k)'
        <5>1. CASE k \in chunk
          BY <1>7, <5>1
        <5>2. CASE k \notin chunk
          <6>1. k < i[t]
            BY <1>3, <4>1, <5>2
          <6>2. Combined(k)
            BY <1>1, <4>3, <6>1 DEF ShareInv
          <6>3. QED BY <1>2, <1>8, <5>2, <6>2 DEF Combined
        <5>3. QED BY <5>1, <5>2
      <4>5. ShareInv(t)'
        BY <1>1, <4>1, <4>4 DEF ShareInv, Working
      <4>6. QED BY <2>1, <4>2, <4>5
    <3>3. QED BY <3>1, <3>2
  <2>2. CASE u # t
    <3>1. Active(u) => Share(u, DPU_SIZE) \cap share = {} /\ Share(u, DPU_SIZE) \subseteq 0..(BUF_SIZE - 1)
      <4>1. Share(u, DPU_SIZE) \cap share = {}
        BY <1>1, <2>2, SharesDisjoint
      <4>2. Active(u) => Share(u, DPU_SIZE) \subseteq 0..(DPU_SIZE - 1)
        BY <1>1, SharesInRow DEF Active
      <4>3. 0..(DPU_SIZE - 1) \subseteq 0..(BUF_SIZE - 1)
        BY <1>1, ShareNumbers, MemoryAssumption
      <4>4. QED BY <4>1, <4>2, <4>3
    <3>2. Active(u) => \A k \in Share(u, DPU_SIZE) : DPU_ROW_THIS'[k] = DPU_ROW_THIS[k]
      BY <1>2, <1>8, <3>1
    <3>3. QED BY <1>1, <1>6, <2>2, <3>2, Frame DEF KernelInv
  <2>3. QED BY <2>1, <2>2
<1>11. RestInv'
  <2>1. ASSUME NEW k \in DPU_SIZE..(BUF_SIZE - 1)
        PROVE  k \in 0..(BUF_SIZE - 1) /\ k \notin chunk
    BY <1>1, <1>2, ShareNumbers, MemoryAssumption
  <2>2. QED BY <1>1, <1>8, <2>1 DEF KernelInv, RestInv, Untouched
<1>12. QED BY <1>9, <1>10, <1>11 DEF KernelInv

\* Every step of the program keeps KernelInv: one lemma per action, and a stutter.
LEMMA NextInv == ASSUME WholeSizes, KernelInv, [Next]_vars PROVE KernelInv'
<1>1. CASE \E t \in Tasklets : Tasklet(t)
  BY <1>1, LeaveInv, EnterInv, ReadInv, WriteInv DEF Tasklet
<1>2. CASE UNCHANGED vars
  BY <1>2 DEF vars, KernelInv, TypeOK, PositionInv, CacheInv, ShareInv, RestInv, Working,
              Active, Untouched, Combined
<1>3. QED BY <1>1, <1>2 DEF Next, Finished

\* The cursors, the buffers and the rows of every launch, however the tasklets interleave.
THEOREM Invariance == ASSUME WholeSizes PROVE Spec => []KernelInv
<1>1. Init => KernelInv
  BY InitInv
<1>2. KernelInv /\ [Next]_vars => KernelInv'
  BY NextInv
<1>3. QED BY <1>1, <1>2, PTL DEF Spec

--------------------------------------------------------------------------------
(* What the invariant is for. *)

\* For any memory and rows: the state keeps its types, and a chunk in the cache
\* is one of elements (dpu_add_ctxt.c:73-118).
THEOREM TypeCorrect == ASSUME WholeSizes PROVE Spec => []TypeOK
<1>1. KernelInv => TypeOK
  BY DEF KernelInv
<1>2. QED BY <1>1, Invariance, PTL

\* Whatever the order in which the tasklets are scheduled, no two of them are
\* at work on the same element of the row (dpu_add_ctxt.c:81-92).
THEOREM RaceFree == ASSUME WholeSizes PROVE Spec => []NoRace
<1>1. KernelInv => NoRace
  <2>1. SUFFICES ASSUME KernelInv, NEW t \in Tasklets, NEW u \in Tasklets,
                        t # u, Working(t), Working(u)
                 PROVE  ChunkAt(i[t], DPU_SIZE) \cap ChunkAt(i[u], DPU_SIZE) = {}
    BY DEF NoRace
  <2>2. DPU_SIZE \in Sizes
    BY <2>1 DEF KernelInv, TypeOK
  <2>3. Share(t, DPU_SIZE) \cap Share(u, DPU_SIZE) = {}
    BY <2>1, <2>2, SharesDisjoint
  <2>4. /\ ChunkAt(i[t], DPU_SIZE) \subseteq Share(t, DPU_SIZE)
        /\ ChunkAt(i[u], DPU_SIZE) \subseteq Share(u, DPU_SIZE)
    BY <2>1, WorkingChunk
  <2>5. QED BY <2>3, <2>4
<1>2. QED BY <1>1, Invariance, PTL

\* When the launch returns, every element of the row has been combined exactly
\* once and nothing behind the row has been written (dpu_add_ctxt.c:95-118).
THEOREM Correct == ASSUME WholeSizes PROVE Spec => []ResultCorrect
<1>1. KernelInv => ResultCorrect
  <2>1. SUFFICES ASSUME KernelInv, \A t \in Tasklets : pc[t] = "done"
                 PROVE  DPU_ROW_THIS = ResultRow
    BY DEF ResultCorrect
  <2>2. DPU_SIZE \in Sizes /\ DPU_SIZE \in Nat /\ DPU_ROW_THIS \in [0..(BUF_SIZE - 1) -> Value]
    BY ShareNumbers, <2>1 DEF KernelInv, TypeOK
  <2>3. ASSUME NEW k \in 0..(BUF_SIZE - 1), k < DPU_SIZE
        PROVE  DPU_ROW_THIS[k] = Fun(RowThis[k], RowOther[k])
    <3>1. k \in 0..(DPU_SIZE - 1)
      BY <2>2, <2>3
    <3>2. PICK t \in Tasklets : t < NrTasklets(DPU_SIZE) /\ k \in Share(t, DPU_SIZE)
      BY <2>2, <3>1, SharesCoverRow
    <3>3. ShareInv(t) /\ pc[t] = "done"
      BY <2>1, <3>2 DEF KernelInv, Active
    <3>4. QED BY <3>2, <3>3 DEF ShareInv, Combined
  <2>4. ASSUME NEW k \in 0..(BUF_SIZE - 1), ~(k < DPU_SIZE)
        PROVE  DPU_ROW_THIS[k] = RowThis[k]
    <3>1. k \in DPU_SIZE..(BUF_SIZE - 1)
      BY <2>2, <2>4
    <3>2. QED BY <2>1, <3>1 DEF KernelInv, RestInv, Untouched
  <2>5. QED BY <2>2, <2>3, <2>4 DEF ResultRow
<1>2. QED BY <1>1, Invariance, PTL

\* Every step of the kernel is a step of the abstract element-wise method or
\* changes nothing that method has (dpu_add_ctxt.c:73-118).
THEOREM Implements == ASSUME WholeSizes PROVE Spec => ImplementsElementwise
<1>1. Init => Op!Init
  <2>1. SUFFICES ASSUME Init PROVE DOMAIN RowThis = DOMAIN ResultRow /\ DPU_ROW_THIS = RowThis
    BY DEF Op!Init
  <2>2. QED BY <2>1, RowsAssumption DEF Init, ResultRow
<1>2. KernelInv /\ [Next]_vars => [Op!Replace]_(Op!vars)
  <2>1. SUFFICES ASSUME KernelInv, [Next]_vars PROVE [Op!Replace]_(Op!vars)
    OBVIOUS
  <2>2. ASSUME NEW t \in Tasklets, Write(t)
        PROVE  Op!Replace
    <3>1. Working(t) /\ pc[t] = "write" /\ DPU_SIZE' = DPU_SIZE
      BY <2>2 DEF Write, Working
    <3>2. /\ DPU_ROW_THIS \in [0..(BUF_SIZE - 1) -> Value]
          /\ cache[t] = [k \in ChunkAt(i[t], DPU_SIZE) |-> [this |-> RowThis[k], other |-> RowOther[k]]]
          /\ ChunkAt(i[t], DPU_SIZE) \subseteq 0..(DPU_SIZE - 1)
          /\ Active(t) /\ ShareInv(t) /\ ChunkAt(i[t], DPU_SIZE) \subseteq Share(t, DPU_SIZE)
      BY <2>1, <3>1, WorkingChunk DEF KernelInv, TypeOK, CacheInv
    <3>3. DPU_SIZE \in Sizes /\ DPU_SIZE \in Nat /\ i[t] \in Nat /\ Chunk(DPU_SIZE) \in Nat
      BY <2>1, ShareNumbers DEF KernelInv, TypeOK
    <3>4. ASSUME NEW k \in 0..(BUF_SIZE - 1)
          PROVE  \/ DPU_ROW_THIS'[k] = DPU_ROW_THIS[k]
                 \/ DPU_ROW_THIS[k] = RowThis[k] /\ DPU_ROW_THIS'[k] = ResultRow[k]
      <4>1. CASE k \in ChunkAt(i[t], DPU_SIZE)
        <5>1. k >= i[t] /\ k < DPU_SIZE
          BY <3>2, <3>3, <4>1 DEF ChunkAt
        <5>2. DPU_ROW_THIS[k] = RowThis[k]
          BY <3>1, <3>2, <4>1, <5>1 DEF ShareInv, Untouched
        <5>3. cache[t][k].this = RowThis[k] /\ cache[t][k].other = RowOther[k]
          BY <3>2, <4>1
        <5>4. DPU_ROW_THIS'[k] = Fun(cache[t][k].this, cache[t][k].other)
          BY <2>2, <3>2, <4>1 DEF Write
        <5>5. ResultRow[k] = Fun(RowThis[k], RowOther[k])
          BY <5>1 DEF ResultRow
        <5>6. QED BY <5>2, <5>3, <5>4, <5>5
      <4>2. CASE k \notin ChunkAt(i[t], DPU_SIZE)
        BY <2>2, <3>2, <4>2 DEF Write
      <4>3. QED BY <4>1, <4>2
    <3>5. DOMAIN DPU_ROW_THIS' = DOMAIN DPU_ROW_THIS /\ DOMAIN DPU_ROW_THIS = 0..(BUF_SIZE - 1)
      BY <2>2, <3>2 DEF Write
    <3>6. UNCHANGED ResultRow
      BY <3>1 DEF ResultRow
    <3>7. QED BY <3>4, <3>5, <3>6 DEF Op!Replace
  <2>3. CASE UNCHANGED <<DPU_SIZE, DPU_ROW_THIS>>
    BY <2>3 DEF Op!vars, ResultRow
  <2>4. QED
    BY <2>1, <2>2, <2>3 DEF Next, Tasklet, Leave, Enter, Read, Finished, vars
<1>3. QED BY <1>1, <1>2, Invariance, PTL DEF Spec, ImplementsElementwise, Op!Safety
================================================================================

--------------------------- MODULE CtxtOffloadProofs ---------------------------
(***************************************************************************)
(* Proofs about CtxtOffload.                                               *)
(*                                                                         *)
(* The plan fits the DPUs, for any number of rows and of DPUs: each of the *)
(* two planning loops doubles as long as the double is still allowed, so   *)
(* that its bound holds again after it, and the guard of the second one    *)
(* bounds it from below when it ends.                                      *)
(*                                                                         *)
(* The data: the transfers meet and the method implements Elementwise, for *)
(* as many DPUs as rows and slices of whole chunks.  A slice has a place   *)
(* among the DPUs (Places), an iterator that has passed as many DPUs as    *)
(* the primes before the current one need stands at its row (Iterators),   *)
(* and the invariant DataInv says, transfer by transfer, what the primes   *)
(* already passed have left at their places.                               *)
(***************************************************************************)
EXTENDS CtxtOffload, EqualShares

(***************************************************************************)
(* Arithmetic.                                                             *)
(***************************************************************************)
LEMMA DivPositive ==
  ASSUME NEW x \in Nat, NEW n \in Nat \ {0}
  PROVE  /\ x \div n \in Nat
         /\ n <= x <=> x \div n # 0
         /\ n + n <= x <=> x \div n > 1
<1> DEFINE q == x \div n
<1>1. q \in Int /\ x = n * q + (x % n) /\ x % n \in 0..(n - 1)
  OBVIOUS
<1> HIDE DEF q
<1>2. q >= 0
  <2>1. CASE q <= -1
    <3>1. n * (-1 - q) >= 0
      BY <1>1, <2>1
    <3>2. QED BY <1>1, <3>1
  <2>2. QED BY <1>1, <2>1
<1>3. q # 0 => n <= x
  <2>1. CASE q >= 1
    <3>1. n * (q - 1) >= 0
      BY <1>1, <2>1
    <3>2. QED BY <1>1, <3>1
  <2>2. QED BY <1>1, <1>2, <2>1
<1>4. q > 1 => n + n <= x
  <2>1. CASE q >= 2
    <3>1. n * (q - 2) >= 0
      BY <1>1, <2>1
    <3>2. QED BY <1>1, <3>1
  <2>2. QED BY <1>1, <1>2, <2>1
<1>5. q = 0 => x < n
  BY <1>1
<1>6. q <= 1 => x < n + n
  BY <1>1, <1>2
<1>7. QED BY <1>1, <1>2, <1>3, <1>4, <1>5, <1>6 DEF q

\* The doubled number of DPUs of a row, and the product with the rows.
LEMMA Doubled ==
  ASSUME NEW d \in Nat \ {0}, NEW p \in Nat \ {0}
  PROVE  /\ d * p \in Nat \ {0}
         /\ d <= d * p
         /\ (2 * d) * p = 2 * (d * p)
<1>1. d * (p - 1) >= 0
  OBVIOUS
<1>2. d * p = d + d * (p - 1)
  BY <1>1
<1>3. QED BY <1>1, <1>2

(***************************************************************************)
(* The number of rows.                                                     *)
(***************************************************************************)
LEMMA Loops ==
  ASSUME s \in IndexSets, SomePrimes
  PROVE  loops \in Nat \ {0} /\ loops < UINT32
<1>1. IsFiniteSet(s) /\ s # {} /\ loops < UINT32
  BY InputsAssumption DEF SomePrimes, loops
<1>2. QED BY <1>1, FS_CardinalityType, FS_EmptySet DEF loops

(***************************************************************************)
(* As long as the DPUs of an iteration are not too many, their number does *)
(* not wrap.                                                               *)
(***************************************************************************)
LEMMA NoWrap ==
  ASSUME NEW n \in Nat, n <= NR_DPUS
  PROVE  n % UINT32 = n
BY DpusAssumption

\* A call starts with one iteration for all its rows and the DPUs not yet counted.
LEMMA PlanInit == ASSUME SomePrimes PROVE Init => PlanInv
<1>1. SUFFICES ASSUME Init PROVE PlanInv
  OBVIOUS
<1>2. loops \div 1 = loops /\ loops \in Nat \ {0}
  BY <1>1, Loops DEF Init
<1>3. QED BY <1>1, <1>2 DEF Init, PlanInv, per_iteration_loops, Planned

\* The actions that leave the plan and its inputs alone.
LEMMA PlanKept ==
  ASSUME PlanInv, UNCHANGED <<s, nr_iterations, per_loop_dpus>>,
         pc' \in {"call", "plan_iterations"} => pc \in {"call", "plan_iterations"},
         pc' = "plan_dpus" \/ Planned' => pc = "plan_dpus" \/ Planned,
         Planned' => Planned
  PROVE  PlanInv'
<1>1. per_iteration_loops' = per_iteration_loops
  BY DEF per_iteration_loops, loops
<1>2. QED BY <1>1 DEF PlanInv

\* The choice of the number of iterations leaves whole rows to each of them.
LEMMA PlanIterationsInv ==
  ASSUME SomePrimes, PlanInv, PlanIterations PROVE PlanInv'
<1>1. loops \in Nat \ {0} /\ loops' = loops /\ s' = s /\ per_loop_dpus' = 1 /\ per_loop_dpus = 1
  BY Loops DEF PlanIterations, PlanInv, call, loops
<1>2. CASE per_iteration_loops > NR_DPUS
  <2>1. nr_iterations' = 2 * nr_iterations /\ pc' = "plan_iterations"
    BY <1>2 DEF PlanIterations
  <2>2. loops \div nr_iterations > 1
    BY <1>2, DpusAssumption DEF PlanInv, per_iteration_loops
  <2>3. 2 * nr_iterations <= loops
    BY <1>1, <2>2, DivPositive DEF PlanInv
  <2>4. loops \div (2 * nr_iterations) \in Nat \ {0}
    BY <1>1, <2>3, DivPositive DEF PlanInv
  <2>5. QED BY <1>1, <2>1, <2>4 DEF PlanInv, per_iteration_loops, Planned
<1>3. CASE ~(per_iteration_loops > NR_DPUS)
  <2>1. nr_iterations' = nr_iterations /\ pc' = "plan_dpus"
    BY <1>3 DEF PlanIterations
  <2>2. per_iteration_loops' = per_iteration_loops
    BY <1>1, <2>1 DEF per_iteration_loops
  <2>3. 1 * per_iteration_loops <= NR_DPUS
    BY <1>3, DpusAssumption DEF PlanInv
  <2>4. QED BY <1>1, <2>1, <2>2, <2>3 DEF PlanInv, Planned
<1>4. QED BY <1>2, <1>3

\* The choice of the number of DPUs gives every prime of the iteration as many of them.
LEMMA PlanDpusInv ==
  ASSUME PlanInv, PlanDpus PROVE PlanInv'
<1> DEFINE d == per_loop_dpus
           p == per_iteration_loops
<1>1. /\ d \in Nat \ {0} /\ p \in Nat \ {0} /\ d * p \in Nat \ {0} /\ d <= d * p
      /\ (2 * d) * p = 2 * (d * p) /\ d * p <= NR_DPUS /\ nr_dpus = d * p
  BY Doubled, NoWrap DEF PlanInv, PlanDpus, nr_dpus
<1>2. p' = p /\ s' = s /\ nr_iterations' = nr_iterations
  BY DEF PlanDpus, call, per_iteration_loops, loops
<1>3. CASE nr_dpus <= NR_DPUS \div 2
  <2>1. 2 * (d * p) <= NR_DPUS
    BY <1>1, <1>3, DpusAssumption
  <2>2. (2 * d) % UINT32 = 2 * d
    <3>1. 2 * d \in Nat /\ 2 * d <= NR_DPUS
      BY <1>1, <2>1, DpusAssumption
    <3>2. QED BY <3>1, NoWrap
  <2>3. d' = 2 * d /\ pc' = "plan_dpus"
    BY <1>3, <2>2 DEF PlanDpus
  <2>4. d' \in Nat \ {0} /\ d' * p' <= NR_DPUS
    BY <1>1, <1>2, <2>1, <2>3
  <2>5. QED BY <1>2, <2>3, <2>4 DEF PlanInv, Planned
<1>4. CASE ~(nr_dpus <= NR_DPUS \div 2)
  <2>1. d' = d /\ pc' = "alloc"
    BY <1>4 DEF PlanDpus
  <2>2. d * p > NR_DPUS \div 2
    BY <1>1, <1>4, DpusAssumption
  <2>3. QED BY <1>1, <1>2, <2>1, <2>2 DEF PlanInv, Planned
<1>5. QED BY <1>3, <1>4

\* No later step of the method disturbs the plan.
LEMMA PlanStep == ASSUME SomePrimes PROVE PlanInv /\ [Next]_vars => PlanInv'
<1>1. SUFFICES ASSUME PlanInv, [Next]_vars PROVE PlanInv'
  OBVIOUS
<1>2. ASSUME NEW c \in BOOLEAN, NEW m \in BOOLEAN, DryRun \/ Reject(c, m) \/ Call(c, m)
      PROVE  PlanInv'
  BY <1>1, <1>2, PlanKept DEF DryRun, Reject, Call, call, plan, Planned
<1>3. CASE PlanIterations
  BY <1>1, <1>3, PlanIterationsInv
<1>4. CASE PlanDpus
  BY <1>1, <1>4, PlanDpusInv
<1>5. CASE Alloc
  BY <1>1, <1>5, PlanKept DEF Alloc, call, plan, Planned
<1>6. CASE SendThis
  BY <1>1, <1>6, PlanKept DEF SendThis, call, plan, Planned
<1>7. CASE SendOther
  BY <1>1, <1>7, PlanKept DEF SendOther, call, plan, Planned
<1>8. CASE SendPi
  BY <1>1, <1>8, PlanKept DEF SendPi, call, plan, Planned
<1>9. CASE Launch
  BY <1>1, <1>9, PlanKept DEF Launch, call, plan, Planned
<1>10. ASSUME NEW d \in running, RunDpu(d) PROVE PlanInv'
  BY <1>1, <1>10, PlanKept DEF RunDpu, call, plan, Planned
<1>11. CASE Return
  BY <1>1, <1>11, PlanKept DEF Return, call, plan, Planned
<1>12. CASE ReadRow
  BY <1>1, <1>12, PlanKept DEF ReadRow, call, plan, Planned
<1>13. CASE UNCHANGED vars
  BY <1>1, <1>13, PlanKept DEF vars, call, plan, Planned
<1>14. QED
  BY <1>1, <1>2, <1>3, <1>4, <1>5, <1>6, <1>7, <1>8, <1>9, <1>10, <1>11, <1>12, <1>13
     DEF Next, Host, Stopped

\* Between the loops of the plan no iteration is without a row and no row of an
\* iteration without a DPU (helib_double_crt_dpu.cpp:41-61).
THEOREM PlanInvariance == ASSUME SomePrimes PROVE Spec => []PlanInv
<1>1. QED BY PlanInit, PlanStep, PTL DEF Spec

(***************************************************************************)
(* dpu_alloc is asked for more than half of NR_DPUS and for no more than   *)
(* NR_DPUS, whatever the number of rows: also when there are more rows     *)
(* than DPUs, and when NR_DPUS is no power of two.                         *)
(***************************************************************************)
THEOREM PlanAlwaysFits == ASSUME SomePrimes PROVE Spec => []PlanFits
<1>1. PlanInv => PlanFits
  <2>1. SUFFICES ASSUME PlanInv, Planned PROVE nr_dpus \in (NR_DPUS \div 2 + 1)..NR_DPUS
    BY DEF PlanFits
  <2>2. per_loop_dpus * per_iteration_loops \in Nat
    BY <2>1, Doubled DEF PlanInv
  <2>3. nr_dpus = per_loop_dpus * per_iteration_loops
    BY <2>1, <2>2, NoWrap DEF PlanInv, nr_dpus
  <2>4. QED BY <2>1, <2>2, <2>3, DpusAssumption DEF PlanInv
<1>2. QED BY <1>1, PlanInvariance, PTL

--------------------------------------------------------------------------------
(***************************************************************************)
(* What the rows go through, when no polynomial has more rows than there   *)
(* are DPUs and every number of DPUs a row may get cuts it into slices     *)
(* that a DPU divides into whole chunks.  Both are needed: the runs        *)
(* ctxt_many_rows and ctxt_other_degrees show what happens without them.   *)
(***************************************************************************)
FewRows == \A primes \in IndexSets : Cardinality(primes) <= NR_DPUS
WholeSlices ==
  \A n \in PhiMs, primes \in IndexSets, e \in Nat :
    2^e * Cardinality(primes) <= NR_DPUS => n % 2^e = 0 /\ WholeChunks(n \div 2^e)

\* Then there is one iteration, and the DPUs of a row are a power of two.
OneIteration ==
  /\ phim \in PhiMs
  /\ nr_iterations = 1
  /\ \E e \in Nat : per_loop_dpus = 2^e

\* A call starts from one iteration and one DPU per row.
LEMMA OneIterationInit == Init => OneIteration
<1>1. 1 = 2^0 /\ 0 \in Nat
  OBVIOUS
<1>2. QED BY <1>1 DEF Init, OneIteration

\* When the rows all fit in the DPUs at once, the method makes one iteration.
LEMMA OneIterationStep ==
  ASSUME SomePrimes, FewRows, PlanInv, OneIteration, [Next]_vars
  PROVE  OneIteration'
<1>1. ASSUME UNCHANGED <<phim, nr_iterations, per_loop_dpus>> PROVE OneIteration'
  BY <1>1 DEF OneIteration
<1>2. CASE PlanIterations
  <2>1. loops \in Nat \ {0} /\ loops <= NR_DPUS
    BY Loops DEF PlanInv, FewRows, loops
  <2>2. ~(per_iteration_loops > NR_DPUS)
    BY <2>1, DpusAssumption DEF OneIteration, per_iteration_loops
  <2>3. QED BY <1>1, <1>2, <2>2 DEF PlanIterations, call
<1>3. CASE PlanDpus
  <2>1. CASE per_loop_dpus' = per_loop_dpus
    BY <1>1, <1>3, <2>1 DEF PlanDpus, call
  <2>2. CASE per_loop_dpus' # per_loop_dpus
    <3>1. PICK e \in Nat : per_loop_dpus = 2^e
      BY DEF OneIteration
    <3>2. PlanInv'
      BY <1>3, PlanDpusInv
    <3>3. nr_dpus <= NR_DPUS \div 2 /\ per_loop_dpus' = (2 * per_loop_dpus) % UINT32
      BY <1>3, <2>2 DEF PlanDpus
    <3>4. (2 * per_loop_dpus) % UINT32 = 2 * per_loop_dpus
      <4> DEFINE d == per_loop_dpus
                 p == per_iteration_loops
      <4>1. /\ d \in Nat \ {0} /\ p \in Nat \ {0} /\ d * p \in Nat \ {0} /\ d <= d * p
            /\ d * p <= NR_DPUS /\ nr_dpus = d * p
        BY <1>3, Doubled, NoWrap DEF PlanInv, PlanDpus, nr_dpus
      <4>2. 2 * d \in Nat /\ 2 * d <= NR_DPUS
        BY <3>3, <4>1, DpusAssumption
      <4>3. QED BY <4>2, NoWrap
    <3>5. per_loop_dpus' = 2^(e + 1) /\ e + 1 \in Nat
      BY <3>1, <3>3, <3>4, PowerDoubles
    <3>6. QED BY <1>3, <3>5 DEF OneIteration, PlanDpus, call
  <2>3. QED BY <2>1, <2>2
<1>4. CASE UNCHANGED vars
  BY <1>1, <1>4 DEF vars, call, plan
<1>5. QED
  BY <1>1, <1>2, <1>3, <1>4
     DEF Next, Host, Stopped, DryRun, Reject, Call, Alloc, SendThis, SendOther, SendPi,
         Launch, RunDpu, Return, ReadRow, call, plan

--------------------------------------------------------------------------------
(***************************************************************************)
(* The places of the slices.                                               *)
(***************************************************************************)
Slices == 0..(per_loop_dpus - 1)
Before(i) == {h \in s : h < i}
Rank(i) == Cardinality(Before(i))

\* What the plan says of the DPUs once it is made: their number, their share of a row, and that
\* the shares make up the row.
LEMMA Geometry ==
  ASSUME SomePrimes, FewRows, WholeSlices, PlanInv, OneIteration, Planned
  PROVE  /\ per_loop_dpus \in Nat \ {0} /\ loops \in Nat \ {0}
         /\ nr_dpus = per_loop_dpus * loops
         /\ per_dpu_size \in Nat \ {0} /\ phim = per_loop_dpus * per_dpu_size
         /\ WholeChunks(per_dpu_size)
<1> DEFINE p == per_loop_dpus
           q == per_dpu_size
<1>1. /\ p \in Nat \ {0} /\ loops \in Nat \ {0} /\ p * loops <= NR_DPUS /\ phim \in Nat \ {0}
      /\ per_iteration_loops = loops
  <2>1. loops \in Nat \ {0}
    BY Loops DEF PlanInv
  <2>2. per_iteration_loops = loops
    BY <2>1 DEF OneIteration, per_iteration_loops
  <2>3. QED BY <2>1, <2>2, InputsAssumption DEF PlanInv, OneIteration
<1>2. p * loops \in Nat
  BY <1>1
<1>3. nr_dpus = p * loops
  BY <1>1, <1>2, NoWrap DEF nr_dpus
<1>4. phim % p = 0 /\ WholeChunks(phim \div p)
  BY <1>1 DEF WholeSlices, OneIteration, PlanInv, loops
<1>5. q \in Int /\ phim = p * q
  BY <1>1, <1>4, DivMod DEF per_dpu_size
<1> HIDE DEF q
<1>6. q > 0
  <2>1. CASE q <= 0
    <3>1. p * (0 - q) >= 0
      BY <1>1, <1>5, <2>1
    <3>2. p * (0 - q) = 0 - p * q
      BY <1>1, <1>5
    <3>3. QED BY <1>1, <1>5, <3>1, <3>2
  <2>2. QED BY <1>5, <2>1
<1>7. QED BY <1>1, <1>3, <1>4, <1>5, <1>6 DEF q, per_dpu_size

\* The primes in their order.
LEMMA Ranks ==
  ASSUME SomePrimes, PlanInv
  PROVE  /\ \A i \in s : Rank(i) \in 0..(loops - 1)
         /\ \A h, i \in s : h < i => Rank(h) < Rank(i)
         /\ \A m \in 0..(loops - 1) : \E i \in s : Rank(i) = m
<1>1. IsFiniteSet(s) /\ s \subseteq Nat /\ loops \in Nat \ {0}
  BY InputsAssumption, Loops DEF PlanInv
<1>2. ASSUME NEW i \in s
      PROVE  IsFiniteSet(Before(i)) /\ Rank(i) \in Nat /\ Rank(i) < loops
  <2>1. Before(i) \in SUBSET s /\ Before(i) # s
    BY <1>1, <1>2 DEF Before
  <2>2. QED BY <1>1, <2>1, FS_Subset, FS_CardinalityType DEF Rank, loops
<1>3. ASSUME NEW h \in s, NEW i \in s, h < i PROVE Rank(h) < Rank(i)
  <2>1. Before(h) \in SUBSET Before(i)
    <3>1. ASSUME NEW x \in Before(h) PROVE x \in Before(i)
      <4>1. x \in s /\ x < h /\ x \in Nat /\ h \in Nat /\ i \in Nat
        BY <1>1 DEF Before
      <4>2. QED BY <1>3, <4>1 DEF Before
    <3>2. QED BY <3>1
  <2>2. h \in Before(i) /\ h \notin Before(h)
    BY <1>1, <1>3 DEF Before
  <2>3. QED BY <1>2, <2>1, <2>2, FS_Subset DEF Rank
<1>4. \A i \in s : Rank(i) \in 0..(loops - 1)
  BY <1>1, <1>2
<1>5. ASSUME NEW m \in 0..(loops - 1) PROVE \E i \in s : Rank(i) = m
  <2> DEFINE f == [i \in s |-> Rank(i)]
             T == 0..(loops - 1)
  <2>1. f \in [s -> T]
    BY <1>4
  <2>2. ASSUME NEW h \in s, NEW i \in s, f[h] = f[i] PROVE h = i
    <3>1. h \in Nat /\ i \in Nat /\ Rank(h) = Rank(i)
      BY <1>1, <2>2
    <3>2. ~(h < i) /\ ~(i < h)
      BY <1>2, <1>3, <3>1
    <3>3. QED BY <3>1, <3>2
  <2>3. IsFiniteSet(T) /\ Cardinality(T) = loops
    BY <1>1, FS_Interval
  <2> HIDE DEF f, T
  <2>4. f \in Injection(s, T)
    BY <2>1, <2>2 DEF Injection, IsInjective
  <2>5. f \in Surjection(s, T)
    BY <2>3, <2>4, FS_Injection DEF loops
  <2>6. \E i \in s : f[i] = m
    BY <2>5, <1>5 DEF Surjection, T
  <2>7. QED BY <2>6 DEF f
<1>6. QED BY <1>3, <1>4, <1>5

\* Each DPU of the set is the place of one slice of one row, and of no other.
LEMMA Places ==
  ASSUME SomePrimes, FewRows, WholeSlices, PlanInv, OneIteration, Planned
  PROVE  /\ \A i \in s, j \in Slices :
              /\ Rank(i) \in Nat
              /\ Place(i, j) = per_loop_dpus * Rank(i) + j /\ Place(i, j) \in Dpus
         /\ \A h, i \in s, k, j \in Slices : Place(h, k) = Place(i, j) => h = i /\ k = j
         /\ \A d \in Dpus : \E i \in s, j \in Slices : d = Place(i, j)
<1> DEFINE p == per_loop_dpus
<1>1. p \in Nat \ {0} /\ loops \in Nat \ {0} /\ nr_dpus = p * loops /\ s \subseteq Nat
  BY Geometry, InputsAssumption DEF PlanInv
<1>2. ASSUME NEW i \in s, NEW j \in Slices
      PROVE  /\ Rank(i) \in Nat /\ j \in 0..(p - 1)
             /\ Place(i, j) = p * Rank(i) + j /\ Place(i, j) \in Dpus
  <2>1. Rank(i) \in Nat /\ Rank(i) < loops /\ j \in 0..(p - 1)
    BY <1>1, Ranks DEF Slices
  <2>2. Place(i, j) = Rank(i) * p + j
    BY DEF Place, Rank, Before
  <2>3. Rank(i) * p + p <= loops * p
    BY <1>1, <2>1, SharesApart
  <2>4. Place(i, j) = p * Rank(i) + j /\ p * Rank(i) \in Nat
    BY <1>1, <2>1, <2>2
  <2>5. QED BY <1>1, <2>1, <2>2, <2>3, <2>4 DEF Dpus
<1>3. ASSUME NEW h \in s, NEW i \in s, NEW k \in Slices, NEW j \in Slices, Place(h, k) = Place(i, j)
      PROVE  h = i /\ k = j
  <2>1. Rank(h) = Rank(i) /\ k = j
    <3>1. /\ Rank(h) \in Nat /\ k \in 0..(p - 1) /\ Rank(i) \in Nat /\ j \in 0..(p - 1)
          /\ p * Rank(h) + k = p * Rank(i) + j
      BY <1>2, <1>3
    <3> HIDE DEF p
    <3>2. /\ (p * Rank(h) + k) \div p = Rank(h) /\ (p * Rank(h) + k) % p = k
          /\ (p * Rank(i) + j) \div p = Rank(i) /\ (p * Rank(i) + j) % p = j
      BY <1>1, <3>1, PlaceInShare
    <3>3. QED BY <3>1, <3>2
  <2>2. ~(h < i) /\ ~(i < h)
    BY <1>2, <2>1, Ranks
  <2>3. QED BY <1>1, <2>1, <2>2
<1>4. ASSUME NEW d \in Dpus PROVE \E i \in s, j \in Slices : d = Place(i, j)
  <2>1. d \in Nat /\ d < loops * p
    BY <1>1 DEF Dpus
  <2>2. PICK m \in 0..(loops - 1) : m * p <= d /\ d < m * p + p
    BY <1>1, <2>1, SharesCover
  <2>3. PICK i \in s : Rank(i) = m
    BY Ranks
  <2>4. m * p = p * m /\ m * p \in Nat
    BY <1>1
  <2>5. d - m * p \in Slices
    BY <1>1, <2>1, <2>2, <2>4 DEF Slices
  <2>6. d = Place(i, d - m * p)
    BY <1>2, <2>1, <2>3, <2>4, <2>5
  <2>7. QED BY <2>5, <2>6
<1>5. QED BY <1>2, <1>3, <1>4

--------------------------------------------------------------------------------
(***************************************************************************)
(* The loops over the primes and their iterators.                          *)
(***************************************************************************)
Cursor ==
  /\ left \subseteq s /\ left # {}
  /\ \A a \in s \ left, b \in left : a < b
Passed == Cardinality(s \ left)

\* The cursor stands at the prime whose rank is the number of the primes it has passed.
LEMMA CurrentPrime ==
  ASSUME SomePrimes, PlanInv, Cursor
  PROVE  Current \in left /\ Before(Current) = s \ left /\ Passed = Rank(Current)
<1>1. left \in SUBSET Nat /\ left # {} /\ left \subseteq s
  BY InputsAssumption DEF Cursor, PlanInv
<1>2. \E x \in left : \A y \in left : x <= y
  BY <1>1, Least
<1>3. Current \in left /\ \A y \in left : Current <= y
  BY <1>2 DEF Current
<1> DEFINE c == Current
<1> HIDE DEF c
<1>4. c \in left /\ \A y \in left : c <= y
  BY <1>3 DEF c
<1>5. \A h \in s : h < c <=> h \notin left
  BY <1>1, <1>4 DEF Cursor
<1>6. Before(c) = s \ left
  BY <1>5 DEF Before
<1>7. QED BY <1>3, <1>6 DEF c, Passed, Rank

\* A loop begins with no prime passed.
LEMMA CursorBegins ==
  ASSUME SomePrimes, PlanInv, left' = s, s' = s
  PROVE  Cursor' /\ Passed' = 0
<1>1. s \ s = {} /\ s # {}
  BY DEF SomePrimes, PlanInv
<1>2. QED BY <1>1, FS_EmptySet DEF Cursor, Passed

\* A loop goes on with the next prime.
LEMMA CursorMoves ==
  ASSUME SomePrimes, PlanInv, Cursor, left' = left \ {Current}, s' = s
  PROVE  /\ Passed \in Nat /\ Passed' = Passed + 1
         /\ s \ left' = (s \ left) \cup {Current}
         /\ left # {Current} => Cursor'
         /\ left = {Current} => Passed' = loops
<1>1. Current \in left /\ left \subseteq s /\ IsFiniteSet(s) /\ s \subseteq Nat
  BY CurrentPrime, InputsAssumption DEF Cursor, PlanInv
<1> DEFINE c == Current
           passed == s \ left
<1>2. \A y \in left : y # c => c < y
  BY <1>1, CurrentPrime DEF Before
<1> HIDE DEF c
<1>3. IsFiniteSet(passed) /\ Passed \in Nat /\ c \notin passed /\ s \ left' = passed \cup {c}
  <2>1. IsFiniteSet(passed)
    BY <1>1, FS_Subset
  <2>2. QED BY <1>1, <2>1, FS_CardinalityType DEF c, Passed
<1>4. Passed' = Passed + 1
  BY <1>3, FS_AddElement DEF Passed
<1>5. left # {Current} => Cursor'
  <2>1. SUFFICES ASSUME left # {c} PROVE Cursor'
    BY DEF c
  <2>2. left' # {} /\ left' \subseteq s
    BY <1>1, <2>1 DEF c
  <2>3. ASSUME NEW a \in s \ left', NEW b \in left' PROVE a < b
    BY <1>1, <1>2, <1>3, <2>3 DEF Cursor, c
  <2>4. QED BY <2>2, <2>3 DEF Cursor
<1>6. left = {Current} => Passed' = loops
  <2>1. left = {Current} => s \ left' = s
    BY <1>1
  <2>2. QED BY <2>1 DEF Passed, loops
<1>7. QED BY <1>3, <1>4, <1>5, <1>6 DEF c

(***************************************************************************)
(* An iterator that has passed the DPUs of the primes before the current   *)
(* one stands at the first DPU of its row; the transfer is for that row.   *)
(***************************************************************************)
LEMMA Iterators ==
  ASSUME SomePrimes, FewRows, WholeSlices, PlanInv, OneIteration, Planned, Cursor,
         NEW it, it = per_loop_dpus * Passed
  PROVE  /\ Moved(it) = per_loop_dpus * (Passed + 1)
         /\ \A i \in s, j \in Slices :
              /\ Prepared(Place(i, j), it) <=> i = Current
              /\ i = Current => SliceFor(Place(i, j), it) = j
<1> DEFINE p == per_loop_dpus
           c == Current
<1>1. p \in Nat \ {0} /\ loops \in Nat \ {0} /\ nr_dpus = p * loops /\ c \in s /\ Passed = Rank(c)
  BY Geometry, CurrentPrime DEF Cursor
<1>2. Passed \in Nat /\ Passed < loops
  BY <1>1, Ranks
<1>3. Moved(it) = p * (Passed + 1)
  <2> HIDE DEF p
  <2>1. p * (Passed + 1) = p * Passed + p /\ p * Passed \in Nat /\ p * loops \in Nat
    BY <1>1, <1>2
  <2>2. CASE Passed + 1 = loops
    BY <1>1, <1>2, <2>1, <2>2 DEF Moved, p
  <2>3. CASE Passed + 1 < loops
    <3>1. (Passed + 1) * p + p <= loops * p
      BY <1>1, <1>2, <2>3, SharesApart
    <3>2. p * (Passed + 1) < p * loops
      BY <1>1, <1>2, <3>1
    <3>3. QED BY <1>1, <2>1, <3>2 DEF Moved, p
  <2>4. QED BY <1>1, <1>2, <2>2, <2>3
<1>4. ASSUME NEW k \in Slices PROVE DpuAt(it + k) = Place(c, k)
  <2>1. Place(c, k) = it + k /\ Place(c, k) \in Dpus
    BY <1>1, Places
  <2>2. QED BY <1>1, <2>1 DEF DpuAt, Dpus
<1>5. ASSUME NEW i \in s, NEW j \in Slices
      PROVE  /\ Prepared(Place(i, j), it) <=> i = Current
             /\ i = Current => SliceFor(Place(i, j), it) = j
  <2>1. SlicesFor(Place(i, j), it) = {k \in Slices : Place(c, k) = Place(i, j)}
    BY <1>4 DEF SlicesFor, Slices
  <2>2. CASE i = c
    <3>1. SlicesFor(Place(i, j), it) = {j}
      BY <1>1, <2>1, <2>2, Places
    <3>2. SliceFor(Place(i, j), it) = CHOOSE k \in {j} : \A l \in {j} : l <= k
      BY <3>1 DEF SliceFor
    <3>3. j <= j
      BY DEF Slices
    <3>4. QED BY <2>2, <3>1, <3>2, <3>3 DEF Prepared
  <2>3. CASE i # c
    <3>1. SlicesFor(Place(i, j), it) = {}
      BY <1>1, <2>1, <2>3, Places
    <3>2. QED BY <2>3, <3>1 DEF Prepared
  <2>4. QED BY <2>2, <2>3
<1>6. QED BY <1>3, <1>5

--------------------------------------------------------------------------------
(***************************************************************************)
(* The data.  What has been sent for a prime, and what comes back for it.  *)
(***************************************************************************)
Fields == {"this", "other", "pi", "size"}
Layout == DOMAIN mram = Dpus /\ \A d \in Dpus : DOMAIN mram[d] = Fields

SentThis(i) == \A j \in Slices : mram[Place(i, j)].this = Slice(RowThis(i), j)
SentOther(i) == \A j \in Slices : mram[Place(i, j)].other = Slice(RowOther(i), j)
SentPi(i) == \A j \in Slices : mram[Place(i, j)].pi = i
Computed(i, j) == mram[Place(i, j)].this = Slice(NewRows[i], j)

(***************************************************************************)
(* Where the iterators of a transfer stand when so many primes have been   *)
(* passed, and what the transfers of these primes have left on the DPUs.   *)
(***************************************************************************)
Stands(it) == it = per_loop_dpus * Passed

SendingThis ==
  /\ Layout /\ Cursor /\ Stands(it_0) /\ Stands(it_1)
  /\ \A i \in s \ left : SentThis(i) /\ SentOther(i)

SendingOther ==
  /\ Layout /\ Cursor /\ it_0 = per_loop_dpus * (Passed + 1) /\ Stands(it_1)
  /\ \A i \in s \ left : SentThis(i) /\ SentOther(i)
  /\ SentThis(Current)

SendingPi ==
  /\ Layout /\ Cursor /\ Stands(it_0)
  /\ \A i \in s : SentThis(i) /\ SentOther(i)
  /\ \A i \in s \ left : SentPi(i)

AllSent ==
  /\ Layout
  /\ \A i \in s : SentThis(i) /\ SentOther(i) /\ SentPi(i)

Running ==
  /\ Layout /\ running \subseteq Dpus
  /\ \A i \in s, j \in Slices :
       IF Place(i, j) \in running THEN Holds(Place(i, j), i, j) ELSE Computed(i, j)

Reading ==
  /\ Layout /\ Cursor /\ Stands(it_0)
  /\ \A i \in s, j \in Slices : Computed(i, j)
  /\ rows = [i \in s |-> IF i \in left THEN RowThis(i) ELSE NewRows[i]]

DataInv ==
  /\ pc # "wait" => running = {}
  /\ pc \notin {"read", "done"} => rows = OldRows
  /\ pc = "send_this" => SendingThis
  /\ pc = "send_other" => SendingOther
  /\ pc = "send_pi" => SendingPi
  /\ pc = "launch" => AllSent
  /\ pc = "wait" => Running
  /\ pc = "read" => Reading
  /\ pc = "done" => rows = NewRows

\* At the call no DPU holds anything and the rows are those of the caller.
LEMMA DataInit == Init => DataInv
BY DEF Init, DataInv, OldRows

\* The geometry does not change once it is planned.
SameGeometry == UNCHANGED <<s, phim, nr_iterations, per_loop_dpus>>

\* While the plan and the rows of the caller stay as they are, so does all that is computed from
\* them.
LEMMA Frame ==
  ASSUME SameGeometry
  PROVE  /\ Slices' = Slices /\ nr_dpus' = nr_dpus /\ Dpus' = Dpus /\ per_dpu_size' = per_dpu_size
         /\ OldRows' = OldRows /\ NewRows' = NewRows
         /\ \A i : RowThis(i)' = RowThis(i) /\ RowOther(i)' = RowOther(i)
         /\ \A i, j : Place(i, j)' = Place(i, j)
         /\ \A row, j : Slice(row, j)' = Slice(row, j)
<1>1. s' = s /\ phim' = phim /\ nr_iterations' = nr_iterations /\ per_loop_dpus' = per_loop_dpus
  BY DEF SameGeometry
<1>2. /\ Slices' = Slices /\ nr_dpus' = nr_dpus /\ Dpus' = Dpus /\ per_dpu_size' = per_dpu_size
  BY <1>1 DEF Slices, Dpus, nr_dpus, per_iteration_loops, loops, per_dpu_size
<1>3. OldRows' = OldRows /\ NewRows' = NewRows
  BY <1>1 DEF OldRows, NewRows, RowThis
<1>4. \A i : RowThis(i)' = RowThis(i) /\ RowOther(i)' = RowOther(i)
  BY <1>1 DEF RowThis, RowOther
<1>5. \A i, j : Place(i, j)' = Place(i, j)
  BY <1>1 DEF Place
<1>6. \A row, j : Slice(row, j)' = Slice(row, j)
  BY <1>2 DEF Slice
<1>7. QED BY <1>2, <1>3, <1>4, <1>5, <1>6

(***************************************************************************)
(* The actions before the transfers.                                       *)
(***************************************************************************)
LEMMA PlanningData ==
  ASSUME DataInv, UNCHANGED <<s, phim, rows, running>>,
         pc \in {"call", "plan_iterations", "plan_dpus"},
         pc' \in {"dry_run", "rejected", "plan_iterations", "plan_dpus", "alloc"}
  PROVE  DataInv'
<1>1. OldRows' = OldRows
  BY DEF OldRows, RowThis
<1>2. QED BY <1>1 DEF DataInv

\* The allocation of the DPUs keeps DataInv: their memory holds nothing yet.
LEMMA AllocData ==
  ASSUME SomePrimes, FewRows, WholeSlices, PlanInv, OneIteration, DataInv, Alloc
  PROVE  DataInv'
<1>1. SameGeometry /\ Planned /\ pc = "alloc" /\ UNCHANGED <<rows, running>>
  BY DEF Alloc, call, plan, SameGeometry, Planned
<1>2. OldRows' = OldRows /\ rows = OldRows /\ running = {} /\ Dpus' = Dpus
  BY <1>1, Frame DEF DataInv
<1>3. CASE pc' = "send_this"
  <2>1. Cursor' /\ Passed' = 0
    BY CursorBegins DEF Alloc, call
  <2>2. Stands(it_0)' /\ Stands(it_1)'
    <3>1. per_loop_dpus' = per_loop_dpus /\ per_loop_dpus \in Nat
      BY DEF Alloc, plan, PlanInv
    <3>2. QED BY <2>1, <3>1 DEF Alloc, Stands
  <2>3. Layout'
    BY <1>2, <1>3 DEF Alloc, Layout, Fields
  <2>4. s' \ left' = {}
    BY DEF Alloc, call
  <2>5. SendingThis'
    BY <2>1, <2>2, <2>3, <2>4 DEF SendingThis
  <2>6. QED BY <1>1, <1>2, <1>3, <2>5 DEF DataInv
<1>4. CASE pc' \in {"fault", "abort"}
  BY <1>1, <1>2, <1>4 DEF DataInv
<1>5. QED BY <1>3, <1>4 DEF Alloc

(***************************************************************************)
(* The transfers.                                                          *)
(***************************************************************************)
LEMMA SendThisData ==
  ASSUME SomePrimes, FewRows, WholeSlices, PlanInv, OneIteration, DataInv, SendThis
  PROVE  DataInv'
<1>1. /\ SameGeometry /\ Planned /\ pc = "send_this" /\ pc' = "send_other"
      /\ UNCHANGED <<rows, running, left, it_1>>
  BY DEF SendThis, call, plan, SameGeometry, Planned
<1>2. rows = OldRows /\ running = {} /\ SendingThis
  BY <1>1 DEF DataInv
<1>3. Cursor' /\ Current' = Current /\ Passed' = Passed
  BY <1>1, <1>2 DEF SendingThis, Cursor, Current, Passed, SameGeometry
<1>4. Current \in s /\ Current \notin s \ left /\ rows[Current] = RowThis(Current)
  BY <1>2, CurrentPrime DEF SendingThis, Cursor, OldRows
<1>5. ASSUME NEW i \in s, NEW j \in Slices
      PROVE  mram'[Place(i, j)] =
               IF i = Current
               THEN [mram[Place(i, j)] EXCEPT !.this = Slice(RowThis(i), j)]
               ELSE mram[Place(i, j)]
  <2>1. /\ Place(i, j) \in Dpus /\ (Prepared(Place(i, j), it_0) <=> i = Current)
        /\ (i = Current => SliceFor(Place(i, j), it_0) = j)
    BY <1>1, <1>2, Places, Iterators DEF SendingThis, Stands
  <2>2. QED BY <1>4, <2>1 DEF SendThis
<1>6. Layout'
  <2>1. Dpus' = Dpus
    BY <1>1, Frame
  <2>2. QED BY <1>2, <2>1 DEF SendingThis, Layout, SendThis
<1>7. ASSUME NEW i \in s, i = Current \/ i \notin left PROVE SentThis(i)'
  <2>1. \A j \in Slices : mram'[Place(i, j)].this = Slice(RowThis(i), j)
    <3>1. SUFFICES ASSUME NEW j \in Slices PROVE mram'[Place(i, j)].this = Slice(RowThis(i), j)
      OBVIOUS
    <3>2. CASE i = Current
      <4>1. DOMAIN mram[Place(i, j)] = Fields
        BY <1>1, <1>2, Places DEF SendingThis, Layout
      <4>2. QED BY <1>5, <3>2, <4>1 DEF Fields
    <3>3. CASE i # Current
      BY <1>2, <1>5, <1>7, <3>3 DEF SendingThis, SentThis
    <3>4. QED BY <3>2, <3>3
  <2>2. QED BY <1>1, <2>1, Frame DEF SentThis
<1>8. ASSUME NEW i \in s \ left PROVE SentOther(i)'
  <2>1. \A j \in Slices : mram'[Place(i, j)].other = Slice(RowOther(i), j)
    BY <1>2, <1>4, <1>5 DEF SendingThis, SentOther
  <2>2. QED BY <1>1, <2>1, Frame DEF SentOther
<1>9. it_0' = per_loop_dpus' * (Passed' + 1) /\ Stands(it_1)'
  <2>1. Moved(it_0) = per_loop_dpus * (Passed + 1)
    BY <1>1, <1>2, Iterators DEF SendingThis, Stands
  <2>2. QED BY <1>1, <1>2, <1>3, <2>1 DEF SendThis, SendingThis, Stands, SameGeometry
<1>10. SentThis(Current)'
  BY <1>3, <1>4, <1>7
<1>11. SendingOther'
  BY <1>1, <1>3, <1>6, <1>7, <1>8, <1>9, <1>10 DEF SendingOther, SameGeometry
<1>12. QED BY <1>1, <1>2, <1>11, Frame DEF DataInv

\* The transfer of one row of the other operand keeps DataInv: each slice arrives at its place.
LEMMA SendOtherData ==
  ASSUME SomePrimes, FewRows, WholeSlices, PlanInv, OneIteration, DataInv, SendOther
  PROVE  DataInv'
<1>1. /\ SameGeometry /\ Planned /\ pc = "send_other" /\ pc' \in {"send_this", "send_pi"}
      /\ UNCHANGED <<rows, running>>
  BY DEF SendOther, call, plan, SameGeometry, Planned
<1>2. rows = OldRows /\ running = {} /\ SendingOther
  BY <1>1 DEF DataInv
<1>3. Current \in s /\ Current \notin s \ left
  BY <1>2, CurrentPrime DEF SendingOther, Cursor
<1>4. ASSUME NEW i \in s, NEW j \in Slices
      PROVE  mram'[Place(i, j)] =
               IF i = Current
               THEN [mram[Place(i, j)] EXCEPT !.other = Slice(RowOther(i), j)]
               ELSE mram[Place(i, j)]
  <2>1. /\ Place(i, j) \in Dpus /\ (Prepared(Place(i, j), it_1) <=> i = Current)
        /\ (i = Current => SliceFor(Place(i, j), it_1) = j)
    BY <1>1, <1>2, Places, Iterators DEF SendingOther, Stands
  <2>2. QED BY <1>3, <2>1 DEF SendOther
<1>5. Layout'
  <2>1. Dpus' = Dpus
    BY <1>1, Frame
  <2>2. QED BY <1>2, <2>1 DEF SendingOther, Layout, SendOther
<1>6. ASSUME NEW i \in s, i = Current \/ i \notin left PROVE SentThis(i)' /\ SentOther(i)'
  <2>1. ASSUME NEW j \in Slices
        PROVE  /\ mram'[Place(i, j)].this = Slice(RowThis(i), j)
               /\ mram'[Place(i, j)].other = Slice(RowOther(i), j)
    <3>1. DOMAIN mram[Place(i, j)] = Fields
      BY <1>1, <1>2, Places DEF SendingOther, Layout
    <3>2. mram[Place(i, j)].this = Slice(RowThis(i), j)
      BY <1>2, <1>6 DEF SendingOther, SentThis
    <3>3. CASE i = Current
      BY <1>4, <3>1, <3>2, <3>3 DEF Fields
    <3>4. CASE i # Current
      BY <1>2, <1>4, <1>6, <3>2, <3>4 DEF SendingOther, SentOther
    <3>5. QED BY <3>3, <3>4
  <2>2. QED BY <1>1, <2>1, Frame DEF SentThis, SentOther
<1>7. Moved(it_1) = per_loop_dpus * (Passed + 1)
  BY <1>1, <1>2, Iterators DEF SendingOther, Stands
<1>8. CASE left = {Current}
  <2>1. /\ left' = s /\ it_0' = 0 /\ pc' = "send_pi" /\ s' = s /\ per_loop_dpus' = per_loop_dpus
        /\ per_loop_dpus \in Nat
    BY <1>1, <1>8 DEF SendOther, SameGeometry, PlanInv
  <2>2. Cursor' /\ Passed' = 0
    BY <2>1, CursorBegins
  <2>3. Stands(it_0)'
    BY <2>1, <2>2 DEF Stands
  <2>4. \A i \in s : SentThis(i)' /\ SentOther(i)'
    BY <1>6, <1>8
  <2>5. SendingPi'
    BY <1>5, <2>1, <2>2, <2>3, <2>4 DEF SendingPi
  <2>6. QED BY <1>1, <1>2, <2>1, <2>5, Frame DEF DataInv
<1>9. CASE left # {Current}
  <2>1. /\ left' = left \ {Current} /\ it_0' = it_0 /\ it_1' = Moved(it_1) /\ pc' = "send_this"
        /\ s' = s /\ per_loop_dpus' = per_loop_dpus
    BY <1>1, <1>9 DEF SendOther, SameGeometry
  <2>2. Cursor' /\ Passed' = Passed + 1 /\ s \ left' = (s \ left) \cup {Current}
    BY <1>2, <1>9, <2>1, CursorMoves DEF SendingOther
  <2>3. Stands(it_0)' /\ Stands(it_1)'
    BY <1>2, <1>7, <2>1, <2>2 DEF Stands, SendingOther
  <2>4. \A i \in s' \ left' : SentThis(i)' /\ SentOther(i)'
    BY <1>6, <2>1, <2>2
  <2>5. SendingThis'
    BY <1>5, <2>2, <2>3, <2>4 DEF SendingThis
  <2>6. QED BY <1>1, <1>2, <2>1, <2>5, Frame DEF DataInv
<1>10. QED BY <1>8, <1>9

\* The transfer of the primes keeps DataInv: each DPU receives the prime of the row it holds a
\* slice of.
LEMMA SendPiData ==
  ASSUME SomePrimes, FewRows, WholeSlices, PlanInv, OneIteration, DataInv, SendPi
  PROVE  DataInv'
<1>1. /\ SameGeometry /\ Planned /\ pc = "send_pi" /\ pc' \in {"launch", "send_pi"}
      /\ UNCHANGED <<rows, running>>
  BY DEF SendPi, call, plan, SameGeometry, Planned
<1>2. rows = OldRows /\ running = {} /\ SendingPi
  BY <1>1 DEF DataInv
<1>3. Current \in s /\ Current \notin s \ left
  BY <1>2, CurrentPrime DEF SendingPi, Cursor
<1>4. ASSUME NEW i \in s, NEW j \in Slices
      PROVE  mram'[Place(i, j)] =
               IF i = Current
               THEN [mram[Place(i, j)] EXCEPT !.pi = i]
               ELSE mram[Place(i, j)]
  <2>1. Place(i, j) \in Dpus /\ (Prepared(Place(i, j), it_0) <=> i = Current)
    BY <1>1, <1>2, Places, Iterators DEF SendingPi, Stands
  <2>2. QED BY <1>3, <2>1 DEF SendPi
<1>5. Layout'
  <2>1. Dpus' = Dpus
    BY <1>1, Frame
  <2>2. QED BY <1>2, <2>1 DEF SendingPi, Layout, SendPi
<1>6. ASSUME NEW i \in s PROVE SentThis(i)' /\ SentOther(i)'
  <2>1. ASSUME NEW j \in Slices
        PROVE  /\ mram'[Place(i, j)].this = Slice(RowThis(i), j)
               /\ mram'[Place(i, j)].other = Slice(RowOther(i), j)
    <3>1. DOMAIN mram[Place(i, j)] = Fields
      BY <1>1, <1>2, Places DEF SendingPi, Layout
    <3>2. /\ mram[Place(i, j)].this = Slice(RowThis(i), j)
          /\ mram[Place(i, j)].other = Slice(RowOther(i), j)
      BY <1>2 DEF SendingPi, SentThis, SentOther
    <3>3. QED BY <1>4, <3>1, <3>2 DEF Fields
  <2>2. QED BY <1>1, <2>1, Frame DEF SentThis, SentOther
<1>7. ASSUME NEW i \in s, i = Current \/ i \notin left PROVE SentPi(i)'
  <2>1. ASSUME NEW j \in Slices PROVE mram'[Place(i, j)].pi = i
    <3>1. DOMAIN mram[Place(i, j)] = Fields
      BY <1>1, <1>2, Places DEF SendingPi, Layout
    <3>2. CASE i = Current
      BY <1>4, <3>1, <3>2 DEF Fields
    <3>3. CASE i # Current
      BY <1>2, <1>4, <1>7, <3>3 DEF SendingPi, SentPi
    <3>4. QED BY <3>2, <3>3
  <2>2. QED BY <1>1, <2>1, Frame DEF SentPi
<1>8. s' = s /\ left' = left \ {Current} /\ it_0' = Moved(it_0) /\ per_loop_dpus' = per_loop_dpus
  BY <1>1 DEF SendPi, SameGeometry
<1>9. CASE left = {Current}
  <2>1. pc' = "launch" /\ \A i \in s : SentPi(i)'
    BY <1>7, <1>9 DEF SendPi
  <2>2. AllSent'
    BY <1>5, <1>6, <1>8, <2>1 DEF AllSent
  <2>3. QED BY <1>1, <1>2, <2>1, <2>2, Frame DEF DataInv
<1>10. CASE left # {Current}
  <2>1. Cursor' /\ Passed' = Passed + 1 /\ s \ left' = (s \ left) \cup {Current} /\ pc' = "send_pi"
    BY <1>2, <1>8, <1>10, CursorMoves DEF SendingPi, SendPi
  <2>2. Moved(it_0) = per_loop_dpus * (Passed + 1)
    BY <1>1, <1>2, Iterators DEF SendingPi, Stands
  <2>3. Stands(it_0)'
    BY <1>8, <2>1, <2>2 DEF Stands
  <2>4. \A i \in s' \ left' : SentPi(i)'
    BY <1>7, <1>8, <2>1
  <2>5. SendingPi'
    BY <1>5, <1>6, <1>8, <2>1, <2>3, <2>4 DEF SendingPi
  <2>6. QED BY <1>1, <1>2, <2>1, <2>5, Frame DEF DataInv
<1>11. QED BY <1>9, <1>10

\* The launch keeps DataInv: every DPU then has both slices, its prime and their size.
LEMMA LaunchData ==
  ASSUME SomePrimes, FewRows, WholeSlices, PlanInv, OneIteration, DataInv, Launch
  PROVE  DataInv'
<1>1. /\ SameGeometry /\ Planned /\ pc = "launch" /\ pc' = "wait" /\ running' = Dpus
      /\ rows' = rows
  BY DEF Launch, call, plan, SameGeometry, Planned
<1>2. rows = OldRows /\ AllSent /\ Dpus' = Dpus
  BY <1>1, Frame DEF DataInv
<1>3. Layout'
  BY <1>2 DEF AllSent, Layout, Launch
<1>4. ASSUME NEW i \in s, NEW j \in Slices
      PROVE  Place(i, j) \in Dpus /\ Holds(Place(i, j), i, j)'
  <2>1. Place(i, j) \in Dpus /\ DOMAIN mram[Place(i, j)] = Fields
    BY <1>1, <1>2, Places DEF AllSent, Layout
  <2>2. mram'[Place(i, j)] = [mram[Place(i, j)] EXCEPT !.size = per_dpu_size]
    BY <2>1 DEF Launch
  <2>3. /\ mram[Place(i, j)].this = Slice(RowThis(i), j)
        /\ mram[Place(i, j)].other = Slice(RowOther(i), j)
        /\ mram[Place(i, j)].pi = i
    BY <1>2 DEF AllSent, SentThis, SentOther, SentPi
  <2>4. /\ mram'[Place(i, j)].this = Slice(RowThis(i), j)
        /\ mram'[Place(i, j)].other = Slice(RowOther(i), j)
        /\ mram'[Place(i, j)].pi = i
        /\ mram'[Place(i, j)].size = per_dpu_size
    BY <2>1, <2>2, <2>3 DEF Fields
  <2>5. QED BY <1>1, <2>1, <2>4, Frame DEF Holds
<1>5. Running'
  <2>1. \A i \in s', j \in Slices' : Place(i, j)' \in running' /\ Holds(Place(i, j), i, j)'
    BY <1>1, <1>4, Frame DEF SameGeometry
  <2>2. QED BY <1>1, <1>2, <1>3, <2>1 DEF Running
<1>6. QED BY <1>1, <1>2, <1>5, Frame DEF DataInv

(***************************************************************************)
(* The elements of a row and their places in its slices.                   *)
(***************************************************************************)
LEMMA Elements ==
  ASSUME NEW p \in Nat \ {0}, NEW q \in Nat \ {0}
  PROVE  /\ \A j \in 0..(p - 1), k \in 0..(q - 1) : j * q + k \in 0..(p * q - 1)
         /\ \A k \in 0..(p * q - 1) :
              /\ k \div q \in 0..(p - 1) /\ k % q \in 0..(q - 1)
              /\ (k \div q) * q + (k % q) = k
<1>1. ASSUME NEW j \in 0..(p - 1), NEW k \in 0..(q - 1) PROVE j * q + k \in 0..(p * q - 1)
  <2>1. j * q + q <= p * q
    BY SharesApart
  <2>2. j * q \in Nat /\ p * q \in Nat
    OBVIOUS
  <2>3. QED BY <2>1, <2>2
<1>2. ASSUME NEW k \in 0..(p * q - 1)
      PROVE  /\ k \div q \in 0..(p - 1) /\ k % q \in 0..(q - 1)
             /\ (k \div q) * q + (k % q) = k
  <2>1. k \in Nat /\ k < p * q
    OBVIOUS
  <2>2. k \div q \in Nat /\ k % q \in 0..(q - 1) /\ k = q * (k \div q) + (k % q)
    BY <2>1
  <2> DEFINE a == k \div q
             b == k % q
  <2> HIDE DEF a, b
  <2>3. a \in Nat /\ b \in 0..(q - 1) /\ k = q * a + b
    BY <2>2 DEF a, b
  <2>4. a < p
    <3>1. CASE p <= a
      <4>1. (a - p) * q >= 0
        BY <2>3, <3>1, a - p \in Nat
      <4>2. a * q >= p * q
        BY <2>3, <4>1
      <4>3. QED BY <2>1, <2>3, <4>2
    <3>2. QED BY <2>3, <3>1
  <2>5. a * q + b = k /\ a \in 0..(p - 1)
    BY <2>3, <2>4
  <2>6. QED BY <2>3, <2>5 DEF a, b
<1>3. QED BY <1>1, <1>2

\* What a DPU computes from the slices it was sent (CtxtKernel!ResultRow).
LEMMA DpuComputes ==
  ASSUME SomePrimes, FewRows, WholeSlices, PlanInv, OneIteration, Planned,
         NEW i \in s, NEW j \in Slices, NEW d, Holds(d, i, j),
         NEW result \in KernelResults(mram[d])
  PROVE  result = Slice(NewRows[i], j)
<1> DEFINE p == per_loop_dpus
           q == per_dpu_size
<1>1. p \in Nat \ {0} /\ q \in Nat \ {0} /\ phim = p * q /\ WholeChunks(q)
  BY Geometry
<1>2. /\ mram[d].this = Slice(RowThis(i), j) /\ mram[d].other = Slice(RowOther(i), j)
      /\ mram[d].pi = i /\ mram[d].size = q
  BY DEF Holds
<1>3. result = [k \in DOMAIN mram[d].this |-> Fun(mram[d].this[k], mram[d].other[k], mram[d].pi)]
  BY <1>1, <1>2 DEF KernelResults
<1>4. DOMAIN mram[d].this = 0..(q - 1)
  BY <1>2 DEF Slice
<1>5. ASSUME NEW k \in 0..(q - 1)
      PROVE  Fun(mram[d].this[k], mram[d].other[k], mram[d].pi) = NewRows[i][j * q + k]
  <2>1. j * q + k \in 0..(phim - 1)
    BY <1>1, Elements DEF Slices
  <2>2. mram[d].this[k] = ThisRow(i, j * q + k) /\ mram[d].other[k] = OtherRow(i, j * q + k)
    BY <1>2, <2>1 DEF Slice, RowThis, RowOther
  <2>3. NewRows[i][j * q + k] = Element(i, j * q + k)
    BY <2>1 DEF NewRows
  <2>4. QED BY <1>2, <2>2, <2>3 DEF Element
<1>6. QED BY <1>3, <1>4, <1>5 DEF Slice

\* A DPU that finishes keeps DataInv: its slice of the result is that of the new row.
LEMMA RunDpuData ==
  ASSUME SomePrimes, FewRows, WholeSlices, PlanInv, OneIteration, DataInv,
         NEW d \in running, RunDpu(d)
  PROVE  DataInv'
<1>1. /\ SameGeometry /\ pc = "wait" /\ pc' = "wait" /\ running' = running \ {d} /\ rows' = rows
      /\ Planned
  BY DEF RunDpu, call, plan, SameGeometry, Planned, DataInv
<1>2. rows = OldRows /\ Running /\ d \in Dpus
  BY <1>1 DEF DataInv, Running
<1>3. PICK result \in KernelResults(mram[d]) : mram' = [mram EXCEPT ![d].this = result]
  BY DEF RunDpu
<1>4. DOMAIN mram = Dpus /\ DOMAIN mram[d] = Fields
  BY <1>2 DEF Running, Layout
<1>5. Layout'
  <2>1. Dpus' = Dpus
    BY <1>1, Frame
  <2>2. QED BY <1>2, <1>3, <1>4, <2>1 DEF Running, Layout
<1>6. ASSUME NEW i \in s, NEW j \in Slices
      PROVE  IF Place(i, j) \in running \ {d} THEN Holds(Place(i, j), i, j)' ELSE Computed(i, j)'
  <2>1. Place(i, j) \in Dpus
    BY <1>1, Places
  <2>2. CASE Place(i, j) = d
    <3>1. Holds(d, i, j)
      BY <1>2, <2>2 DEF Running
    <3>2. result = Slice(NewRows[i], j)
      BY <1>1, <3>1, DpuComputes
    <3>3. mram'[Place(i, j)].this = Slice(NewRows[i], j)
      BY <1>2, <1>3, <1>4, <2>2, <3>2 DEF Fields
    <3>4. Computed(i, j)'
      BY <1>1, <3>3, Frame DEF Computed
    <3>5. QED BY <2>2, <3>4
  <2>3. CASE Place(i, j) # d
    <3>1. mram'[Place(i, j)] = mram[Place(i, j)]
      BY <1>3, <1>4, <2>1, <2>3
    <3>2. CASE Place(i, j) \in running
      <4>1. Holds(Place(i, j), i, j)
        BY <1>2, <3>2 DEF Running
      <4>2. Holds(Place(i, j), i, j)'
        BY <1>1, <3>1, <4>1, Frame DEF Holds
      <4>3. QED BY <2>3, <3>2, <4>2
    <3>3. CASE Place(i, j) \notin running
      <4>1. Computed(i, j)
        BY <1>2, <3>3 DEF Running
      <4>2. Computed(i, j)'
        BY <1>1, <3>1, <4>1, Frame DEF Computed
      <4>3. QED BY <3>3, <4>2
    <3>4. QED BY <3>2, <3>3
  <2>4. QED BY <2>2, <2>3
<1>7. Running'
  <2>1. \A i \in s', j \in Slices' :
          IF Place(i, j)' \in running' THEN Holds(Place(i, j), i, j)' ELSE Computed(i, j)'
    BY <1>1, <1>6, Frame DEF SameGeometry
  <2>2. running' \subseteq Dpus'
    BY <1>1, <1>2, Frame DEF Running
  <2>3. QED BY <1>5, <2>1, <2>2 DEF Running
<1>8. QED BY <1>1, <1>2, <1>7, Frame DEF DataInv

\* The return from the launch keeps DataInv: no DPU is running any more.
LEMMA ReturnData ==
  ASSUME SomePrimes, FewRows, WholeSlices, PlanInv, OneIteration, DataInv, Return
  PROVE  DataInv'
<1>1. /\ SameGeometry /\ pc = "wait" /\ pc' = "read" /\ running = {} /\ running' = {}
      /\ rows' = rows /\ mram' = mram /\ left' = s /\ it_0' = 0 /\ s' = s
  BY DEF Return, call, plan, SameGeometry
<1>2. rows = OldRows /\ Running
  BY <1>1 DEF DataInv
<1>3. Cursor' /\ Passed' = 0
  BY <1>1, CursorBegins
<1>4. Stands(it_0)'
  <2>1. per_loop_dpus' = per_loop_dpus /\ per_loop_dpus \in Nat
    BY <1>1 DEF SameGeometry, PlanInv
  <2>2. QED BY <1>1, <1>3, <2>1 DEF Stands
<1>5. Layout'
  BY <1>1, <1>2, Frame DEF Running, Layout
<1>6. \A i \in s', j \in Slices' : Computed(i, j)'
  <2>1. \A i \in s, j \in Slices : Computed(i, j)
    BY <1>1, <1>2 DEF Running
  <2>2. QED BY <1>1, <2>1, Frame DEF Computed
<1>7. rows' = [i \in s' |-> IF i \in left' THEN RowThis(i)' ELSE NewRows'[i]]
  BY <1>1, <1>2, Frame DEF OldRows
<1>8. Reading'
  BY <1>3, <1>4, <1>5, <1>6, <1>7 DEF Reading
<1>9. QED BY <1>1, <1>8 DEF DataInv

\* A transfer to the host brings the slices of the row together again.
LEMMA RowRead ==
  ASSUME SomePrimes, FewRows, WholeSlices, PlanInv, OneIteration, Planned, Reading, ReadRow
  PROVE  /\ Current \in s
         /\ rows' = [rows EXCEPT ![Current] = NewRows[Current]]
<1> DEFINE p == per_loop_dpus
           q == per_dpu_size
           c == Current
           found(d, k) == Prepared(d, it_0) /\ SliceFor(d, it_0) = k \div q
           element(k) == IF \E d \in Dpus : found(d, k)
                         THEN mram[CHOOSE d \in Dpus : found(d, k)].this[k % q]
                         ELSE rows[c][k]
<1>1. p \in Nat \ {0} /\ q \in Nat \ {0} /\ phim = p * q
  BY Geometry
<1>2. c \in s /\ rows' = [rows EXCEPT ![c] = [k \in 0..(phim - 1) |-> element(k)]]
  BY CurrentPrime DEF Reading, Cursor, ReadRow
<1>3. ASSUME NEW k \in 0..(phim - 1) PROVE element(k) = NewRows[c][k]
  <2>1. k \div q \in Slices /\ k % q \in 0..(q - 1) /\ (k \div q) * q + (k % q) = k
    BY <1>1, Elements DEF Slices
  <2> DEFINE j == k \div q
             e == Place(c, j)
  <2> HIDE DEF j
  <2>2. e \in Dpus /\ Prepared(e, it_0) /\ SliceFor(e, it_0) = j
    BY <1>2, <2>1, Places, Iterators DEF Reading, Stands, j
  <2>3. ASSUME NEW d \in Dpus, found(d, k) PROVE d = e
    <3>1. PICK i \in s, l \in Slices : d = Place(i, l)
      BY Places
    <3>2. i = c /\ SliceFor(d, it_0) = l
      BY <2>3, <3>1, Iterators DEF Reading, Stands
    <3>3. QED BY <2>3, <3>1, <3>2 DEF j
  <2>4. found(e, k)
    BY <2>2 DEF j
  <2>5. (CHOOSE d \in Dpus : found(d, k)) = e
    <3> HIDE DEF found, e
    <3>1. QED BY <2>2, <2>3, <2>4
  <2>6. mram[e].this = Slice(NewRows[c], j)
    BY <1>2, <2>1 DEF Reading, Computed, j
  <2>7. mram[e].this[k % q] = NewRows[c][k]
    BY <2>1, <2>6 DEF Slice, j
  <2>8. \E d \in Dpus : found(d, k)
    <3> HIDE DEF found, e
    <3>1. QED BY <2>2, <2>4
  <2> HIDE DEF found, e
  <2>9. QED BY <2>5, <2>7, <2>8
<1>4. NewRows[c] = [k \in 0..(phim - 1) |-> NewRows[c][k]]
  BY <1>2 DEF NewRows
<1> HIDE DEF element
<1>5. [k \in 0..(phim - 1) |-> element(k)] = NewRows[c]
  BY <1>3, <1>4
<1>6. QED BY <1>2, <1>5

\* The transfer of a row back keeps DataInv: the slices read make up the new row.
LEMMA ReadRowData ==
  ASSUME SomePrimes, FewRows, WholeSlices, PlanInv, OneIteration, DataInv, ReadRow
  PROVE  DataInv'
<1>1. /\ SameGeometry /\ Planned /\ pc = "read" /\ pc' \in {"read", "done"} /\ running' = running
      /\ left' = left \ {Current} /\ it_0' = Moved(it_0) /\ s' = s /\ per_loop_dpus' = per_loop_dpus
  BY DEF ReadRow, call, plan, SameGeometry, Planned
<1>2. Reading /\ running' = {}
  BY <1>1 DEF DataInv
<1>3. Current \in left /\ left \subseteq s
  BY <1>2, CurrentPrime DEF Reading, Cursor
<1>4. rows' = [i \in s |-> IF i \in left' THEN RowThis(i) ELSE NewRows[i]]
  <2>1. rows' = [rows EXCEPT ![Current] = NewRows[Current]]
    BY <1>1, <1>2, RowRead
  <2>2. rows = [i \in s |-> IF i \in left THEN RowThis(i) ELSE NewRows[i]]
    BY <1>2 DEF Reading
  <2>3. QED BY <1>1, <1>3, <2>1, <2>2
<1>5. CASE left = {Current}
  <2>1. pc' = "done" /\ left' = {}
    BY <1>1, <1>5 DEF ReadRow
  <2>2. NewRows = [i \in s |-> NewRows[i]]
    BY DEF NewRows
  <2>3. rows' = NewRows
    BY <1>4, <2>1, <2>2
  <2>4. QED BY <1>1, <1>2, <2>1, <2>3, Frame DEF DataInv
<1>6. CASE left # {Current}
  <2>1. Cursor' /\ Passed' = Passed + 1 /\ pc' = "read" /\ mram' = mram
    BY <1>1, <1>2, <1>6, CursorMoves DEF Reading, ReadRow
  <2>2. Moved(it_0) = per_loop_dpus * (Passed + 1)
    BY <1>1, <1>2, Iterators DEF Reading, Stands
  <2>3. Stands(it_0)'
    BY <1>1, <2>1, <2>2 DEF Stands
  <2>4. Layout'
    BY <1>1, <1>2, <2>1, Frame DEF Reading, Layout
  <2>5. \A i \in s', j \in Slices' : Computed(i, j)'
    BY <1>1, <1>2, <2>1, Frame DEF Reading, Computed
  <2>6. rows' = [i \in s' |-> IF i \in left' THEN RowThis(i)' ELSE NewRows'[i]]
    BY <1>1, <1>4, Frame
  <2>7. Reading'
    BY <2>1, <2>3, <2>4, <2>5, <2>6 DEF Reading
  <2>8. QED BY <1>2, <2>1, <2>7 DEF DataInv
<1>7. QED BY <1>5, <1>6

--------------------------------------------------------------------------------
(***************************************************************************)
(* The theorems about the data.                                            *)
(***************************************************************************)
OffloadInv == PlanInv /\ OneIteration /\ DataInv

\* Every step of the method keeps its whole invariant, plan and data.
LEMMA OffloadStep ==
  ASSUME SomePrimes, FewRows, WholeSlices, OffloadInv, [Next]_vars
  PROVE  OffloadInv'
<1>1. PlanInv /\ OneIteration /\ DataInv
  BY DEF OffloadInv
<1>2. PlanInv' /\ OneIteration'
  BY <1>1, PlanStep, OneIterationStep
<1>3. DataInv'
  <2>1. ASSUME NEW c \in BOOLEAN, NEW m \in BOOLEAN, DryRun \/ Reject(c, m) \/ Call(c, m)
        PROVE  DataInv'
    BY <1>1, <2>1, PlanningData DEF DryRun, Reject, Call, call
  <2>2. CASE PlanIterations
    BY <1>1, <2>2, PlanningData DEF PlanIterations, call
  <2>3. CASE PlanDpus
    BY <1>1, <2>3, PlanningData DEF PlanDpus, call
  <2>4. ASSUME NEW d \in running, RunDpu(d) PROVE DataInv'
    BY <1>1, <2>4, RunDpuData
  <2>5. CASE UNCHANGED vars
    <3>1. SameGeometry /\ UNCHANGED <<pc, rows, mram, left, it_0, it_1, running>>
      BY <2>5 DEF vars, call, plan, SameGeometry
    <3>2. /\ (Layout => Layout') /\ (Cursor => Cursor') /\ Current' = Current /\ Passed' = Passed
          /\ (Stands(it_0) => Stands(it_0)') /\ (Stands(it_1) => Stands(it_1)')
      BY <3>1, Frame DEF Layout, Cursor, Current, Passed, Stands, SameGeometry
    <3>3. /\ \A i : (SentThis(i) => SentThis(i)') /\ (SentOther(i) => SentOther(i)')
                    /\ (SentPi(i) => SentPi(i)')
          /\ \A i, j : Computed(i, j) => Computed(i, j)'
          /\ \A d, i, j : Holds(d, i, j) => Holds(d, i, j)'
      BY <3>1, Frame DEF SentThis, SentOther, SentPi, Computed, Holds
    <3>4. /\ (SendingThis => SendingThis') /\ (SendingOther => SendingOther')
          /\ (SendingPi => SendingPi') /\ (AllSent => AllSent')
      BY <3>1, <3>2, <3>3 DEF SendingThis, SendingOther, SendingPi, AllSent, SameGeometry
    <3>5. Running => Running'
      BY <3>1, <3>2, <3>3, Frame DEF Running, SameGeometry
    <3>6. Reading => Reading'
      BY <3>1, <3>2, <3>3, Frame DEF Reading, SameGeometry
    <3>7. QED BY <1>1, <3>1, <3>4, <3>5, <3>6, Frame DEF DataInv
  <2>6. QED
    BY <1>1, <2>1, <2>2, <2>3, <2>4, <2>5, AllocData, SendThisData, SendOtherData, SendPiData,
       LaunchData, ReturnData, ReadRowData
       DEF Next, Host, Stopped
<1>4. QED BY <1>2, <1>3 DEF OffloadInv

\* The invariant of the data, from the plan to the last row read.
LEMMA OffloadInvariance ==
  ASSUME SomePrimes, FewRows, WholeSlices PROVE Spec => []OffloadInv
<1>1. Init => OffloadInv
  BY PlanInit, OneIterationInit, DataInit DEF OffloadInv
<1>2. OffloadInv /\ [Next]_vars => OffloadInv'
  BY OffloadStep
<1>3. QED BY <1>1, <1>2, PTL DEF Spec

(***************************************************************************)
(* When the DPUs are launched, every slice of every row of this polynomial *)
(* has met the same slice of the other one, the row's prime and the size   *)
(* on a DPU of its own (helib_double_crt_dpu.cpp:87-131), whatever the     *)
(* index set, the degree and the number of DPUs, as long as there are at   *)
(* least as many DPUs as rows and the slices are whole chunks.             *)
(***************************************************************************)
THEOREM TransfersAlwaysMeet ==
  ASSUME SomePrimes, FewRows, WholeSlices PROVE Spec => []TransfersMeet
<1>1. OffloadInv => TransfersMeet
  <2>1. SUFFICES ASSUME OffloadInv, pc = "wait", running = Dpus
                 PROVE  /\ \A i \in s, j \in 0..(per_loop_dpus - 1) :
                             Place(i, j) \in Dpus /\ Holds(Place(i, j), i, j)
                        /\ \A d \in Dpus : \E i \in s, j \in 0..(per_loop_dpus - 1) : d = Place(i, j)
    BY DEF TransfersMeet
  <2>2. PlanInv /\ OneIteration /\ Planned /\ Running
    BY <2>1 DEF OffloadInv, DataInv, Planned
  <2>3. \A i \in s, j \in Slices : Place(i, j) \in Dpus /\ Holds(Place(i, j), i, j)
    BY <2>1, <2>2, Places DEF Running
  <2>4. \A d \in Dpus : \E i \in s, j \in Slices : d = Place(i, j)
    BY <2>2, Places
  <2>5. QED BY <2>3, <2>4 DEF Slices
<1>2. QED BY <1>1, OffloadInvariance, PTL

(***************************************************************************)
(* Under the same conditions the offloaded method implements what          *)
(* DoubleCRT::Op promises (helib_double_crt_dpu.cpp:133-149): a row goes   *)
(* once from what it was to the sum or the product, also when the DPUs     *)
(* finish in any order, and when the method returns every row has.         *)
(***************************************************************************)
THEOREM OffloadImplementsOp ==
  ASSUME SomePrimes, FewRows, WholeSlices PROVE Spec => ImplementsOp /\ []CopyOfOp
<1>1. Init => Op!Init
  BY DEF Init, Op!Init, OldRows, NewRows
<1>2. OffloadInv /\ OffloadInv' /\ [Next]_vars => [Op!Replace]_(Op!vars)
  <2>1. SUFFICES ASSUME OffloadInv, [Next]_vars PROVE [Op!Replace]_(Op!vars)
    OBVIOUS
  <2>2. PlanInv /\ OneIteration /\ DataInv
    BY <2>1 DEF OffloadInv
  <2>3. CASE ReadRow
    <3>1. /\ SameGeometry /\ Planned /\ Reading
      BY <2>2, <2>3 DEF ReadRow, call, plan, SameGeometry, Planned, DataInv
    <3>2. Current \in left /\ Current \in s
      BY <2>2, <3>1, CurrentPrime DEF Reading, Cursor
    <3>3. rows' = [rows EXCEPT ![Current] = NewRows[Current]]
      BY <2>2, <2>3, <3>1, RowRead
    <3>4. rows[Current] = OldRows[Current] /\ DOMAIN rows = s
      BY <3>1, <3>2 DEF Reading, OldRows
    <3>5. /\ DOMAIN rows' = DOMAIN rows
          /\ \A i \in DOMAIN rows :
               rows'[i] = rows[i] \/ (rows[i] = OldRows[i] /\ rows'[i] = NewRows[i])
      BY <3>2, <3>3, <3>4
    <3>6. QED BY <3>1, <3>5, Frame DEF Op!Replace
  <2>4. CASE UNCHANGED <<s, phim, rows>>
    <3>1. OldRows' = OldRows /\ NewRows' = NewRows
      BY <2>4 DEF OldRows, NewRows, RowThis
    <3>2. QED BY <2>4, <3>1 DEF Op!vars
  <2>5. QED
    BY <2>1, <2>3, <2>4
       DEF Next, Host, Stopped, DryRun, Reject, Call, PlanIterations, PlanDpus, Alloc, SendThis,
           SendOther, SendPi, Launch, RunDpu, Return, call, vars
<1>3. OffloadInv => CopyOfOp
  BY DEF OffloadInv, DataInv, CopyOfOp
<1>4. QED BY <1>1, <1>2, <1>3, OffloadInvariance, PTL DEF Spec, ImplementsOp, Op!Safety
================================================================================

------------------------------ MODULE CtxtOffload ------------------------------
(***************************************************************************)
(* DoubleCRT::dpu_Op_AddFun and dpu_Op_MulFun: the addition or the         *)
(* multiplication of two polynomials in DoubleCRT form, offloaded to DPUs  *)
(* by dpu_add_ctxt and dpu_mul_ctxt.  The rows of the polynomial, one for  *)
(* each prime of its index set, are cut into slices, one slice to a DPU.   *)
(*                                                                         *)
(* The host is sequential: an action is one transfer with the preparation  *)
(* before it, or one iteration of a planning loop.  The DPUs run           *)
(* concurrently, a DPU in one step that stands for the tasklets of         *)
(* CtxtKernel, which implement it by the theorem Implements there.         *)
(***************************************************************************)
EXTENDS TaskletShares, FiniteSets

CONSTANTS
  NR_DPUS,          \* DPUs the library is compiled to use
  AVAILABLE_DPUS,   \* DPUs dpu_alloc finds free
  UINT32,           \* 2^32, from where the planning arithmetic wraps
  PhiMs,            \* degrees phim of the ring
  IndexSets,        \* index sets of primes a polynomial may have
  ThisRow(_, _),    \* coefficient of this polynomial modulo a prime
  OtherRow(_, _),   \* and of the other one
  NoInit,           \* what MRAM holds before anything is sent to it
  Fun(_, _, _)      \* AddMod or MulMod of two elements modulo a prime

ASSUME DpusAssumption ==
  /\ NR_DPUS \in Nat \ {0}
  /\ AVAILABLE_DPUS \in Nat
  /\ UINT32 \in Nat /\ NR_DPUS < UINT32

ASSUME InputsAssumption ==
  /\ PhiMs \subseteq Nat \ {0}
  /\ \A s \in IndexSets : s \subseteq Nat /\ IsFiniteSet(s) /\ Cardinality(s) < UINT32

VARIABLES
  pc,              \* the host's next action
  s, other, phim,  \* the call: index sets of both polynomials and the degree
  rows,            \* the rows of this polynomial, in host memory
  nr_iterations, per_loop_dpus,   \* the plan
  mram,            \* mram[d]: this, other, pi and size of an allocated DPU
  left,            \* primes the current loop over s has not come to
  it_0, it_1,      \* DPUs the iterators of the current loop have passed
  running          \* DPUs that have not finished the launched program

call == <<s, other, phim>>
plan == <<nr_iterations, per_loop_dpus>>
vars == <<pc, call, rows, plan, mram, left, it_0, it_1, running>>

loops == Cardinality(s)
per_iteration_loops == loops \div nr_iterations
nr_dpus == (per_loop_dpus * per_iteration_loops) % UINT32
per_dpu_size == phim \div per_loop_dpus

Dpus == 0..(nr_dpus - 1)

\* The rows of the two polynomials for a prime, when the method is called.
RowThis(i) == [k \in 0..(phim - 1) |-> ThisRow(i, k)]
RowOther(i) == [k \in 0..(phim - 1) |-> OtherRow(i, k)]

\* The next prime of a loop "for (long i : s)".
Current == CHOOSE i \in left : \A j \in left : i <= j

\* Mutant of Moved: the iterator moves once for a row, not for each slice.
Moved_OncePerRow(it) == IF it + 1 < nr_dpus THEN it + 1 ELSE nr_dpus

(***************************************************************************)
(* An iterator that is moved past the last DPU of the set stays on it.     *)
(***************************************************************************)
Moved(it) == IF it + per_loop_dpus < nr_dpus THEN it + per_loop_dpus ELSE nr_dpus
DpuAt(n) == IF n < nr_dpus THEN n ELSE nr_dpus - 1

(***************************************************************************)
(* The slices of the current row a DPU is prepared for when the iterator   *)
(* stands at it; the last preparation counts for the transfer.  A transfer *)
(* leaves out the DPUs that were not prepared, and forgets preparations.   *)
(***************************************************************************)
SlicesFor(d, it) == {j \in 0..(per_loop_dpus - 1) : DpuAt(it + j) = d}
Prepared(d, it) == SlicesFor(d, it) # {}
SliceFor(d, it) == CHOOSE j \in SlicesFor(d, it) : \A k \in SlicesFor(d, it) : k <= j

\* Mutant of Slice: every DPU of a row is given its first elements.
Slice_First(row, j) == [k \in 0..(per_dpu_size - 1) |-> row[k]]

\* The elements from &row[j * per_dpu_size].
Slice(row, j) == [k \in 0..(per_dpu_size - 1) |-> row[j * per_dpu_size + k]]

--------------------------------------------------------------------------------
Init ==
  /\ pc = "call"
  /\ s \in IndexSets /\ other \in IndexSets /\ phim \in PhiMs
  /\ rows = [i \in s |-> RowThis(i)]
  /\ nr_iterations = 1 /\ per_loop_dpus = 1
  /\ mram = <<>> /\ left = {} /\ it_0 = 0 /\ it_1 = 0 /\ running = {}

\* dpu_Op_AddFun does nothing in a dry run, ...
DryRun ==
  /\ pc = "call"
  /\ pc' = "dry_run"
  /\ UNCHANGED <<call, rows, plan, mram, left, it_0, it_1, running>>

\* ... throws when the contexts differ or the index sets do not fit ...
Fits(sameContext, matchIndexSets) ==
  sameContext /\ (matchIndexSets => other \subseteq s) /\ s \subseteq other

Reject(sameContext, matchIndexSets) ==
  /\ pc = "call"
  /\ ~Fits(sameContext, matchIndexSets)
  /\ pc' = "rejected"
  /\ UNCHANGED <<call, rows, plan, mram, left, it_0, it_1, running>>

\* ... and otherwise calls dpu_add_ctxt on the rows of s.
Call(sameContext, matchIndexSets) ==
  /\ pc = "call"
  /\ Fits(sameContext, matchIndexSets)
  /\ pc' = "plan_iterations"
  /\ UNCHANGED <<call, rows, plan, mram, left, it_0, it_1, running>>

\* Mutant of PlanIterations: a row for every DPU is already too much.
PlanIterations_AtLimit ==
  /\ pc = "plan_iterations"
  /\ IF per_iteration_loops >= NR_DPUS
     THEN nr_iterations' = 2 * nr_iterations /\ pc' = pc
     ELSE nr_iterations' = nr_iterations /\ pc' = "plan_dpus"
  /\ UNCHANGED <<call, rows, per_loop_dpus, mram, left, it_0, it_1, running>>

\* while (loops / nr_iterations > NR_DPUS)
PlanIterations ==
  /\ pc = "plan_iterations"
  /\ IF per_iteration_loops > NR_DPUS
     THEN nr_iterations' = 2 * nr_iterations /\ pc' = pc
     ELSE nr_iterations' = nr_iterations /\ pc' = "plan_dpus"
  /\ UNCHANGED <<call, rows, per_loop_dpus, mram, left, it_0, it_1, running>>

\* Mutant of PlanDpus: doubles as long as the DPUs suffice, and so once too often.
PlanDpus_OnceMore ==
  /\ pc = "plan_dpus"
  /\ IF nr_dpus <= NR_DPUS
     THEN per_loop_dpus' = (2 * per_loop_dpus) % UINT32 /\ pc' = pc
     ELSE per_loop_dpus' = per_loop_dpus /\ pc' = "alloc"
  /\ UNCHANGED <<call, rows, nr_iterations, mram, left, it_0, it_1, running>>

\* while (per_loop_dpus * per_iteration_loops <= NR_DPUS / 2)
PlanDpus ==
  /\ pc = "plan_dpus"
  /\ IF nr_dpus <= NR_DPUS \div 2
     THEN per_loop_dpus' = (2 * per_loop_dpus) % UINT32 /\ pc' = pc
     ELSE per_loop_dpus' = per_loop_dpus /\ pc' = "alloc"
  /\ UNCHANGED <<call, rows, nr_iterations, mram, left, it_0, it_1, running>>

(***************************************************************************)
(* The rest of the plan, dpu_alloc and dpu_load: a slice of no element     *)
(* divides by zero in size % per_dpu_size, and DPU_ASSERT ends the program *)
(* when there are not enough DPUs.                                         *)
(***************************************************************************)
Alloc ==
  /\ pc = "alloc"
  /\ IF per_dpu_size = 0 THEN pc' = "fault" /\ mram' = mram
     ELSE IF nr_dpus > AVAILABLE_DPUS THEN pc' = "abort" /\ mram' = mram
     ELSE /\ pc' = "send_this"
          /\ mram' = [d \in Dpus |-> [this |-> NoInit, other |-> NoInit, pi |-> NoInit, size |-> NoInit]]
  /\ left' = s /\ it_0' = 0 /\ it_1' = 0
  /\ UNCHANGED <<call, rows, plan, running>>

\* dpu_prepare_xfer of the slices of a row and dpu_push_xfer to DPU_ROW_THIS.
SendThis ==
  /\ pc = "send_this"
  /\ mram' = [d \in Dpus |->
                IF Prepared(d, it_0)
                THEN [mram[d] EXCEPT !.this =
                        Slice(rows[Current], SliceFor(d, it_0))]
                ELSE mram[d]]
  /\ it_0' = Moved(it_0)
  /\ pc' = "send_other"
  /\ UNCHANGED <<call, rows, plan, left, it_1, running>>

\* The same for the other row; after the last prime the iterator starts again.
SendOther ==
  /\ pc = "send_other"
  /\ mram' = [d \in Dpus |->
                IF Prepared(d, it_1)
                THEN [mram[d] EXCEPT !.other =
                        Slice(RowOther(Current), SliceFor(d, it_1))]
                ELSE mram[d]]
  /\ IF left = {Current}
     THEN left' = s /\ it_0' = 0 /\ pc' = "send_pi"
     ELSE left' = left \ {Current} /\ it_0' = it_0 /\ pc' = "send_this"
  /\ it_1' = Moved(it_1)
  /\ UNCHANGED <<call, rows, plan, running>>

\* dpu_copy_to of the prime (and, to multiply, of its inverse and shift) to the
\* DPUs of a row.
SendPi ==
  /\ pc = "send_pi"
  /\ mram' = [d \in Dpus |->
                IF Prepared(d, it_0) THEN [mram[d] EXCEPT !.pi = Current] ELSE mram[d]]
  /\ it_0' = Moved(it_0)
  /\ left' = left \ {Current}
  /\ pc' = IF left = {Current} THEN "launch" ELSE "send_pi"
  /\ UNCHANGED <<call, rows, plan, it_1, running>>

\* dpu_broadcast_to of DPU_SIZE and dpu_launch.
Launch ==
  /\ pc = "launch"
  /\ mram' = [d \in Dpus |-> [mram[d] EXCEPT !.size = per_dpu_size]]
  /\ running' = Dpus
  /\ pc' = "wait"
  /\ UNCHANGED <<call, rows, plan, left, it_0, it_1>>

(***************************************************************************)
(* A DPU runs its program: what CtxtKernel does with a size of whole       *)
(* chunks.  With another size its tasklets race for elements or leave some *)
(* out, so that an element may stay as it is or be combined twice.         *)
(***************************************************************************)
KernelResults(m) ==
  LET once(k) == Fun(m.this[k], m.other[k], m.pi)
      twice(k) == Fun(once(k), m.other[k], m.pi)
  IN IF WholeChunks(m.size)
     THEN {[k \in DOMAIN m.this |-> once(k)]}
     ELSE {f \in [DOMAIN m.this -> UNION {{m.this[k], once(k), twice(k)} : k \in DOMAIN m.this}] :
             \A k \in DOMAIN m.this : f[k] \in {m.this[k], once(k), twice(k)}}

RunDpu(d) ==
  /\ d \in running
  /\ \E result \in KernelResults(mram[d]) : mram' = [mram EXCEPT ![d].this = result]
  /\ running' = running \ {d}
  /\ UNCHANGED <<pc, call, rows, plan, left, it_0, it_1>>

\* dpu_launch(set, DPU_SYNCHRONOUS) returns when no DPU runs any more.
Return ==
  /\ pc = "wait"
  /\ running = {}
  /\ left' = s /\ it_0' = 0
  /\ pc' = "read"
  /\ UNCHANGED <<call, rows, plan, mram, it_1, running>>

\* dpu_push_xfer from DPU_ROW_THIS into a row; dpu_free after the last one.
ReadRow ==
  /\ pc = "read"
  /\ rows' = [rows EXCEPT ![Current] =
                [k \in 0..(phim - 1) |->
                   IF \E d \in Dpus : Prepared(d, it_0) /\ SliceFor(d, it_0) = k \div per_dpu_size
                   THEN LET d == CHOOSE d \in Dpus :
                              Prepared(d, it_0) /\ SliceFor(d, it_0) = k \div per_dpu_size
                        IN mram[d].this[k % per_dpu_size]
                   ELSE rows[Current][k]]]
  /\ it_0' = Moved(it_0)
  /\ left' = left \ {Current}
  /\ IF left = {Current}
     THEN pc' = "done" /\ mram' = <<>>
     ELSE pc' = "read" /\ mram' = mram
  /\ UNCHANGED <<call, plan, it_1, running>>

Stopped == pc \in {"done", "dry_run", "rejected", "fault", "abort"} /\ UNCHANGED vars

Host ==
  \/ DryRun
  \/ \E sameContext, matchIndexSets \in BOOLEAN :
       Reject(sameContext, matchIndexSets) \/ Call(sameContext, matchIndexSets)
  \/ PlanIterations \/ PlanDpus \/ Alloc \/ SendThis \/ SendOther \/ SendPi
  \/ Launch \/ Return \/ ReadRow

Next == Host \/ (\E d \in running : RunDpu(d)) \/ Stopped

Spec == Init /\ [][Next]_vars

\* The host thread runs, and a launched DPU runs to the end of its program.
FairSpec == Spec /\ WF_vars(Host) /\ WF_vars(\E d \in running : RunDpu(d))

--------------------------------------------------------------------------------
Element(i, k) == Fun(ThisRow(i, k), OtherRow(i, k), i)
OldRows == [i \in s |-> RowThis(i)]
NewRows == [i \in s |-> [k \in 0..(phim - 1) |-> Element(i, k)]]

(***************************************************************************)
(* The plan uses more than half of the DPUs the library is compiled for    *)
(* and never more than all of them: the loop that doubles the DPUs of a    *)
(* row goes on long enough and stops in time, whatever the number of rows  *)
(* and of DPUs (helib_double_crt_dpu.cpp:41-61).                           *)
(***************************************************************************)
Planned == pc \notin {"call", "dry_run", "rejected", "plan_iterations", "plan_dpus"}
PlanFits == Planned => nr_dpus \in (NR_DPUS \div 2 + 1)..NR_DPUS

\* What the planning loops rely on and do not check: a polynomial has a prime.
SomePrimes == \A primes \in IndexSets : primes # {}

(***************************************************************************)
(* Why the plan fits: no iteration is left without a row, and the rows of  *)
(* an iteration have their DPUs.                                           *)
(***************************************************************************)
PlanInv ==
  /\ s \in IndexSets
  /\ nr_iterations \in Nat \ {0} /\ per_loop_dpus \in Nat \ {0}
  /\ per_iteration_loops \in Nat \ {0}
  /\ pc \in {"call", "plan_iterations"} => per_loop_dpus = 1
  /\ pc = "plan_dpus" \/ Planned => per_loop_dpus * per_iteration_loops <= NR_DPUS
  /\ Planned => per_loop_dpus * per_iteration_loops > NR_DPUS \div 2

\* The DPU for slice j of the row of prime i: the rows follow each other.
Place(i, j) == Cardinality({h \in s : h < i}) * per_loop_dpus + j

(***************************************************************************)
(* When the DPUs start, the transfers of both rows, of the primes and of   *)
(* the size have met: every slice of every row is on a DPU of its own,     *)
(* with the slice of the other row at the same place and the row's own     *)
(* prime, though they were sent in three loops with an iterator each       *)
(* (helib_double_crt_dpu.cpp:87-131).                                      *)
(***************************************************************************)
Holds(d, i, j) ==
  /\ mram[d].this = Slice(RowThis(i), j)
  /\ mram[d].other = Slice(RowOther(i), j)
  /\ mram[d].pi = i
  /\ mram[d].size = per_dpu_size
TransfersMeet ==
  pc = "wait" /\ running = Dpus =>
    /\ \A i \in s, j \in 0..(per_loop_dpus - 1) : Place(i, j) \in Dpus /\ Holds(Place(i, j), i, j)
    /\ \A d \in Dpus : \E i \in s, j \in 0..(per_loop_dpus - 1) : d = Place(i, j)

\* A row in host memory goes once from what it was to what DoubleCRT::Op makes
\* of it, and is never seen in any other state, as the caller of Op sees it.
Op == INSTANCE Elementwise WITH cell <- rows, orig <- OldRows, target <- NewRows
ImplementsOp == Op!Safety

\* A call that is neither dry nor rejected returns, and then all rows have been replaced:
\* no input makes it divide by zero, miss a DPU or a row (CtxtOffload's loops).
Completes == <>(pc \in {"dry_run", "rejected"} \/ (pc = "done" /\ rows = NewRows))

(***************************************************************************)
(* What the comment at DoubleCRT.cpp:223-225 says: dpu_Op_AddFun is Op with *)
(* the addition on the DPUs.  It is stated for a call that has returned.   *)
(***************************************************************************)
CopyOfOp == pc = "done" => rows = NewRows
================================================================================

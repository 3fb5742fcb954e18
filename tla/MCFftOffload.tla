------------------------------ MODULE MCFftOffload ------------------------------
(***************************************************************************)
(* The offloaded parts of a transform, called one after another by PGFFT;  *)
(* each call plans and allocates anew, so that one call of any method with *)
(* any arguments is what there is to check: a layer on the single-tasklet  *)
(* programs (FftLayer), a layer on the programs for several tasklets       *)
(* (FftLayer2), or a loop over arrays that are cut into portions           *)
(* (ArrayOffload).  The elements are terms, so that a wrong partner, a     *)
(* wrong factor or a second butterfly shows.                               *)
(***************************************************************************)
EXTENDS ButterflyShares, Sequences

CONSTANTS
  NR_DPUS, AVAILABLE_DPUS, NoInit,                              \* of all methods
  Layers, Given(_), Factor(_), Bf(_, _, _), Bf0(_, _),          \* of the layers
  LEAST, Sizes, Arrays, Results, Element(_, _), Compute(_, _, _)   \* of the arrays

VARIABLES
  method,                                   \* the method that was called
  pc, n, mram, running,                     \* of all methods
  blocks, size, i,                          \* of the layers
  nr_iterations, per_iteration_blocks, per_block_dpus, start,
  nr_dpus,
  per_dpu_size,                             \* of the arrays
  caller, converted                         \* xp and dpu_xp, or the arrays

MCGiven(e) == <<"xp", e>>
MCFactor(k) == <<"w", k>>
MCBf(x0, x1, w) == <<<<"sum", x0, x1, w>>, <<"difference", x0, x1, w>>>>
MCBf0(x0, x1) == <<<<"sum", x0, x1>>, <<"difference", x0, x1>>>>

\* The layers of transforms of 32 and 64 elements.
MCLayers == {<<1, 8>>, <<1, 32>>, <<1, 64>>, <<2, 16>>, <<4, 8>>, <<4, 16>>, <<8, 8>>, <<16, 8>>}

\* The butterfly loops.
MCArrays == <<"xp0", "xp1", "wtab">>
MCResults == <<"xp0", "xp1">>
MCElement(a, k) == <<a, k>>
MCCompute(a, x, zero) ==
  <<a, IF zero THEN "butterfly0" ELSE "butterfly", x["xp0"], x["xp1"], IF zero THEN <<>> ELSE x["wtab"]>>

Layer == INSTANCE FftLayer WITH xp <- caller, dpu_xp <- converted

Layer2 == INSTANCE FftLayer2 WITH xp <- caller, dpu_xp <- converted

\* The host sends the butterfly loops one block (helib_pgfft_dpu.cpp:851-852).  With
\* one tasklet the shares are those of the single-tasklet programs too; the programs
\* of the two layers divide theirs as TwoLayersKernel does.
LoopLaunch(s) == [blocks |-> 1, size |-> s, butterfly0 |-> 0]
LoopMissed(s) == MissedPlaces(LoopLaunch(s))
LoopRaced(s) == RacedPlaces(LoopLaunch(s))

Loop ==
  INSTANCE ArrayOffload WITH
    host <- caller, copy <- converted, Given <- Element, Missed <- LoopMissed, Raced <- LoopRaced

ASSUME MCConstants ==
  Layer!LayersConstants /\ Layer2!LayersConstants /\ Loop!ArraysConstants

layer_vars == <<blocks, i>>
plan_vars == <<nr_iterations, per_iteration_blocks, per_block_dpus, start>>
vars == <<method, pc, n, mram, running, size, layer_vars, plan_vars, nr_dpus, per_dpu_size, caller, converted>>

Unused(v) == v = 0

Init ==
  \/ /\ method = "layer" /\ Layer!Init
     /\ Unused(nr_dpus) /\ Unused(per_dpu_size)
  \/ /\ method = "layer_2" /\ Layer2!Init
     /\ Unused(nr_iterations) /\ Unused(per_iteration_blocks) /\ Unused(per_block_dpus)
     /\ Unused(start) /\ Unused(per_dpu_size)
  \/ /\ method = "loop" /\ Loop!Init
     /\ Unused(nr_iterations) /\ Unused(per_iteration_blocks) /\ Unused(per_block_dpus)
     /\ Unused(start) /\ Unused(nr_dpus) /\ Unused(blocks) /\ Unused(i)

Host ==
  \/ method = "layer" /\ Layer!Host /\ UNCHANGED <<method, nr_dpus, per_dpu_size>>
  \/ method = "layer_2" /\ Layer2!Host /\ UNCHANGED <<method, plan_vars, per_dpu_size>>
  \/ method = "loop" /\ Loop!Host /\ UNCHANGED <<method, layer_vars, plan_vars, nr_dpus>>

Dpu(d) ==
  \/ method = "layer" /\ Layer!RunDpu(d) /\ UNCHANGED <<method, nr_dpus, per_dpu_size>>
  \/ method = "layer_2" /\ Layer2!RunDpu(d) /\ UNCHANGED <<method, plan_vars, per_dpu_size>>
  \/ method = "loop" /\ Loop!RunDpu(d) /\ UNCHANGED <<method, layer_vars, plan_vars, nr_dpus>>

Stopped == pc \in {"done", "abort"} /\ UNCHANGED vars

Next == Host \/ (\E d \in running : Dpu(d)) \/ Stopped

Spec == Init /\ [][Next]_vars

\* The host thread runs, and a launched DPU runs to the end of its program.
FairSpec == Spec /\ WF_vars(Host) /\ WF_vars(\E d \in running : Dpu(d))

--------------------------------------------------------------------------------
(***************************************************************************)
(* The DPUs and iterations that the three methods plan cover every block   *)
(* or element once, and leave the kernels numbers they can divide          *)
(* (helib_pgfft_dpu.cpp:36-64,277-294,482-516; see FftLayer.tla,           *)
(* FftLayer2.tla and ArrayOffload.tla).                                    *)
(***************************************************************************)
PlansCover ==
  /\ method = "layer" => Layer!PlanCovers
  /\ method = "layer_2" => Layer2!KernelCanDivide
  /\ method = "loop" => Loop!PortionsCover /\ Loop!PortionsDivide

(***************************************************************************)
(* Rows and blocks meet on the DPU that is to combine them (FftLayer.tla,  *)
(* ArrayOffload.tla).                                                      *)
(***************************************************************************)
TransfersMeet ==
  /\ method = "layer" => Layer!TransfersMeet
  /\ method = "loop" => Loop!TransfersMeet

\* What the caller's arrays are before and after a method of PGFFT.cpp.
Old ==
  IF method = "loop" THEN Loop!OldArrays ELSE [e \in Layer!Elements |-> Given(e)]
New ==
  CASE method = "layer" -> Layer!NewXp
    [] method = "layer_2" -> Layer2!NewXp
    [] method = "loop" -> Loop!NewArrays

(***************************************************************************)
(* The caller's arrays go once from what they were to what the method of   *)
(* PGFFT.cpp makes of them; nothing of it shows before.                    *)
(***************************************************************************)
Op == INSTANCE Elementwise WITH cell <- caller, orig <- Old, target <- New
ImplementsMethod == Op!Safety

\* The method returns, and then no iteration, block or butterfly is left out.
Completes == <>(pc = "done" /\ caller = New)
================================================================================

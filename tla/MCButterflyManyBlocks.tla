------------------------- MODULE MCButterflyManyBlocks -------------------------
(* Constants for the model checking of ButterflyKernel on a DPU that computes *)
(* up to 512 blocks of eight elements alone; it is enough to mark the         *)
(* butterflies that have been computed.                                       *)
EXTENDS ButterflyKernel

MCMarks == {0, 1}
MCMarkBf(x0, x1, w) == <<1, 1>>
MCMarkBf0(x0, x1) == <<1, 1>>
MCNoMarks == [k \in 0..(BUFFER_SIZE - 1) |-> <<0, 0>>]
MCNoFactors == [k \in 0..(BUFFER_SIZE - 1) |-> 0]
MCManyBlocks == [blocks : {2, 512}, size : {4}, butterfly0 : {0}]
================================================================================

------------------------------ MODULE MCCtxtKernel ------------------------------
(* Constants for the model checking of CtxtKernel: dpu_add_ctxt.c modulo 5, *)
(* whose AddMod is the sum modulo n by AddModReduces of SpMulModProofs.     *)
EXTENDS CtxtKernel

MCPi == 5
MCValue == 0..(MCPi - 1)
MCFun(a, b) == (a + b) % MCPi

\* No element of the other row is zero: an addition left out or made twice shows.
MCRowThis == [k \in 0..(BUF_SIZE - 1) |-> (2 * k) % MCPi]
MCRowOther == [k \in 0..(BUF_SIZE - 1) |-> 1 + (k % (MCPi - 1))]

ASSUME MCWholeSizes == WholeSizes
================================================================================

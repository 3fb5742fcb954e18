------------------------------ MODULE Elementwise ------------------------------
(***************************************************************************)
(* The promise every offloaded method makes to its caller.  A CPU method   *)
(* (DoubleCRT::Op, COBRA, a butterfly loop) replaces the cells of an array *)
(* by values computed from the array it was given.  Its copy that runs on  *)
(* DPUs may do so in any order and in groups of any size, but a cell goes  *)
(* once from the value it had at the call to the value the CPU method      *)
(* would have stored there, it is never seen with any other value, and in  *)
(* the end every cell has been replaced.                                   *)
(***************************************************************************)

VARIABLES
  cell,    \* the array while the method runs
  orig,    \* what it holds at the call
  target   \* what the CPU method makes of it

vars == <<cell, orig, target>>

Init ==
  /\ DOMAIN orig = DOMAIN target
  /\ cell = orig

\* Some cells get their final value, the others keep what they have.
Replace ==
  /\ DOMAIN cell' = DOMAIN cell
  /\ \A k \in DOMAIN cell :
       cell'[k] = cell[k] \/ (cell[k] = orig[k] /\ cell'[k] = target[k])
  /\ UNCHANGED <<orig, target>>

Safety == Init /\ [][Replace]_vars

Spec == Safety /\ <>[](cell = target)
================================================================================

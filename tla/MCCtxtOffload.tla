----------------------------- MODULE MCCtxtOffload -----------------------------
(* Constants for the model checking of CtxtOffload; elements are terms, so that *)
(* an element combined with a wrong partner, prime or twice is a different one. *)
EXTENDS CtxtOffload

MCThisRow(i, k) == <<"this", i, k>>
MCOtherRow(i, k) == <<"other", i, k>>
MCFun(a, b, pi) == <<"fun", a, b, pi>>

\* One row to as many rows as there are DPUs, not always from the first prime.
MCIndexSets == {{1}, {0, 2}, {1, 2}, {0, 1, 2}, 0..4}

\* More rows than DPUs.
MCManyRows == {{1}, 0..5}

\* A single row, which is cut into as many slices as possible.
MCFewRows == {{1}}
================================================================================

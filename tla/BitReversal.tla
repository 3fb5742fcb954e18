------------------------------ MODULE BitReversal ------------------------------
(***************************************************************************)
(* The tables of reversed indices that CModulus.cpp and PGFFT.cpp build by *)
(* counting with the carry running from the top bit down, and the          *)
(* reference they are meant to agree with.                                 *)
(***************************************************************************)
EXTENDS Integers, FiniteSetsExt

Bit(a, b) == (a \div 2^b) % 2

(***************************************************************************)
(* RevInc of a k-bit number: the ones of a from bit k - 1 down are cleared *)
(* and the zero that ends them is set, when there is one.                  *)
(***************************************************************************)
RevInc(a, k) ==
  IF a = 2^k - 1 THEN 0
  ELSE LET zero == Max({b \in 0..(k - 1) : Bit(a, b) = 0})
       IN (a - (2^k - 2^(zero + 1))) + 2^zero

\* BRC_init: rev[i] is i steps of RevInc from 0.
BRC_table(k) ==
  LET rev[i \in 0..(2^k - 1)] == IF i = 0 THEN 0 ELSE RevInc(rev[i - 1], k) IN rev

\* The number whose k bits are those of a in reverse order.
Reversed(a, k) ==
  LET r[j \in Nat] == IF j = 0 THEN 0 ELSE 2 * r[j - 1] + Bit(a, j - 1) IN r[k]
================================================================================

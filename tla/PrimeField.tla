------------------------------ MODULE PrimeField -------------------------------
(***************************************************************************)
(* The arithmetic of the transforms over the integers modulo a prime that  *)
(* has every root of unity they use.  Cmodulus works in such a field.      *)
(* PGFFT works with complex numbers: only sums, products, the roots of     *)
(* unity exp(-2*pi*i/m) and their conjugates occur, so that a field with   *)
(* the same roots tells a right transform from a wrong one.                *)
(***************************************************************************)
EXTENDS Integers, TLC

CONSTANTS
  P,    \* the prime, small enough that a product of two residues is a TLC integer
  G     \* a primitive root modulo P

FieldElements == 0..(P - 1)

Plus(a, b) == (a + b) % P
Minus(a, b) == (a - b) % P
Times(a, b) == (a * b) % P

\* Square and multiply, on the exponents b and e of which b is still to be used.
Power(a, e) ==
  LET pow[b \in Nat] ==
        IF b = 0 THEN 1
        ELSE LET half == pow[b \div 2]
             IN IF b % 2 = 0 THEN Times(half, half) ELSE Times(Times(half, half), a)
  IN pow[e]

Reciprocal(a) == Power(a, P - 2)

\* The m-th root of unity that all roots of an order are powers of.
UnitRoot(m) == Power(G, (P - 1) \div m)

\* The function f; TLC computes its values once, where it would for each use.
Table(f) == f @@ <<>>
================================================================================

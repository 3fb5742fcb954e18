------------------------------ MODULE Polynomials ------------------------------
(***************************************************************************)
(* Polynomials modulo q as NTL computes with them: functions on 0..degree, *)
(* with leading zeros where a length is fixed.  Divisors are monic.        *)
(***************************************************************************)
EXTENDS Integers, SequencesExt, TLC

PolyLength(f) == Cardinality(DOMAIN f)

\* The function f; TLC computes its values once, where it would for each use.
Computed(f) == f @@ <<>>

PolyMul(f, g, q) ==
  Computed([i \in 0..(PolyLength(f) + PolyLength(g) - 2) |->
    FoldSet(LAMBDA j, s : IF i - j \in DOMAIN g THEN s + f[j] * g[i - j] ELSE s, 0, DOMAIN f) % q])

PolyAdd(f, g, q) ==
  Computed([i \in (DOMAIN f) \union (DOMAIN g) |->
     ((IF i \in DOMAIN f THEN f[i] ELSE 0) + (IF i \in DOMAIN g THEN g[i] ELSE 0)) % q])
PolyScale(c, f, q) == Computed([i \in DOMAIN f |-> (c * f[i]) % q])

(***************************************************************************)
(* Long division by the monic g: what is left of f, from the top degree    *)
(* down, holds the quotient above and the remainder below the degree of g. *)
(***************************************************************************)
LOCAL Divided(f, g, q) ==
  LET n == PolyLength(g) - 1
      len == PolyLength(f)
  IN FoldLeft(LAMBDA y, i :
                IF y[i] = 0 THEN y
                ELSE Computed([j \in DOMAIN y |->
                                 IF j \in (i - n)..(i - 1)
                                 THEN (y[j] - y[i] * g[j - (i - n)]) % q ELSE y[j]]),
              f, [k \in 1..(IF len > n THEN len - n ELSE 0) |-> len - k])

PolyRem(f, g, q) ==
  LET n == PolyLength(g) - 1
      y == Divided(f, g, q)
  IN Computed([j \in 0..(n - 1) |-> IF j \in DOMAIN f THEN y[j] ELSE 0])

PolyQuo(f, g, q) ==
  LET n == PolyLength(g) - 1
      y == Divided(f, g, q)
  IN Computed([j \in 0..(PolyLength(f) - 1 - n) |-> y[n + j]])

MulMod(f, g, h, q) == PolyRem(PolyMul(f, g, q), h, q)

\* f(X^k) modulo h, for an h that divides X^m - 1.
PowerSubstituted(f, k, m, h, q) ==
  PolyRem(FoldSet(LAMBDA j, y : [y EXCEPT ![(j * k) % m] = (@ + f[j]) % q],
                  [i \in 0..(m - 1) |-> 0], DOMAIN f), h, q)

Constant(c, n) == [i \in 0..(n - 1) |-> IF i = 0 THEN c ELSE 0]
Coefficients(n, q) == [0..(n - 1) -> 0..(q - 1)]
================================================================================

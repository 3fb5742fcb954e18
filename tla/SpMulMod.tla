-------------------------------- MODULE SpMulMod --------------------------------
(***************************************************************************)
(* The modular addition and multiplication of a coefficient in the DPU     *)
(* programs dpu_add_ctxt.c and dpu_mul_ctxt.c, with the widths of the      *)
(* integers as parameters.  Both come from NTL's sp_arith.h.  The operands *)
(* stay four bits below the width of a long, so that their sum fits it;    *)
(* unsigned long long stands for a type twice as wide as a long, but on a  *)
(* DPU both have 64 bits.  Both widths are allowed here.                   *)
(***************************************************************************)
EXTENDS Integers

CONSTANTS
  LONG_BITS,        \* NTL_BITS_PER_LONG
  LONG_LONG_BITS    \* width of unsigned long long

ASSUME WidthAssumption ==
  /\ LONG_BITS \in Nat /\ LONG_BITS > 6
  /\ LONG_LONG_BITS \in Nat /\ LONG_LONG_BITS >= LONG_BITS

NTL_SP_NBITS == LONG_BITS - 4
NTL_PRE_SHIFT2 == 2 * NTL_SP_NBITS + 2

\* Conversion to an unsigned type, and to the signed long of the same bits.
ULongLong(x) == x % 2^LONG_LONG_BITS
ULong(x) == x % 2^LONG_BITS
Long(x) == IF ULong(x) < 2^(LONG_BITS - 1) THEN ULong(x) ELSE ULong(x) - 2^LONG_BITS

\* Mutant of sp_CorrectExcess: the modulus itself is not reduced.
sp_CorrectExcess_Strict(x, n) == IF x - n > 0 THEN x - n ELSE x

sp_CorrectExcess(x, n) == IF x - n >= 0 THEN x - n ELSE x

AddMod(x, y, n) == sp_CorrectExcess(x + y, n)

(***************************************************************************)
(* What the host sends as DPU_SHAMT and DPU_INV, from NTL's mulmod_t of a  *)
(* prime: the shift that makes n an NTL_SP_NBITS-bit number and the        *)
(* quotient of 2^NTL_PRE_SHIFT2 by it.                                     *)
(***************************************************************************)
Shamt(n) == CHOOSE s \in 0..NTL_SP_NBITS : n * 2^s \in 2^(NTL_SP_NBITS - 1)..(2^NTL_SP_NBITS - 1)
Inv(n) == 2^NTL_PRE_SHIFT2 \div (n * 2^Shamt(n))

(***************************************************************************)
(* x >> NTL_BITS_PER_LONG.  The shift of a type that is not wider than     *)
(* that is undefined: the bits are all shifted out, or the amount counts   *)
(* modulo the width and nothing is shifted.                                *)
(***************************************************************************)
ll_get_hi(x) ==
  IF LONG_LONG_BITS > LONG_BITS THEN {ULong(x \div 2^LONG_BITS)} ELSE {0, ULong(x)}
ll_mul_hi(a, b) == ll_get_hi(ULongLong(a * b))

\* The values sp_NormalizedMulMod may return.
sp_NormalizedMulMod(a, b, n, ninv) ==
  LET U == ULongLong(a * b)
      H == ULong(U \div 2^(NTL_SP_NBITS - 2))
  IN {sp_CorrectExcess(Long(U - Q * n), n) : Q \in ll_mul_hi(H, ninv)}

MulMod(a, b, n, inv, shamt) ==
  {r \div 2^shamt : r \in sp_NormalizedMulMod(a, b * 2^shamt, n * 2^shamt, inv)}

VARIABLES
  op,          \* "add" or "mul"
  a, b, pi,    \* the operands
  result       \* -1 before the operation

vars == <<op, a, b, pi, result>>

Init ==
  /\ op \in {"add", "mul"}
  /\ pi \in 2..(2^NTL_SP_NBITS - 1)
  /\ a \in 0..(pi - 1) /\ b \in 0..(pi - 1)
  /\ result = -1

\* row_this[j] = AddMod(row_this[j], row_other[j], DPU_PI)
Add ==
  /\ op = "add" /\ result = -1
  /\ result' = Long(AddMod(a, b, pi))
  /\ UNCHANGED <<op, a, b, pi>>

\* row_this[j] = MulMod(row_this[j], row_other[j], DPU_PI, DPU_INV, DPU_SHAMT)
Mul ==
  /\ op = "mul" /\ result = -1
  /\ result' \in MulMod(a, b, pi, Inv(pi), Shamt(pi))
  /\ UNCHANGED <<op, a, b, pi>>

Computed == result # -1 /\ UNCHANGED vars

Next == Add \/ Mul \/ Computed

Spec == Init /\ [][Next]_vars

--------------------------------------------------------------------------------
(***************************************************************************)
(* What the methods are copied for: the sum and the product modulo pi, in  *)
(* spite of the quotient being estimated from a truncated inverse.         *)
(***************************************************************************)
ModularResult ==
  result # -1 => result = (IF op = "add" THEN a + b ELSE a * b) % pi

\* Whether the product keeps all its bits: the type has place for them, or the product
\* of the normalised operands is so small that its quotient is estimated as 0.
KeepsProduct(x, y, n) ==
  \/ LONG_LONG_BITS >= 2 * LONG_BITS
  \/ x * y * 2^Shamt(n) < 2^(NTL_SP_NBITS - 2)

(***************************************************************************)
(* What the two methods keep of that on a DPU too: every sum is right, and *)
(* so is every product that loses no bit (dpu_add_ctxt.c:44-57,            *)
(* dpu_mul_ctxt.c:129-171).                                                *)
(***************************************************************************)
ModularWithinWidth ==
  result # -1 =>
    /\ op = "add" => result = (a + b) % pi
    /\ op = "mul" /\ KeepsProduct(a, b, pi) => result = (a * b) % pi
================================================================================

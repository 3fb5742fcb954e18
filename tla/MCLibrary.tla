------------------------------- MODULE MCLibrary -------------------------------
(***************************************************************************)
(* Library on three small rings: X^2 + X + 1 with plaintexts modulo 4 and  *)
(* two secret keys, Phi_5(X) with plaintexts modulo 7, X^4 + 1 modulo 3.  *)
(***************************************************************************)
EXTENDS Library

Parameters(m, p, r, small, ctxt, special, nDgts, normBnd100) ==
  [m |-> m, p |-> p, r |-> r, small |-> small, ctxt |-> ctxt, special |-> special,
   nDgts |-> nDgts, normBnd100 |-> normBnd100]
MCContexts ==
  {Parameters(3, 2, 2, <<7>>, <<31, 37, 43>>, <<19, 157>>, 2, 116),
   Parameters(5, 7, 1, <<11>>, <<41, 61, 101>>, <<151>>, 3, 124),
   Parameters(8, 3, 1, <<17>>, <<41, 73, 89>>, <<97>>, 2, 100)}

Polynomial(c, coeffs) == [j \in 0..(c.phim - 1) |-> IF j < Len(coeffs) THEN coeffs[j + 1] ELSE 0]

MCSecretKeys(c) ==
  IF c.m = 3 THEN {<<Polynomial(c, <<1, -1>>), Polynomial(c, <<0, 1>>)>>}
  ELSE {<<Polynomial(c, <<1, -1>>)>>}
MCStrategies(c) ==
  CASE c.m = 3 -> {<<"full", "1 -> 0">>}
    [] c.m = 5 -> {<<"minimal">>, <<"bsgs">>}
    [] c.m = 8 -> {<<"full">>, <<"all">>, <<"minimal">>, <<"some">>}
MCPlaintexts(c) == {<<Polynomial(c, <<2, 0>>), Polynomial(c, <<1, 2>>)>>}
MCConstants(c) == {Polynomial(c, <<0, 2>>)}
MCOperations(c) ==
  {"addCtxt", "subCtxt", "negate", "addConstant", "multByConstant", "multLowLvl", "square", "multiplyBy",
   "multiplyBy2", "reLinearize", "cleanUp", "dropPrimes", "bringToSet", "automorph", "smartAutomorph",
   "frobenius", "reducePtxtSpace", "divideByP", "divideBy2", "DummyEncrypt", "swap"}
MCMaxOps(c) == IF c.m = 8 THEN 2 ELSE 3
================================================================================

--------------------------------- MODULE Pgfft ---------------------------------
(***************************************************************************)
(* The FFT of PGFFT.cpp, which the embedding of CKKS plaintexts uses: for  *)
(* powers of two a transform in place that leaves its output in bit-       *)
(* reversed order and a bit-reverse copy, for other lengths Bluestein's    *)
(* method with transforms of a power of two that are truncated where that  *)
(* saves work.  Arrays are functions on 0..(length - 1) and a method that  *)
(* works in place returns the whole array.                                 *)
(***************************************************************************)
EXTENDS PrimeField, BitReversal, TLC

CONSTANTS
  PGFFT_NEW_FFT_THRESH,   \* transforms of at most 2^THRESH elements go layer by layer
  PGFFT_FFT_RDUP,         \* truncated lengths are multiples of 2^RDUP
  PGFFT_BRC_THRESH,       \* arrays of more than 2^THRESH elements are copied by COBRA
  PGFFT_BRC_Q             \* in pieces of 2^Q elements

Indices(n) == 0..(n - 1)
Part(x, from, n) == [j \in Indices(n) |-> x[from + j]]
\* x with the elements of part from index from on.
Overwritten(x, from, part) ==
  [j \in DOMAIN x |-> IF j - from \in DOMAIN part THEN part[j - from] ELSE x[j]]

\* k = 0; while ((1L << k) < n) k++
Log2Ceil(n) == CHOOSE k \in 0..n : 2^k >= n /\ (k = 0 \/ 2^(k - 1) < n)

\* The roots of unity tab[s][j] = exp(-2*pi*i * j / 2^s).
compute_table(k) ==
  [s \in 2..k |-> LET w[j \in Indices(2^(s - 1))] ==
                        IF j = 0 THEN 1 ELSE Times(w[j - 1], UnitRoot(2^s))
                  IN w]

(***************************************************************************)
(* The butterfly loops take four elements a turn, and at least four.  x    *)
(* holds both halves that they combine.                                    *)
(***************************************************************************)
Touched(size) == IF size <= 4 THEN 4 ELSE ((size + 3) \div 4) * 4

fwd_butterfly_loop(size, x, wtab) ==
  LET half == Cardinality(DOMAIN x) \div 2
  IN [p \in DOMAIN x |->
        LET j == p % half
        IN IF j >= Touched(size) THEN x[p]
           ELSE IF p < half THEN Plus(x[j], x[j + half])
           ELSE Times(Minus(x[j], x[j + half]), wtab[j])]

inv_butterfly_loop(size, x, wtab) ==
  LET half == Cardinality(DOMAIN x) \div 2
  IN [p \in DOMAIN x |->
        LET j == p % half
            t == Times(x[j + half], Reciprocal(wtab[j]))
        IN IF j >= Touched(size) THEN x[p]
           ELSE IF p < half THEN Plus(x[j], t) ELSE Minus(x[j], t)]

mul_loop(size, x, y) == [j \in DOMAIN x |-> IF j < size THEN Times(x[j], y[j]) ELSE x[j]]

\* A method on each of the blocks of size elements.
OnBlocks(method(_), x, size) ==
  FoldSet(LAMBDA b, y : Overwritten(y, b * size, method(Part(x, b * size, size))),
          x, Indices(Cardinality(DOMAIN x) \div size))

new_fft_layer(x, size, wtab) ==
  OnBlocks(LAMBDA b : fwd_butterfly_loop(size \div 2, b, wtab), x, size)

new_ifft_layer(x, size, wtab) ==
  OnBlocks(LAMBDA b : inv_butterfly_loop(size \div 2, b, wtab), x, size)

\* Four elements; multiplication by (0, -1) is the exchange of two coordinates.
LastTwoLayers(u) ==
  LET v0 == Plus(u[0], u[2])   v2 == Minus(u[0], u[2])
      v1 == Plus(u[1], u[3])   v3 == Times(Minus(u[1], u[3]), UnitRoot(4))
  IN (0 :> Plus(v0, v1)) @@ (1 :> Minus(v0, v1)) @@ (2 :> Plus(v2, v3)) @@ (3 :> Minus(v2, v3))

new_fft_last_two_layers(x) == OnBlocks(LastTwoLayers, x, 4)

FirstTwoLayers(u) ==
  LET v0 == Plus(u[0], u[1])   v1 == Minus(u[0], u[1])
      v2 == Plus(u[2], u[3])   v3 == Times(Minus(u[2], u[3]), Reciprocal(UnitRoot(4)))
  IN (0 :> Plus(v0, v2)) @@ (2 :> Minus(v0, v2)) @@ (1 :> Plus(v1, v3)) @@ (3 :> Minus(v1, v3))

new_ifft_first_two_layers(x) == OnBlocks(FirstTwoLayers, x, 4)

TwoPoints(x) == (0 :> Plus(x[0], x[1])) @@ (1 :> Minus(x[0], x[1]))

new_fft_base(x, lgN, tab) ==
  LET after[j \in 3..(lgN + 1)] ==
        IF j > lgN THEN x ELSE new_fft_layer(after[j + 1], 2^j, tab[j])
  IN CASE lgN = 0 -> x
       [] lgN = 1 -> TwoPoints(x)
       [] OTHER -> new_fft_last_two_layers(after[3])

new_ifft_base(x, lgN, tab) ==
  LET after[j \in 2..lgN] ==
        IF j = 2 THEN new_ifft_first_two_layers(x) ELSE new_ifft_layer(after[j - 1], 2^j, tab[j])
  IN CASE lgN = 0 -> x
       [] lgN = 1 -> TwoPoints(x)
       [] OTHER -> after[lgN]

\* X -> (X, w*X) for the elements from an index on, of the halves of x.
Twiddled(x, range, wtab) ==
  LET half == Cardinality(DOMAIN x) \div 2
  IN [p \in DOMAIN x |->
        IF p - half \in range THEN Times(x[p - half], wtab[p - half]) ELSE x[p]]

(***************************************************************************)
(* The truncated transform: the first yn outputs (in bit-reversed order)   *)
(* of an input of which only the first xn of 2^lgN elements are not zero.  *)
(***************************************************************************)
RECURSIVE new_fft_short(_, _, _, _, _)
new_fft_short(x, yn, xn, lgN, tab) ==
  LET half == 2^(lgN - 1)
      InLow(y, yn0, xn0) ==
        Overwritten(y, 0, new_fft_short(Part(y, 0, half), yn0, xn0, lgN - 1, tab))
      InHigh(y, yn1, xn1) ==
        Overwritten(y, half, new_fft_short(Part(y, half, half), yn1, xn1, lgN - 1, tab))
      Sum == [j \in DOMAIN x |-> IF j < xn - half THEN Plus(x[j], x[j + half]) ELSE x[j]]
  IN CASE yn = 2^lgN /\ xn = 2^lgN /\ lgN <= PGFFT_NEW_FFT_THRESH ->
            new_fft_base(x, lgN, tab)
       [] yn <= half /\ xn <= half -> InLow(x, yn, xn)
       [] yn <= half /\ xn > half  -> InLow(Sum, yn, half)
       [] yn > half /\ xn <= half ->
            InHigh(InLow(Twiddled(x, Indices(xn), tab[lgN]), half, xn), yn - half, xn)
       [] OTHER ->
            LET y == Twiddled(fwd_butterfly_loop(xn - half, x, tab[lgN]),
                              (xn - half)..(half - 1), tab[lgN])
            IN InHigh(InLow(y, half, half), yn - half, half)

new_fft(x, lgN, tab) == new_fft_short(x, 2^lgN, 2^lgN, lgN, tab)

(***************************************************************************)
(* The truncated inverse: from the first yn outputs of the transform to    *)
(* 2^lgN times the first yn elements of its input.  The other elements are *)
(* zero in short1; in short2 they are given, times 2^lgN, behind the yn.   *)
(***************************************************************************)
\* X -> 2X
Doubled(x, range) == [j \in DOMAIN x |-> IF j \in range THEN Times(2, x[j]) ELSE x[j]]

RECURSIVE new_ifft_short1(_, _, _, _), new_ifft_short2(_, _, _, _)
new_ifft_short1(x, yn, lgN, tab) ==
  LET half == 2^(lgN - 1)
      InLow(y, yn0) == Overwritten(y, 0, new_ifft_short1(Part(y, 0, half), yn0, lgN - 1, tab))
      InHigh(y, yn1) ==
        Overwritten(y, half, new_ifft_short2(Part(y, half, half), yn1, lgN - 1, tab))
      Rest == (yn - half)..(half - 1)
  IN CASE yn = 2^lgN /\ lgN <= PGFFT_NEW_FFT_THRESH -> new_ifft_base(x, lgN, tab)
       [] yn <= half -> InLow(Doubled(x, Indices(yn)), yn)
       [] OTHER ->
            inv_butterfly_loop(
              yn - half,
              InHigh(Doubled(Twiddled(InLow(x, half), Rest, tab[lgN]), Rest), yn - half),
              tab[lgN])

new_ifft_short2(x, yn, lgN, tab) ==
  LET half == 2^(lgN - 1)
      InLow(y, yn0) == Overwritten(y, 0, new_ifft_short2(Part(y, 0, half), yn0, lgN - 1, tab))
      Inverted(y) == Overwritten(y, 0, new_ifft_short1(Part(y, 0, half), half, lgN - 1, tab))
      InHigh(y, yn1) ==
        Overwritten(y, half, new_ifft_short2(Part(y, half, half), yn1, lgN - 1, tab))
      \* (X, Y) -> X + Y for the rest, and X - Y for the first yn afterwards
      Rest(y) == [j \in DOMAIN y |-> IF j \in yn..(half - 1) THEN Plus(y[j], y[j + half]) ELSE y[j]]
      First(y) == [j \in DOMAIN y |-> IF j < yn THEN Minus(y[j], y[j + half]) ELSE y[j]]
      \* (X, Y) -> (2X - Y, w*(X - Y))
      Crossed(y) ==
        [p \in DOMAIN y |->
           LET j == p % half
               u == Minus(y[j], y[j + half])
           IN CASE j < yn - half -> y[p]
                [] j >= yn - half /\ p < half  -> Plus(y[j], u)
                [] j >= yn - half /\ p >= half -> Times(u, tab[lgN][j])]
  IN CASE yn = 2^lgN /\ lgN <= PGFFT_NEW_FFT_THRESH -> new_ifft_base(x, lgN, tab)
       [] yn <= half -> First(InLow(Rest(Doubled(x, Indices(yn))), yn))
       [] OTHER ->
            inv_butterfly_loop(yn - half, InHigh(Crossed(Inverted(x)), yn - half), tab[lgN])

new_ifft(x, lgN, tab) == new_ifft_short1(x, 2^lgN, lgN, tab)

--------------------------------------------------------------------------------
(***************************************************************************)
(* Lengths that are powers of two.                                         *)
(***************************************************************************)
BasicBitReverseCopy(x, k, rev) == [y \in DOMAIN x |-> x[CHOOSE i \in DOMAIN x : rev[i] = y]]

(***************************************************************************)
(* Block b of pieces a goes to T, the piece a at row rev1[a]; column c of  *)
(* T goes to the row rev1[c] of block rev[b] of the copy.                  *)
(***************************************************************************)
COBRA(x, k, rev, rev1) ==
  LET q == PGFFT_BRC_Q
      k1 == k - 2 * q
      From(table, v) == CHOOSE i \in DOMAIN table : table[i] = v
  IN [y \in DOMAIN x |->
        LET c == From(rev1, y \div 2^(k1 + q))
            b == From(rev, (y \div 2^q) % 2^k1)
            a == From(rev1, y % 2^q)
        IN x[(a * 2^(k1 + q) + b * 2^q) + c]]

pow2_comp(src, n) ==
  LET k == Log2Ceil(n)
      x == new_fft(src, k, compute_table(k))
      q == PGFFT_BRC_Q
  IN IF k <= PGFFT_BRC_THRESH THEN BasicBitReverseCopy(x, k, BRC_table(k))
     ELSE COBRA(x, k, BRC_table(k - 2 * q), BRC_table(q))

--------------------------------------------------------------------------------
(***************************************************************************)
(* Bluestein's method: the transform as a convolution with powers of a     *)
(* 2n-th root of unity (an n-th root when n is odd and the convolution     *)
(* truncated), whose exponents i^2 (i^2 / 2 modulo n) come by adding.      *)
(***************************************************************************)
\* Mutant of FFTRoundUp: the length is cut to the multiple of 2^RDUP below.
FFTRoundUp_Down(xn, k) == IF xn < 2^PGFFT_FFT_RDUP THEN 2^k ELSE xn - (xn % 2^PGFFT_FFT_RDUP)

\* The least admissible length from xn on; lengths just below 2^k become 2^k.
FFTRoundUp(xn, k) ==
  LET unit == 2^PGFFT_FFT_RDUP
      up == ((xn + unit - 1) \div unit) * unit
      limit == 2^k - (2^k \div (IF k >= 10 THEN 16 ELSE 8))
  IN IF xn <= 0 \/ up > limit THEN 2^k ELSE up

SquaresModulo2n(n) ==
  LET i_sqr[i \in Indices(n)] == IF i = 0 THEN 0 ELSE (i_sqr[i - 1] + 2 * i - 1) % (2 * n)
  IN i_sqr

HalfSquaresModulo(n) ==
  LET i_sqr[i \in Indices(n)] ==
        IF i = 0 THEN 0 ELSE (i_sqr[i - 1] + i + ((n - 1) \div 2)) % n
  IN i_sqr

\* The powers i -> root^(exponent of i): exponents modulo 2n, or n for odd n truncated.
PowersOf(exponents, order) == [i \in DOMAIN exponents |-> Power(UnitRoot(order), exponents[i])]

Inverses(powers) == [i \in DOMAIN powers |-> Reciprocal(powers[i])]
Scaled(x, N) == [i \in DOMAIN x |-> Times(x[i], Reciprocal(N % P))]
\* An array of N elements that starts with x and ends with zeros.
Padded(x, N) == [i \in Indices(N) |-> IF i \in DOMAIN x THEN x[i] ELSE 0]

bluestein_precomp(n) ==
  LET k == Log2Ceil(2 * n - 1)
      powers == PowersOf(SquaresModulo2n(n), 2 * n)
      Rb == [i \in Indices(2^k) |->
               CASE i \in (n - 1)..(2 * n - 2) -> Inverses(powers)[i - (n - 1)]
                 [] i \in 0..(n - 2) -> Inverses(powers)[(n - 1) - i]
                 [] OTHER -> 0]
  IN [k |-> k, powers |-> powers, Rb |-> Scaled(new_fft(Rb, k, compute_table(k)), 2^k)]

bluestein_comp(src, n, pre) ==
  LET N == 2^pre.k
      tab == compute_table(pre.k)
      x == mul_loop(N, new_fft(Padded(mul_loop(n, src, pre.powers), N), pre.k, tab), pre.Rb)
      y == new_ifft(x, pre.k, tab)
  IN [i \in Indices(n) |-> Times(y[n - 1 + i], pre.powers[i])]

bluestein_precomp1(n) ==
  LET k == Log2Ceil(2 * n - 1)
      powers == IF n % 2 = 0 THEN PowersOf(SquaresModulo2n(n), 2 * n)
                ELSE PowersOf(HalfSquaresModulo(n), n)
      Rb == Padded(Inverses(powers), 2^k)
  IN [k |-> k, powers |-> powers, Rb |-> Scaled(new_fft(Rb, k, compute_table(k)), 2^k)]

bluestein_comp1(src, n, pre) ==
  LET tab == compute_table(pre.k)
      len == FFTRoundUp(2 * n - 1, pre.k)
      ilen == FFTRoundUp(n, pre.k)
      x == new_fft_short(Padded(mul_loop(n, src, pre.powers), 2^pre.k), len, ilen, pre.k, tab)
      y == new_ifft_short1(mul_loop(len, x, pre.Rb), len, pre.k, tab)
  IN [i \in Indices(n) |->
        Times(IF i < n - 1 THEN Plus(y[i], y[n + i]) ELSE y[i], pre.powers[i])]

--------------------------------------------------------------------------------
choose_strategy(n) ==
  LET k == Log2Ceil(2 * n - 1)
  IN CASE n = 1 -> "null"
       [] n > 1 /\ n = 2^Log2Ceil(n) -> "pow2"
       [] OTHER -> IF FFTRoundUp(2 * n - 1, k) = 2^k THEN "blue" ELSE "tblue"

\* What apply leaves in dst; the transform of one element writes nothing.
apply(src, dst, n) ==
  CASE choose_strategy(n) = "null"  -> dst
    [] choose_strategy(n) = "pow2"  -> pow2_comp(src, n)
    [] choose_strategy(n) = "blue"  -> bluestein_comp(src, n, bluestein_precomp(n))
    [] choose_strategy(n) = "tblue" -> bluestein_comp1(src, n, bluestein_precomp1(n))

(***************************************************************************)
(* The discrete Fourier transform that apply is meant to compute.          *)
(***************************************************************************)
DFT(x, n) ==
  [j \in Indices(n) |->
     MapThenSumSet(LAMBDA i : Times(x[i], Power(UnitRoot(n), (i * j) % n)), Indices(n)) % P]
================================================================================

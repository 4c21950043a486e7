------------------------------- MODULE Words -------------------------------
(***************************************************************************)
(* The machine words of the transform library                              *)
(* (src/incomplete-rexl): wrapping arithmetic, the high and low halves of  *)
(* products, and the reductions built on them, lazy ones included.         *)
(*                                                                         *)
(* A word has WordBits bits (64 in the code), an even number; the          *)
(* fused multiply-add of AVX-512 IFMA works on the low IfmaBits of a word  *)
(* (52). Products are put together from half words, so that no number of   *)
(* the model outgrows a word by more than a bit.                           *)
(***************************************************************************)
EXTENDS Integers

CONSTANTS
    WordBits,  \* bits of a word
    IfmaBits   \* bits of the IFMA multiplier

ASSUME WordsAssumption ==
    /\ WordBits \in Nat /\ WordBits % 2 = 0 /\ WordBits > 2
    /\ IfmaBits \in 3..WordBits

HalfBits == WordBits \div 2
Word == 2^WordBits
Half == 2^HalfBits
Ifma == 2^IfmaBits

WordSet == 0..(Word - 1)

\* What the proofs use of powers of two.
ASSUME PowersAssumption ==
    /\ 2^1 = 2
    /\ \A a \in 0..WordBits : 2^a \in Nat \ {0}
    /\ \A a \in 0..WordBits : \A b \in 0..(WordBits - a) : 2^(a + b) = 2^a * 2^b

Lesser(x, y) == IF x < y THEN x ELSE y

-----------------------------------------------------------------------------
\* wrapping_add, wrapping_sub and the 64-bit lanes of AVX-512.
Plus(x, y) == (x + y) % Word
Minus(x, y) == (x + (Word - y)) % Word

High(x) == x \div Half
Low(x) == x % Half

\* wrapping_mul, _mm512_mullo_epi64.
MulLo(x, y) ==
    LET cross == High(x) * Low(y) + Low(x) * High(y)
    IN (Low(x) * Low(y) + (cross % Half) * Half) % Word

\* mm512_hexl_mulhi_epi_64, which is multiply_u64_hi::<64>.
MulHi(x, y) ==
    LET mid == Low(x) * High(y) + (Low(x) * Low(y)) \div Half
    IN High(x) * High(y) + mid \div Half + (High(x) * Low(y) + (mid % Half)) \div Half

\* mm512_hexl_mulhi_approx_epi_64: the lowest product is left out.
MulHiApprox(x, y) ==
    LET mid == Low(x) * High(y)
    IN High(x) * High(y) + mid \div Half + (High(x) * Low(y) + (mid % Half)) \div Half

\* _mm512_madd52hi_epu64 and _mm512_madd52lo_epu64.
MulHiIfma(x, y) == ((x % Ifma) * (y % Ifma)) \div Ifma
MaddLoIfma(x, y, z) == Plus(x, ((y % Ifma) * (z % Ifma)) % Ifma)

\* mm512_hexl_mullo_epi_52, mm512_hexl_mullo_add_lo_epi_52.
MulLoIfma(x, y) == MaddLoIfma(0, x, y)
MulAddLoIfma(x, y, z) == MaddLoIfma(x, y, z) % Ifma

-----------------------------------------------------------------------------
(***************************************************************************)
(* Reductions. A value below k q is held lazily with factor k.             *)
(***************************************************************************)

\* MultiplyFactor::new(operand, bits, q), Shoup's quotient of an operand:
\* the quotient of operand * 2^bits, by two shifts.
BarrettFactor(operand, bits, q) ==
    LET shift == bits \div 2
        top == operand * 2^(bits - shift)
    IN (top \div q) * 2^shift + ((top % q) * 2^shift) \div q

\* multiply_mod_lazy::<64>: below 2 q for every word x.
MultiplyLazy(x, y, factor, q) == Minus(MulLo(y, x), MulLo(MulHi(x, factor), q))

\* reduce_mod::<2>, and mm512_hexl_small_mod_epu64::<2> as a minimum.
ReduceOnce(x, q) == IF x >= q THEN x - q ELSE x
ReduceOnceMin(x, q) == Lesser(x, Minus(x, q))

\* reduce_mod::<4> and ::<8>.
ReduceTwice(x, q) == ReduceOnce(ReduceOnce(x, 2 * q), q)
ReduceThrice(x, q) == ReduceTwice(ReduceOnce(x, 4 * q), q)

\* add_uint_mod, sub_uint_mod.
AddMod(x, y, q) == ReduceOnce(Plus(x, y), q)
SubMod(x, y, q) == ReduceOnce(Minus(Plus(x, q), y), q)

\* mm512_hexl_small_sub_mod_epi64: the sign bit tells a borrow.
Negative(x) == x >= Word \div 2
SubModSigned(x, y, q) ==
    LET diff == Minus(x, y) IN IF Negative(diff) THEN Plus(diff, q) ELSE diff

\* log2: the place of the highest bit.
Log2(x) == IF x = 0 THEN 0 ELSE CHOOSE k \in 0..WordBits : 2^k <= x /\ x < 2^(k + 1)

\* barrett_reduce_128 of the product of x and y, as multiply_mod calls it.
MultiplyMod(x, y, q) ==
    LET shift == Log2(q) - 1
        lo == MulLo(x, y)
        factor == BarrettFactor(2^shift, WordBits, q)
        \* lo >> shift | hi << (64 - shift)
        c1 == (lo \div 2^shift + MulHi(x, y) * 2^(WordBits - shift)) % Word
    IN ReduceOnce(Minus(lo, MulLo(MulHi(c1, factor), q)), q)

\* barrett_reduce64 with the two output factors it has.
BarrettReduce(x, q, factor) ==
    ReduceOnce(Minus(x, MulLo(MulHi(x, factor), q)), q)
BarrettReduceLazy(x, q, factor) == Minus(x, MulLo(MulHi(x, factor), q))

\* multiply_mod_precon.
MultiplyPrecon(x, y, factor, q) == ReduceOnce(MultiplyLazy(x, y, factor, q), q)
=============================================================================

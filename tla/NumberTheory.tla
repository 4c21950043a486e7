---------------------------- MODULE NumberTheory ----------------------------
(***************************************************************************)
(* Number theory of the transform library                                  *)
(* (src/incomplete-rexl/src/number_theory.rs): powers and inverses modulo  *)
(* a prime, primitive roots, and the test for primes.                      *)
(***************************************************************************)
EXTENDS Words

\* pow_mod: square and multiply, the low bit of the exponent first.
RECURSIVE PowerStep(_, _, _, _)
PowerStep(result, base, exp, q) ==
    IF exp = 0 THEN result
    ELSE PowerStep(IF exp % 2 = 1 THEN MultiplyMod(result, base, q) ELSE result,
                   MultiplyMod(base, base, q), exp \div 2, q)

PowMod(base, exp, q) == PowerStep(1, base % q, exp, q)

\* inverse_mod: Euclid's algorithm on a and m with the cofactor x of a kept as
\* a signed word, m0 added at the end when it is negative.
RECURSIVE EuclidStep(_, _, _, _)
EuclidStep(a, m, x, y) ==
    IF a <= 1 THEN x ELSE EuclidStep(m, a % m, y, x - (a \div m) * y)

InverseMod(input, q) ==
    LET x == EuclidStep(input % q, q, 1, 0) IN IF x < 0 THEN x + q ELSE x

\* is_primitive_root of an order that is a power of two.
IsPrimitiveRoot(root, order, q) ==
    /\ root # 0
    /\ PowMod(root, order \div 2, q) = q - 1

-----------------------------------------------------------------------------
\* is_prime: Miller and Rabin's test with the first twelve primes as bases.
Bases == {2, 3, 5, 7, 11, 13, 17, 19, 23, 29, 31, 37}

\* The loop from r = 63 down: the power of two in n - 1.
TwoPart(n) == IF n % 2 = 0 THEN 0
              ELSE CHOOSE r \in 1..WordBits :
                       /\ (n - 1) % (2^r) = 0
                       /\ (n - 1) % (2^(r + 1)) # 0

\* One base: a^d is one, or a square of it is -1 before the exponent is n - 1.
PassesBase(a, r, n) ==
    LET x == PowMod(a, (n - 1) \div 2^r, n)
    IN \/ x = 1
       \/ \E k \in 0..(r - 1) : PowMod(x, 2^k, n) = n - 1

IsPrime(n) ==
    \/ n \in Bases
    \/ /\ \A a \in Bases : n % a # 0
       /\ TwoPart(n) # 0
       /\ \A a \in Bases : PassesBase(a, TwoPart(n), n)
=============================================================================

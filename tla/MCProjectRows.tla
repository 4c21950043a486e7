--------------------------- MODULE MCProjectRows ---------------------------
(***************************************************************************)
(* The coarse projection's kernels with registers of six bits and of 95,    *)
(* blocks of eight digits and windows of at most three.  Digits: constant,  *)
(* alternating, growing and falling block by block, and single large ones.  *)
(* Matrices: the same sign, the sign of the digit, mixtures with zeros.     *)
(***************************************************************************)
EXTENDS ProjectRows

Lengths == {3, 5, 8, 16, 24, 32}

Alternating(e) == IF e % 2 = 0 THEN 1 ELSE -1

Digits(len) ==
    LET At(F(_)) == [e \in 0 .. (len - 1) |-> F(e)]
    IN  {At(LAMBDA e : v) : v \in {0, 1, 2, 3, -4, 5, 11, 31, -32}}
        \union {At(LAMBDA e : v * Alternating(e)) : v \in {1, 2, 3, 10}}
        \union {At(LAMBDA e : (1 + (e \div 8)) * Alternating(e)),
                At(LAMBDA e : IF e < 8 THEN 3 ELSE 1),
                At(LAMBDA e : IF e < 8 THEN 0 ELSE 2),
                At(LAMBDA e : IF e >= len - 3 THEN 4 ELSE 2),
                At(LAMBDA e : IF e = len - 1 THEN -32 ELSE 1)}

\* The digits of the second slice, against those of the first.
SecondSlices(d) == {d, [e \in DOMAIN d |-> IF e % 3 = 0 THEN -1 ELSE 1]}

Planes(len, d) ==
    LET all == 0 .. (len - 1)
        Not(S) == all \ S
        positive == {e \in all : d[e] > 0}
        sparse == {e \in all : e % 3 # 1}
    IN  {[pos |-> <<all, {}>>, nonZero |-> <<all, all>>],
         [pos |-> <<positive, Not(positive)>>, nonZero |-> <<all, sparse>>],
         [pos |-> <<{e \in all : e % 4 < 2}, all>>,
          nonZero |-> <<sparse, {e \in all : e % 5 = 4}>>]}

FromZero(two) == [r \in 0 .. 1 |-> two[r + 1]]

InputsOf(len) ==
    UNION {UNION {{[len |-> len, digit |-> FromZero(<<d, d2>>),
                    pos |-> FromZero(p.pos), nonZero |-> FromZero(p.nonZero)] :
                     p \in Planes(len, d)} : d2 \in SecondSlices(d)} : d \in Digits(len)}

MCInputs == UNION {InputsOf(len) : len \in Lengths}
=============================================================================

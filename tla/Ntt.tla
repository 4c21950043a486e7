-------------------------------- MODULE Ntt --------------------------------
(***************************************************************************)
(* The negacyclic transform of the library                                 *)
(* (src/incomplete-rexl/src/ntt.rs): its tables, the scalar and the three  *)
(* AVX-512 paths, forward and inverse, over consecutive blocks, and the    *)
(* recursion above BaseSize (1024 in the code).                            *)
(*                                                                         *)
(* A call is a schedule of passes over the data, each a step. Residues are *)
(* held lazily between passes, below four (forward) or two (inverse) times *)
(* the modulus; the passes of short stride work on eight lanes, loaded and *)
(* stored through permutations, so that between them the data is not in    *)
(* its order. Arrays of the code count from 0, sequences here from 1.      *)
(***************************************************************************)
EXTENDS NumberTheory, Sequences

Seqs == INSTANCE SequencesExt

CONSTANTS
    Transforms,   \* a list of transforms: [degree, modulus, root of order 2 degree]
    BaseSize,     \* BASE_NTT_SIZE
    MaxBlocks,    \* bound: blocks of a call
    Patterns(_)   \* bound: degree -> the shapes of an input, sets of places

\* MAX_FWD_IFMA_MODULUS, MAX_FWD_32_MODULUS and the inverse's, the same.
IfmaLimit == 2^(IfmaBits - 2)
HalfLimit == 2^(HalfBits - 2)

ASSUME NttAssumption ==
    /\ BaseSize \in Nat /\ BaseSize >= 16
    /\ MaxBlocks \in Nat \ {0}
    \* check_arguments, and the assertion on the root
    /\ \A i \in DOMAIN Transforms : LET T == Transforms[i] IN
         /\ T.modulus % (2 * T.degree) = 1 /\ IsPrime(T.modulus) /\ 4 * T.modulus <= Word
         /\ IsPrimitiveRoot(T.root, 2 * T.degree, T.modulus)

VARIABLES
    call,     \* [transform, inverse, path, inFactor, outFactor, blocks]
    input,    \* the operand
    data,     \* the result, written pass by pass
    pending   \* the passes to come

nttVars == <<call, input, data, pending>>

Degree == Transforms[call.transform].degree
Modulus == Transforms[call.transform].modulus

-----------------------------------------------------------------------------
(***************************************************************************)
(* Tables: compute_root_of_unity_powers.                                   *)
(***************************************************************************)
Upto(k) == [i \in 1..k |-> i - 1]
Map(Op(_), s) == [i \in 1..Len(s) |-> Op(s[i])] \o <<>>
At(table, i) == table[i + 1]
Slice(table, from, to) == SubSeq(table, from + 1, to)

\* reverse_bits over the bits of a degree.
RECURSIVE ReverseIn(_, _)
ReverseIn(x, width) ==
    IF width = 0 THEN 0
    ELSE (x % 2) * 2^(width - 1) + ReverseIn(x \div 2, width - 1)

\* The powers of the root, each from the one before.
RECURSIVE PowersFrom(_, _, _)
PowersFrom(w, k, T) ==
    IF k = 0 THEN <<>>
    ELSE <<w>> \o PowersFrom(MultiplyMod(w, T.root, T.modulus), k - 1, T)

RootPowers(T) ==
    LET powers == PowersFrom(1, T.degree, T)
    IN Map(LAMBDA i : At(powers, ReverseIn(i, Log2(T.degree))), Upto(T.degree))

\* The inverse table is read front to back: the last stage's roots come last.
RECURSIVE InverseStages(_, _)
InverseStages(inverses, m) ==
    IF m = 0 THEN <<>>
    ELSE Slice(inverses, m, 2 * m) \o InverseStages(inverses, m \div 2)

InvRootPowers(T) ==
    LET inverses == Map(LAMBDA w : InverseMod(w, T.modulus), RootPowers(T))
    IN Slice(inverses, 0, 1) \o InverseStages(inverses, T.degree \div 2)

\* Repeated roots for the passes of stride 4 and 2, spliced into the table.
Repeat(s, k) == Seqs!FlattenSeq(Map(LAMBDA w : [j \in 1..k |-> w], s))
AvxRoots(roots) ==
    LET n == Len(roots)
    IN Slice(roots, 0, n \div 8)
       \o Repeat(Slice(roots, n \div 8, n \div 4), 4)
       \o Repeat(Slice(roots, n \div 4, n \div 2), 2)
       \o Slice(roots, n \div 2, n)

\* A table with the factors of its entries as a path multiplies with them.
FactorBits == [scalar |-> WordBits, dq |-> WordBits, ifma |-> IfmaBits, half |-> HalfBits]
WithFactors(table, path, q) ==
    [w |-> table, f |-> Map(LAMBDA w : BarrettFactor(w, FactorBits[path], q), table)]

\* inv_scale: 1/n and w/n of the last inverse stage.
InvScale(T, inverse) ==
    LET invN == InverseMod(T.degree, T.modulus)
    IN <<invN, MultiplyMod(invN, At(inverse, T.degree - 1), T.modulus)>>

\* The tables of a transform, as each path reads them.
TablesFrom(T, roots, inverse, scale) ==
    [path \in DOMAIN FactorBits |->
       [forward |-> WithFactors(IF path = "scalar" THEN roots ELSE AvxRoots(roots),
                                path, T.modulus),
        inverse |-> WithFactors(inverse, path, T.modulus),
        scale |-> WithFactors(scale, path, T.modulus)]]

Tables ==
    Map(LAMBDA T : LET inverse == InvRootPowers(T)
                   IN TablesFrom(T, RootPowers(T), inverse, InvScale(T, inverse)),
        Transforms)

TableOf(c) == Tables[c.transform][c.path][IF c.inverse THEN "inverse" ELSE "forward"]

-----------------------------------------------------------------------------
(***************************************************************************)
(* Butterflies.                                                            *)
(***************************************************************************)
Twice == 2 * Modulus
Negated == Minus(0, Modulus)

\* y times a table entry, lazily: the product less its Barrett quotient times
\* the modulus, as each path computes it.
LazyProduct(path, y, w, f) ==
    CASE path = "scalar" -> MultiplyLazy(y, w, f, Modulus)
      [] path = "half" -> Plus(MulLo(w, y), MulLo(MulLo(f, y) \div Half, Negated))
      [] path = "ifma" -> MulAddLoIfma(MulLoIfma(w, y), MulHiIfma(f, y), Negated)
      [] path = "dq" -> Plus(MulLo(w, y), MulLo(MulHi(f, y), Negated))

\* The butterflies of the widest path take the quotient approximately and
\* correct the product once; the last inverse stage does neither.
ButterflyProduct(path, y, w, f) ==
    IF path = "dq"
    THEN ReduceOnceMin(Plus(MulLo(w, y), MulLo(MulHiApprox(f, y), Negated)), Twice)
    ELSE LazyProduct(path, y, w, f)

\* Mutant of ForwardButterfly: x taken as it comes in every pass.
ForwardButterflyNeverReducing(path, x, y, w, f, below) ==
    LET t == ButterflyProduct(path, y, w, f)
    IN [x |-> Plus(x, t), y |-> Plus(x, Minus(Twice, t))]

\* fwd_butterfly_radix2, fwd_butterfly_avx512; below: INPUT_LESS_THAN_MOD.
ForwardButterfly(path, x, y, w, f, below) ==
    LET tx == IF below THEN x
              ELSE IF path = "scalar" THEN ReduceOnce(x, Twice)
              ELSE ReduceOnceMin(x, Twice)
        t == ButterflyProduct(path, y, w, f)
    IN [x |-> Plus(tx, t), y |-> Plus(tx, Minus(Twice, t))]

\* inv_butterfly_radix2, inv_butterfly_avx512.
InverseButterfly(path, x, y, w, f, below) ==
    LET moved == Plus(x, Minus(y, Twice))
        sum == IF below THEN Plus(x, y)
               ELSE IF path = "scalar" THEN ReduceOnce(Plus(x, y), Twice)
               ELSE IF Negative(moved) THEN Plus(moved, Twice) ELSE moved
    IN [x |-> sum, y |-> ButterflyProduct(path, Minus(x, Minus(y, Twice)), w, f)]

Butterfly(c, x, y, w, f, below) ==
    IF c.inverse THEN InverseButterfly(c.path, x, y, w, f, below)
    ELSE ForwardButterfly(c.path, x, y, w, f, below)

-----------------------------------------------------------------------------
(***************************************************************************)
(* Lanes (ntt_avx512_util.rs). Indices as _mm512_set_epi64 lists them, the *)
(* highest lane first; a blend takes the lanes of its mask from b.         *)
(***************************************************************************)
Permute(idx, v) == [l \in 1..8 |-> v[idx[9 - l] + 1]]
Blend(mask, a, b) == [l \in 1..8 |-> IF (l - 1) \in mask THEN b[l] ELSE a[l]]

Odd == {1, 3, 5, 7}
Upper == {2, 3, 6, 7}
LowHalf == 0..3
HighHalf == 4..7
Swap4 == <<3, 2, 1, 0, 7, 6, 5, 4>>
Swap2 == <<5, 4, 7, 6, 1, 0, 3, 2>>
Swap1 == <<6, 7, 4, 5, 2, 3, 0, 1>>

First == [l \in 1..8 |-> l - 1]
Second == [l \in 1..8 |-> l + 7]

\* load_fwd_interleaved_t1, load_inv_interleaved_t2: as places of 16 words.
Crossed(perm, mask) ==
    [x |-> Blend(mask, First, Permute(perm, Second)),
     y |-> Blend(mask, Permute(perm, First), Second)]

\* load_fwd_interleaved_t4.
Halves ==
    LET high == Permute(Swap4, Second)
    IN [x |-> Blend(LowHalf, high, First),
        y |-> Permute(Swap4, Blend(HighHalf, high, First))]

\* load_inv_interleaved_t1.
EvenOdd ==
    LET lo == Permute(<<7, 5, 3, 1, 6, 4, 2, 0>>, First)
        hi == Permute(<<6, 4, 2, 0, 7, 5, 3, 1>>, Second)
    IN [x |-> Blend(LowHalf, hi, lo),
        y |-> Permute(Swap4, Blend(HighHalf, hi, lo))]

Loads == [fwd4 |-> Halves, fwd2 |-> Crossed(Swap2, Upper), fwd1 |-> Crossed(Swap1, Odd),
          inv1 |-> EvenOdd, inv2 |-> Crossed(Swap1, Odd), inv4 |-> Crossed(Swap2, Upper)]

\* write_fwd_interleaved_t1.
Interleave(x, y) ==
    LET swapped == Permute(Swap4, y)
        lo == Blend(LowHalf, x, swapped)
        hi == Blend(HighHalf, x, swapped)
    IN Permute(<<7, 3, 6, 2, 5, 1, 4, 0>>, hi) \o Permute(<<3, 7, 2, 6, 1, 5, 0, 4>>, lo)

\* write_inv_interleaved_t4.
Quarters(x, y) == SubSeq(x, 1, 4) \o SubSeq(y, 1, 4) \o SubSeq(x, 5, 8) \o SubSeq(y, 5, 8)

Store(op, x, y) ==
    CASE op = "fwd1" -> Interleave(x, y)
      [] op = "inv4" -> Quarters(x, y)
      [] OTHER -> x \o y

\* The roots of a group of lanes: a vector of the table, or two or four of its
\* entries repeated (load_w_op_t2, load_w_op_t4).
RootPlace(op, group, lane) ==
    CASE op = "inv2" -> 4 * group + (lane \div 2)
      [] op = "inv4" -> 2 * group + (lane \div 4)
      [] OTHER -> 8 * group + lane

-----------------------------------------------------------------------------
(***************************************************************************)
(* Passes. A pass of n places pairs them for n / 2 butterflies: by a       *)
(* stride, or lane by lane in groups of sixteen words.                     *)
(***************************************************************************)
Strided(op) == op \in {"radix2", "t8"}

Pass(op, at, blocks, n, t, w, below) ==
    [op |-> op, at |-> at, blocks |-> blocks, n |-> n, t |-> t, w |-> w, below |-> below]

XPlace(task, k) == IF Strided(task.op) THEN (k \div task.t) * 2 * task.t + (k % task.t)
                   ELSE 16 * (k \div 8) + At(Loads[task.op].x, k % 8)
YPlace(task, k) == IF Strided(task.op) THEN XPlace(task, k) + task.t
                   ELSE 16 * (k \div 8) + At(Loads[task.op].y, k % 8)
RootIndex(task, k) == task.w + IF Strided(task.op) THEN k \div task.t
                               ELSE RootPlace(task.op, k \div 8, k % 8)

\* The butterflies of a pass over a block, in the order of their roots.
Butterflies(c, table, task, block) ==
    Map(LAMBDA k : Butterfly(c, At(block, XPlace(task, k)), At(block, YPlace(task, k)),
                             At(table.w, RootIndex(task, k)), At(table.f, RootIndex(task, k)),
                             task.below),
        Upto(task.n \div 2))

\* Their results in the places the pass writes.
WrittenBack(task, pairs) ==
    LET lanes(g) == Slice(pairs, 8 * g, 8 * g + 8)
        of(p) == At(pairs, (p \div (2 * task.t)) * task.t + (p % task.t))
    IN IF Strided(task.op)
       THEN Map(LAMBDA p : IF p % (2 * task.t) < task.t THEN of(p).x ELSE of(p).y,
                Upto(task.n))
       ELSE Seqs!FlattenSeq(Map(LAMBDA g : Store(task.op, Map(LAMBDA b : b.x, lanes(g)),
                                                 Map(LAMBDA b : b.y, lanes(g))),
                                Upto(task.n \div 16)))

\* One block after a pass: fwd_t8 to fwd_t1, inv_t1 to inv_t8, or a loop of the
\* scalar transforms.
Passed(c, task, block) == WrittenBack(task, Butterflies(c, TableOf(c), task, block))

\* The last pass of a forward call that wants its output reduced.
Reduced(c, block) ==
    Map(LAMBDA x : IF c.path = "scalar" THEN ReduceTwice(x, Modulus)
                   ELSE ReduceOnceMin(ReduceOnceMin(x, Twice), Modulus), block)

\* The last stage of the inverse: the butterfly, 1/n and w/n, and the reduction.
Scaled(c, scale, block) ==
    LET half == Degree \div 2
        last(v) == IF c.outFactor = 1 THEN ReduceOnceMin(v, Modulus) ELSE v
        sum(j) == ReduceOnceMin(Plus(At(block, j), At(block, j + half)), Twice)
        diff(j) == Minus(At(block, j), Minus(At(block, j + half), Twice))
    IN Map(LAMBDA j : last(LazyProduct(c.path, sum(j), scale.w[1], scale.f[1])), Upto(half))
       \o Map(LAMBDA j : last(LazyProduct(c.path, diff(j), scale.w[2], scale.f[2])), Upto(half))

-----------------------------------------------------------------------------
(***************************************************************************)
(* Schedules.                                                              *)
(***************************************************************************)

\* forward_transform_to_bit_reverse_radix2 and its inverse, on the block at a.
ScalarSchedule(c, a) ==
    LET bits == Log2(Degree)
        stages == Upto(bits)
    IN IF c.inverse
       THEN Map(LAMBDA s : Pass("radix2", a, 1, Degree, 2^s,
                                1 + Degree - Degree \div 2^s, FALSE),
                SubSeq(stages, 1, bits - 1))
            \o <<Pass("scale", a, 1, Degree, 0, 0, FALSE)>>
       ELSE Map(LAMBDA s : Pass("radix2", a, 1, Degree, Degree \div 2^(s + 1), 2^s, FALSE),
                stages)
            \o IF c.outFactor = 1 THEN <<Pass("reduce", a, 1, Degree, 0, 0, FALSE)>> ELSE <<>>

\* compute_new_w_idx: where an entry is after the splices.
Spliced(w, total) ==
    CASE w <= total \div 8 -> w
      [] w > total \div 8 /\ w <= total \div 4 -> (w - (total \div 8)) * 4 + total \div 8
      [] w > total \div 4 /\ w <= total \div 2 -> (w - (total \div 4)) * 2 + (5 * total) \div 8
      [] OTHER -> w + (5 * total) \div 8

\* forward_transform_to_bit_reverse_avx512.
RECURSIVE AvxForward(_, _, _, _, _, _)
AvxForward(c, a, blocks, n, depth, half) ==
    LET w == 2^depth + half
        lanes(op, m) == Pass(op, a, blocks, n, 0, Spliced(w * m, n * 2^depth), FALSE)
    IN IF n <= BaseSize
       THEN Map(LAMBDA s : Pass("t8", a, blocks, n, n \div 2^(s + 1), w * 2^s,
                                s = 0 /\ c.inFactor <= 2 /\ depth = 0),
                Upto(Log2(n) - 3))
            \o <<lanes("fwd4", n \div 8), lanes("fwd2", n \div 4), lanes("fwd1", n \div 2)>>
            \o IF c.outFactor = 1 THEN <<Pass("reduce", a, blocks, n, 0, 0, FALSE)>> ELSE <<>>
       ELSE Seqs!FlattenSeq(Map(LAMBDA b :
              <<Pass("t8", a + b * n, 1, n, n \div 2, w, FALSE)>>
              \o AvxForward(c, a + b * n, 1, n \div 2, depth + 1, 2 * half)
              \o AvxForward(c, a + b * n + n \div 2, 1, n \div 2, depth + 1, 2 * half + 1),
              Upto(blocks)))

\* Mutant of InverseIndex: both halves read the roots of the lower one.
InverseIndexOfTheLower(n, depth, half, k) ==
    1 + (n \div 2 - n \div 2^(k + 1)) * 2^(depth + 1)

\* w_idx of the k-th stage after the deltas added so far.
InverseIndex(n, depth, half, k) ==
    1 + (n \div 2) * half + (n \div 2 - n \div 2^(k + 1)) * (2^(depth + 1) - half)

\* inverse_transform_from_bit_reverse_avx512.
RECURSIVE AvxInverse(_, _, _, _, _, _)
AvxInverse(c, a, blocks, n, depth, half) ==
    LET index(k) == InverseIndex(n, depth, half, k)
        lanes(op, k, below) == Pass(op, a, blocks, n, 0, index(k), below)
        inner ==
            IF n <= BaseSize
            THEN <<lanes("inv1", 0, c.inFactor = 1 /\ depth = 0),
                   lanes("inv2", 1, FALSE), lanes("inv4", 2, FALSE)>>
                 \o Map(LAMBDA s : Pass("t8", a, blocks, n, 2^(s + 3), index(s + 3), FALSE),
                        Upto(Log2(n) - 4))
            ELSE Seqs!FlattenSeq(Map(LAMBDA b :
                   AvxInverse(c, a + b * n, 1, n \div 2, depth + 1, 2 * half)
                   \o AvxInverse(c, a + b * n + n \div 2, 1, n \div 2, depth + 1, 2 * half + 1),
                   Upto(blocks)))
                 \o <<Pass("t8", a, blocks, n, n \div 4, index(Log2(n) - 2), FALSE)>>
    IN inner \o IF depth = 0 THEN <<Pass("scale", a, blocks, n, 0, 0, FALSE)>> ELSE <<>>

Schedule(c) ==
    CASE c.path = "scalar" ->
            Seqs!FlattenSeq(Map(LAMBDA b : ScalarSchedule(c, b * Degree), Upto(c.blocks)))
      [] c.path # "scalar" /\ c.inverse -> AvxInverse(c, 0, c.blocks, Degree, 0, 0)
      [] OTHER -> AvxForward(c, 0, c.blocks, Degree, 0, 0)

-----------------------------------------------------------------------------
(***************************************************************************)
(* Calls. The path is the processor's: HAS_AVX512IFMA implies              *)
(* HAS_AVX512DQ.                                                           *)
(***************************************************************************)
PathOf(T, dq, ifma) ==
    CASE T.degree >= 16 /\ ifma /\ T.modulus < IfmaLimit -> "ifma"
      [] T.degree >= 16 /\ dq /\ ~(ifma /\ T.modulus < IfmaLimit) /\ T.modulus < HalfLimit -> "half"
      [] T.degree >= 16 /\ dq /\ ~(ifma /\ T.modulus < IfmaLimit) /\ T.modulus >= HalfLimit -> "dq"
      [] OTHER -> "scalar"

Processors == {<<FALSE, FALSE>>, <<TRUE, FALSE>>, <<TRUE, TRUE>>}
Paths(T) == {PathOf(T, processor[1], processor[2]) : processor \in Processors}

\* compute_forward and compute_inverse with the factors their assertions name;
\* the calls over blocks take and give reduced residues.
Calls ==
    {c \in [transform : DOMAIN Transforms, inverse : BOOLEAN, path : DOMAIN FactorBits,
            inFactor : {1, 2, 4}, outFactor : {1, 2, 4}, blocks : 1..MaxBlocks] :
        /\ c.path \in Paths(Transforms[c.transform])
        /\ IF c.inverse THEN c.inFactor # 4 /\ c.outFactor # 4 ELSE c.outFactor # 2
        /\ c.blocks > 1 => c.inFactor = 1 /\ c.outFactor = 1}

\* The residues at which a lazy reduction turns.
Edges(c) == {0, 1, Modulus \div 2, c.inFactor * Modulus - 1}

NttInit ==
    /\ call \in Calls
    /\ \E pattern \in Patterns(Degree), a, b \in Edges(call) :
         input = [i \in 1..(call.blocks * Degree) |-> IF i - 1 \in pattern THEN a ELSE b]
    /\ data = input
    /\ pending = Schedule(call)

Task == Head(pending)

\* The data with each block of a task replaced by what Op makes of it.
Rewritten(task, Op(_)) ==
    LET block(b) == Slice(data, task.at + b * task.n, task.at + (b + 1) * task.n)
    IN Slice(data, 0, task.at)
       \o Seqs!FlattenSeq(Map(LAMBDA b : Op(block(b)), Upto(task.blocks)))
       \o Slice(data, task.at + task.blocks * task.n, Len(data))

Do(ops, Op(_)) ==
    /\ pending # <<>> /\ Task.op \in ops
    /\ data' = Rewritten(Task, Op)
    /\ pending' = Tail(pending)
    /\ UNCHANGED <<call, input>>

ScalarPass == Do({"radix2"}, LAMBDA block : Passed(call, Task, block))
WidePass == Do({"t8"}, LAMBDA block : Passed(call, Task, block))
ForwardLanes == Do({"fwd4", "fwd2", "fwd1"}, LAMBDA block : Passed(call, Task, block))
InverseLanes == Do({"inv1", "inv2", "inv4"}, LAMBDA block : Passed(call, Task, block))
ReducePass == Do({"reduce"}, LAMBDA block : Reduced(call, block))
ScalePass == Do({"scale"}, LAMBDA block : Scaled(call, Tables[call.transform][call.path].scale, block))

Done == pending = <<>> /\ UNCHANGED nttVars

NttNext ==
    \/ ScalarPass \/ WidePass \/ ForwardLanes \/ InverseLanes
    \/ ReducePass \/ ScalePass
    \/ Done

NttSpec == NttInit /\ [][NttNext]_nttVars

-----------------------------------------------------------------------------
\* Between passes every residue stays below four times the modulus on the way
\* forward and twice on the way back, whatever the path, so that no sum of a
\* butterfly leaves its word: the bound each lazy reduction assumes of the
\* pass before it, which differs where the first pass leaves its input alone.
\* And the next pass reads its roots inside the table, although the AVX-512
\* paths compute their pointers by splices, deltas and the halves of the
\* recursion, which nothing checks.
PassesStayInBounds ==
    LET factor == IF call.inverse THEN 2 ELSE 4
    IN /\ \A i \in 1..Len(data) : data[i] < factor * Modulus
       /\ pending # <<>> /\ Task.op \notin {"reduce", "scale"} =>
            \A k \in 0..(Task.n \div 2 - 1) :
                RootIndex(Task, k) \in 0..(Len(TableOf(call).w) - 1)

\* Powers of the root by multiplication and division, to compare with.
RECURSIVE TruePowersFrom(_, _, _)
TruePowersFrom(w, k, T) ==
    IF k = 0 THEN <<>> ELSE <<w>> \o TruePowersFrom((w * T.root) % T.modulus, k - 1, T)
TruePowers == Map(LAMBDA T : TruePowersFrom(1, 2 * T.degree, T), Transforms)

\* The value of a block's polynomial at the odd power of the root of place i.
RECURSIVE SumFrom(_, _, _)
SumFrom(block, odd, k) ==
    IF k = Degree THEN 0
    ELSE (SumFrom(block, odd, k + 1)
          + (At(block, k) % Modulus) * At(TruePowers[call.transform], (k * odd) % (2 * Degree))) % Modulus
ValueAt(block, i) == SumFrom(block, 2 * ReverseIn(i, Log2(Degree)) + 1, 0)

Evaluates(coefficients, values) ==
    \A i \in 0..(Degree - 1) : ValueAt(coefficients, i) = At(values, i) % Modulus

BlockOf(s, b) == Slice(s, b * Degree, (b + 1) * Degree)

\* A finished call, on any path and over any number of blocks, relates
\* coefficients and values as the negacyclic transform does: forward it
\* evaluates each block at the odd powers of the root in bit-reversed order,
\* inverse it interpolates; and the result is as reduced as was asked for.
TransformIsExact ==
    pending = <<>> =>
        /\ \A b \in 0..(call.blocks - 1) :
             IF call.inverse THEN Evaluates(BlockOf(data, b), BlockOf(input, b))
             ELSE Evaluates(BlockOf(input, b), BlockOf(data, b))
        /\ \A i \in 1..Len(data) : data[i] < call.outFactor * Modulus
=============================================================================

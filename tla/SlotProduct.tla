----------------------------- MODULE SlotProduct -----------------------------
(***************************************************************************)
(* Products of ring elements in slot form, and sums of such products       *)
(* (src/incomplete-rexl: SlotRing in lib.rs, the slot kernels in           *)
(* eltwise.rs). A slot is a polynomial of degree below deg, taken modulo   *)
(* Y^deg - zeta with a zeta of its own; an element is deg blocks of one    *)
(* coefficient per slot. With AVX-512 IFMA the products of a sum are       *)
(* accumulated unreduced, in low halves of IfmaBits bits and high halves   *)
(* above them: the carries move up every Chunk terms and the halves are    *)
(* reduced every Block terms. Eight lanes of a vector do the same work on  *)
(* eight slots: one slot stands for the eight of a group.                  *)
(***************************************************************************)
EXTENDS Words, FiniteSets

CONSTANTS
    SlotModuli,          \* primes the rings are over
    Zeta,            \* modulus -> the zetas of the slots, from 0
    Counts,          \* lengths of the sums
    OutputCounts,    \* numbers of sums computed at once
    Chunk, Block,    \* SLOT_DOT_CHUNK, SLOT_DOT_BLOCK
    OutputsAtOnce,   \* SLOT_DOT_OUTPUTS
    Untiled, Tile,   \* SLOT_DOT_UNTILED, SLOT_DOT_TILE
    Contents,        \* names of the operands' contents
    Content(_, _, _, _)  \* contents, buffer, index, modulus -> a u64 below the modulus

ASSUME SlotAssumption ==
    /\ Block % Chunk = 0 /\ Chunk % Tile = 0 /\ Untiled <= Chunk
    \* the low half holds a chunk, the signed high half a block
    /\ Ifma * Chunk < Word \div 4 /\ Ifma * Block <= Word \div 4

VARIABLES
    job,      \* what SlotRing was asked for
    first,    \* first output of the pass; in the fallback, the output
    start,    \* the next term of the sum; in a product, the next slot
    acc,      \* accumulated cells of the pass's outputs and groups
    results,  \* the result buffer
    done
slotVars == <<job, first, start, acc, results, done>>

-----------------------------------------------------------------------------
(***************************************************************************)
(* Ifma52 and Ifma52x8: constants of a modulus between a quarter and an    *)
(* eighth of the multiplier's range, and the reductions built on them.     *)
(***************************************************************************)
InRange(p) == p > Ifma \div 8 /\ p < Ifma \div 4

\* Six Newton steps, each doubling the correct bits.
InverseOfOdd(p) ==
    LET x[i \in 0..6] == IF i = 0 THEN p ELSE MulLo(x[i - 1], Minus(2, MulLo(p, x[i - 1])))
    IN x[6] % Ifma

Ifma52(p) ==
    LET r == Ifma % p
        r2 == (r * r) % p
    IN [p |-> p, pInv |-> InverseOfOdd(p),
        r |-> r, rPrecon |-> BarrettFactor(r, IfmaBits, p),
        r2 |-> r2, r2Precon |-> BarrettFactor(r2, IfmaBits, p)]

ShiftArithmetic(x) ==
    IF Negative(x) THEN (x \div Ifma) + (Word - (Word \div Ifma)) ELSE x \div Ifma

\* shoup: x w modulo p, below 2 p, for x within the multiplier's range.
Shoup(c, x, w, precon) ==
    Minus(MulLoIfma(x, w), MulLoIfma(MulHiIfma(x, precon), c.p)) % Ifma

\* montgomery: (lo + Ifma hi) / Ifma modulo p, above -p.
Montgomery(c, lo, hi) ==
    Minus(Plus(hi, lo \div Ifma), MulHiIfma(MulLoIfma(lo, c.pInv), c.p))

\* reduce_wide with a logical shift: the first step's borrow read as a large number.
ReduceWideUnsigned(c, lo, hi) ==
    LET t == Montgomery(c, lo, hi)
        u == Minus(t \div Ifma, MulHiIfma(MulLoIfma(t, c.pInv), c.p))
    IN Shoup(c, Plus(u, c.p), c.r2, c.r2Precon)

\* reduce_wide: lo + Ifma hi modulo p, below 2 p.
ReduceWide(c, lo, hi) ==
    LET t == Montgomery(c, lo, hi)
        u == Minus(ShiftArithmetic(t), MulHiIfma(MulLoIfma(t, c.pInv), c.p))
    IN Shoup(c, Plus(u, c.p), c.r2, c.r2Precon)

Canonical(c, x) == Lesser(x, Minus(x, c.p))

-----------------------------------------------------------------------------
(***************************************************************************)
(* Karatsuba cells: three products for two coefficients, nine for four.    *)
(***************************************************************************)

\* load_slot_factors; the factors of four coefficients are sums of up to four.
SlotFactors(x) ==
    IF DOMAIN x = 0..1
    THEN <<x[0], Plus(x[0], x[1]), x[1]>>
    ELSE LET s0 == Plus(x[0], x[2])
             s1 == Plus(x[1], x[3])
         IN <<x[0], Plus(x[0], x[1]), x[1],
              x[2], Plus(x[2], x[3]), x[3],
              s0, Plus(s0, s1), s1>>

ZeroCells(deg) ==
    LET zero == [d \in 1..(IF deg = 2 THEN 3 ELSE 9) |-> 0] IN [lo |-> zero, hi |-> zero]

\* add_slot_cells.
AddCells(cell, a, b) ==
    [lo |-> [d \in DOMAIN cell.lo |-> MaddLoIfma(cell.lo[d], a[d], b[d])],
     hi |-> [d \in DOMAIN cell.hi |-> Plus(cell.hi[d], MulHiIfma(a[d], b[d]))]]

\* The end of a chunk: carries move up; the end of a block: the halves are reduced.
CarryCells(c, cell, reduce) ==
    LET hi == [d \in DOMAIN cell.hi |-> Plus(cell.hi[d], cell.lo[d] \div Ifma)]
        lo == [d \in DOMAIN cell.lo |-> cell.lo[d] % Ifma]
    IN IF reduce
       THEN [lo |-> [d \in DOMAIN lo |-> ReduceWide(c, lo[d], hi[d])],
             hi |-> [d \in DOMAIN hi |-> 0]]
       ELSE [lo |-> lo, hi |-> hi]

\* combine_slot_cells, two coefficients.
CombineTwo(c, x, z, precon) ==
    <<Plus(x[1], Shoup(c, x[3], z, precon)),
      Minus(Plus(x[2], 4 * c.p), Plus(x[1], x[3]))>>

\* combine_slot_cells, four: L + Y^2 (S - L - H) + Y^4 H of the halves' products.
CombineFour(c, x, z, precon) ==
    LET fourP == 4 * c.p
        below4p(y) == Lesser(y, Minus(y, fourP))
        middle(low, mid, high) == Minus(Plus(mid, fourP), Plus(low, high))
        l1 == middle(x[1], x[2], x[3])
        h1 == middle(x[4], x[5], x[6])
        wrap0 == Minus(Plus(Plus(x[9], x[4]), fourP), Plus(x[3], x[6]))
        c2 == Minus(Plus(Plus(x[7], x[3]), fourP), Plus(x[1], x[4]))
        c3 == Minus(Plus(x[8], 4 * fourP), Plus(Plus(x[7], x[9]), Plus(l1, h1)))
    IN <<Plus(x[1], Shoup(c, below4p(wrap0), z, precon)),
         Plus(l1, Shoup(c, below4p(h1), z, precon)),
         Plus(c2, Shoup(c, x[6], z, precon)),
         c3>>

Combine(c, x, z, precon) ==
    [d \in 0..(IF DOMAIN x = 1..3 THEN 1 ELSE 3) |->
        IF DOMAIN x = 1..3
        THEN CombineTwo(c, x, z, precon)[d + 1] ELSE CombineFour(c, x, z, precon)[d + 1]]

-----------------------------------------------------------------------------
(***************************************************************************)
(* Jobs: a product, the result over the first operand or apart from it, or *)
(* the sums of SlotRing::dot_many. A machine without IFMA, and a modulus   *)
(* out of its range, take the native kernels.                              *)
(***************************************************************************)
Jobs ==
    LET degrees == {2, 4}
    IN [kind : {"product"}, deg : degrees, q : SlotModuli, ifma : BOOLEAN, contents : Contents,
        aliased : BOOLEAN]
       \cup [kind : {"dot"}, deg : degrees, q : SlotModuli, ifma : BOOLEAN, contents : Contents,
             count : Counts, outputs : OutputCounts, accumulate : BOOLEAN,
             byColumns : BOOLEAN]

\* ifma_tables: the tables exist when the modulus is in their range.
Vectorised(j) == j.ifma /\ InRange(j.q)

Groups(j) == Cardinality(DOMAIN Zeta[j.q])
RingDegree(j) == j.deg * Groups(j)

\* Coefficients of slot g of the element at the given place of a buffer.
SlotOf(j, buffer, at, g) == [d \in 0..(j.deg - 1) |-> buffer[at + (d * Groups(j)) + g]]

\* Strides of dot_many: the operands of one output apart or side by side.
Stride1(j) == RingDegree(j)
Stride2(j) == IF j.byColumns THEN RingDegree(j) ELSE RingDegree(j) * j.outputs
OutputStride(j) == IF j.byColumns THEN RingDegree(j) * j.count ELSE RingDegree(j)
ResultStride(j) == RingDegree(j)

Buffer(j, side, size) == [i \in 0..(size - 1) |-> Content(j.contents, side, i, j.q)]
Operand1(j) == Buffer(j, 1, IF j.kind = "dot" THEN j.count * RingDegree(j) ELSE RingDegree(j))
Operand2(j) == Buffer(j, 2, IF j.kind = "dot" THEN j.count * j.outputs * RingDegree(j) ELSE RingDegree(j))
InitialResults(j) ==
    IF j.kind = "dot" THEN Buffer(j, 3, j.outputs * RingDegree(j))
    ELSE IF j.aliased THEN Operand1(j) ELSE Buffer(j, 3, RingDegree(j))

A(j, k, g) == SlotOf(j, Operand1(j), k * Stride1(j), g)
B(j, k, o, g) == SlotOf(j, Operand2(j), (k * Stride2(j)) + (o * OutputStride(j)), g)

Precon(j, g) == BarrettFactor(Zeta[j.q][g], IfmaBits, j.q)

\* The slot's coefficients stored at a place of the results.
Stored(j, buffer, at, g, slot) ==
    [i \in DOMAIN buffer |->
        IF \E d \in 0..(j.deg - 1) : i = at + (d * Groups(j)) + g
        THEN slot[(i - (at + g)) \div Groups(j)] ELSE buffer[i]]

-----------------------------------------------------------------------------
\* fused_slot_mult_avx512_ifma: one slot.
IfmaProduct(c, a, b, zeta, precon) ==
    LET deg == DOMAIN a
        t == [j \in deg |-> Shoup(c, b[j], zeta, precon)]
        \* the coefficient that meets a_j in the k-th sum
        y(j, k) == IF j <= k THEN b[k - j] ELSE t[Cardinality(deg) + (k - j)]
        halves[k \in deg, n \in {-1} \cup deg] ==
            IF n = -1 THEN [lo |-> 0, hi |-> 0]
            ELSE LET h == halves[k, n - 1]
                 IN [lo |-> MaddLoIfma(h.lo, a[n], y(n, k)),
                     hi |-> Plus(h.hi, MulHiIfma(a[n], y(n, k)))]
        sum(k) == halves[k, Cardinality(deg) - 1]
    IN [k \in deg |->
           Canonical(c, Shoup(c, Plus(Montgomery(c, sum(k).lo, sum(k).hi), c.p), c.r, c.rPrecon))]

\* fused_incomplete_ntt_mult_native: Karatsuba on two coefficients.
NativeTwo(q, x, y, zeta) ==
    LET ac == MultiplyMod(x[0], y[0], q)
        bd == MultiplyMod(x[1], y[1], q)
        abcd == MultiplyMod(AddMod(x[0], x[1], q), AddMod(y[0], y[1], q), q)
    IN <<AddMod(ac, MultiplyMod(zeta, bd, q), q), SubMod(SubMod(abcd, ac, q), bd, q)>>

\* fused_slot4_mult_native: nine products.
NativeFour(q, x, y, zeta) ==
    LET add(u, v) == AddMod(u, v, q)
        sub(u, v) == SubMod(u, v, q)
        mul(u, v) == MultiplyMod(u, v, q)
        l0 == mul(x[0], y[0])
        l2 == mul(x[1], y[1])
        lm == mul(add(x[0], x[1]), add(y[0], y[1]))
        h0 == mul(x[2], y[2])
        h2 == mul(x[3], y[3])
        hm == mul(add(x[2], x[3]), add(y[2], y[3]))
        s0 == mul(add(x[0], x[2]), add(y[0], y[2]))
        s2 == mul(add(x[1], x[3]), add(y[1], y[3]))
        sm == mul(add(add(x[0], x[2]), add(x[1], x[3])), add(add(y[0], y[2]), add(y[1], y[3])))
        p1 == sub(sub(lm, l0), l2)
        p4 == sub(sub(add(s2, h0), l2), h2)
        p5 == sub(sub(hm, h0), h2)
    IN <<add(l0, mul(zeta, p4)), add(p1, mul(zeta, p5)),
         add(sub(sub(add(l2, s0), l0), h0), mul(zeta, h2)),
         sub(sub(sub(sub(sm, s0), s2), p1), p5)>>

\* slot_mult: the kernel of the machine, the modulus and the slot degree.
SlotMult(j, a, b, g) ==
    LET zeta == Zeta[j.q][g]
        native == IF j.deg = 2 THEN NativeTwo(j.q, a, b, zeta) ELSE NativeFour(j.q, a, b, zeta)
    IN IF Vectorised(j) THEN IfmaProduct(Ifma52(j.q), a, b, zeta, Precon(j, g))
       ELSE [d \in 0..(j.deg - 1) |-> native[d + 1]]

-----------------------------------------------------------------------------
SlotInit ==
    /\ job \in Jobs
    /\ first = 0 /\ start = 0 /\ acc = <<>>
    /\ results = InitialResults(job)
    /\ done = FALSE

(***************************************************************************)
(* fused_slot_mult: slot by slot. The vector kernel reads the first        *)
(* operand from where the result goes; the native one works on a copy      *)
(* (with_slices).                                                          *)
(***************************************************************************)
MultSlot ==
    /\ ~done /\ job.kind = "product"
    /\ LET source == IF job.aliased /\ Vectorised(job) THEN results ELSE Operand1(job)
       IN results' = Stored(job, results, 0, start,
                            SlotMult(job, SlotOf(job, source, 0, start),
                                     SlotOf(job, Operand2(job), 0, start), start))
    /\ start' = start + 1
    /\ done' = (start + 1 = Groups(job))
    /\ UNCHANGED <<job, first, acc>>

\* Outputs of the pass that begins at output f.
Taken(f) == Lesser(job.outputs - f, OutputsAtOnce)

(***************************************************************************)
(* One tile of a pass: its terms into the cells of the pass's outputs; at  *)
(* the end of a chunk the carries, at the end of a block the reduction; at *)
(* the end of the sum the slot coefficients into the results.              *)
(***************************************************************************)
\* Cells of two coefficients go by chunks; those of four by tiles, when long.
TileEnd ==
    IF job.deg = 2 THEN Lesser(job.count, start + Chunk)
    ELSE IF job.count > Untiled THEN Lesser(job.count, start + Tile) ELSE job.count

\* Where the cells of an output of the pass and of a group are kept.
CellPlace(o, g) == ((o - first) * Groups(job)) + g

Accumulated(o, g) ==
    LET begin == IF start = 0 THEN ZeroCells(job.deg) ELSE acc[CellPlace(o, g)]
        after[k \in start..TileEnd] ==
            IF k = start THEN begin
            ELSE AddCells(after[k - 1], SlotFactors(A(job, k - 1, g)),
                          SlotFactors(B(job, k - 1, o, g)))
    IN after[TileEnd]

Carries(end) == job.deg = 2 \/ end = job.count \/ end % Chunk = 0
Reduces(end) == end = job.count \/ end % Block = 0

AfterTile(o, g) ==
    IF Carries(TileEnd) THEN CarryCells(Ifma52(job.q), Accumulated(o, g), Reduces(TileEnd))
    ELSE Accumulated(o, g)

\* The sum's coefficients, on top of what the results hold when it accumulates.
Coefficients(cell, o, g) ==
    LET c == Ifma52(job.q)
        x == Combine(c, cell.lo, Zeta[job.q][g], Precon(job, g))
        old == SlotOf(job, results, o * ResultStride(job), g)
    IN [d \in DOMAIN x |->
          Canonical(c, ReduceWide(c, IF job.accumulate THEN Plus(x[d], old[d]) ELSE x[d], 0))]

PassOutputs == first..(first + Taken(first) - 1)
PassPlaces == {CellPlace(o, g) : o \in PassOutputs, g \in 0..(Groups(job) - 1)}

TileStep ==
    /\ ~done /\ job.kind = "dot" /\ Vectorised(job) /\ first < job.outputs
    /\ LET cells == [i \in PassPlaces |->
                        AfterTile(first + (i \div Groups(job)), i % Groups(job))]
       IN IF TileEnd < job.count
          THEN /\ acc' = cells /\ start' = TileEnd
               /\ UNCHANGED <<first, results>>
          ELSE /\ results' =
                    [i \in DOMAIN results |->
                        LET o == i \div ResultStride(job)
                            within == i % ResultStride(job)
                            g == within % Groups(job)
                        IN IF o \in PassOutputs
                           THEN Coefficients(cells[CellPlace(o, g)], o, g)[within \div Groups(job)]
                           ELSE results[i]]
               /\ first' = first + OutputsAtOnce
               /\ start' = 0 /\ acc' = <<>>
    /\ UNCHANGED <<job, done>>

(***************************************************************************)
(* dot_many without IFMA: the results start at zero unless the sum         *)
(* accumulates; then term by term, output by output.                       *)
(***************************************************************************)
Cleared == [i \in DOMAIN results |-> IF job.accumulate THEN results[i] ELSE 0]

FallbackStep ==
    /\ ~done /\ job.kind = "dot" /\ ~Vectorised(job)
    /\ start < job.count /\ first < job.outputs
    /\ LET base == IF start = 0 /\ first = 0 THEN Cleared ELSE results
           slot(g) == LET product == SlotMult(job, A(job, start, g), B(job, start, first, g), g)
                          sum == SlotOf(job, base, first * ResultStride(job), g)
                      IN [d \in DOMAIN sum |-> AddMod(sum[d], product[d], job.q)]
           after[g \in 0..Groups(job)] ==
               IF g = 0 THEN base
               ELSE Stored(job, after[g - 1], first * ResultStride(job), g - 1, slot(g - 1))
       IN results' = after[Groups(job)]
    /\ first' = IF first + 1 = job.outputs THEN 0 ELSE first + 1
    /\ start' = IF first + 1 = job.outputs THEN start + 1 ELSE start
    /\ UNCHANGED <<job, acc, done>>

DotDone ==
    /\ ~done /\ job.kind = "dot"
    /\ IF Vectorised(job) THEN first >= job.outputs
       ELSE start = job.count \/ job.outputs = 0
    /\ results' = IF ~Vectorised(job) /\ job.count = 0 THEN Cleared ELSE results
    /\ done' = TRUE
    /\ UNCHANGED <<job, first, start, acc>>

SlotFinished == done /\ UNCHANGED slotVars

SlotNext == MultSlot \/ TileStep \/ FallbackStep \/ DotDone \/ SlotFinished
SlotSpec == SlotInit /\ [][SlotNext]_slotVars

-----------------------------------------------------------------------------
(***************************************************************************)
(* What a product is: schoolbook modulo Y^deg - zeta.                      *)
(***************************************************************************)
SchoolbookProduct(q, x, y, zeta) ==
    LET deg == Cardinality(DOMAIN x)
        term(j, k) == IF j <= k THEN x[j] * y[k - j]
                      ELSE ((x[j] * y[deg + (k - j)]) % q) * zeta
        sum[k \in 0..(deg - 1), n \in -1..(deg - 1)] ==
            IF n = -1 THEN 0 ELSE (sum[k, n - 1] + term(n, k)) % q
    IN [k \in 0..(deg - 1) |-> sum[k, deg - 1]]

SchoolbookSum(j, o, g, count) ==
    LET old == SlotOf(j, InitialResults(j), o * ResultStride(j), g)
        begin == [d \in 0..(j.deg - 1) |-> IF j.accumulate THEN old[d] ELSE 0]
        sum[k \in 0..count] ==
            IF k = 0 THEN begin
            ELSE LET p == SchoolbookProduct(j.q, A(j, k - 1, g), B(j, k - 1, o, g), Zeta[j.q][g])
                 IN [d \in DOMAIN begin |-> (sum[k - 1][d] + p[d]) % j.q]
    IN sum[count]

\* Between tiles a cell is the sum of its factors' products over the terms so
\* far, modulo p.
CellsHoldTheSum ==
    \A o \in PassOutputs, g \in DOMAIN Zeta[job.q] :
        LET cell == acc[CellPlace(o, g)]
            sum[k \in 0..start] ==
                IF k = 0 THEN [d \in DOMAIN cell.lo |-> 0]
                ELSE LET x == SlotFactors(A(job, k - 1, g))
                         y == SlotFactors(B(job, k - 1, o, g))
                     IN [d \in DOMAIN cell.lo |-> (sum[k - 1][d] + x[d] * y[d]) % job.q]
        IN \A d \in DOMAIN cell.lo :
             (cell.lo[d] + (Ifma % job.q) * (cell.hi[d] % job.q)) % job.q = sum[start][d]

ResultsAreSchoolbook ==
    IF job.kind = "product"
    THEN \A g \in DOMAIN Zeta[job.q] :
            SlotOf(job, results, 0, g) =
                SchoolbookProduct(job.q, SlotOf(job, Operand1(job), 0, g),
                                  SlotOf(job, Operand2(job), 0, g), Zeta[job.q][g])
    ELSE \A o \in 0..(job.outputs - 1), g \in DOMAIN Zeta[job.q] :
            SlotOf(job, results, o * ResultStride(job), g) = SchoolbookSum(job, o, g, job.count)

\* Between tiles no half has overflowed its word, however long the sum is; at
\* the end every slot of every result is the schoolbook product or sum, reduced
\* below the modulus, on every kernel, whatever the operands hold, however the
\* buffers lie and whether or not the result is the first operand.
SlotsAreExact ==
    /\ acc # <<>> => CellsHoldTheSum
    /\ done => ResultsAreSchoolbook
=============================================================================

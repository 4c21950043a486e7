------------------------------- MODULE Layout -------------------------------
(***************************************************************************)
(* How a sumcheck round packs everything it commits to into one vector,    *)
(* the next round's witness.  AuxSumcheckConfig::generate_config_inner     *)
(* (src/protocol/config_generator.rs) gives every component of the round   *)
(* dyadic blocks of the vector, first fit; prover_round pastes the         *)
(* components there (src/protocol/config.rs); the sumchecks read them back *)
(* through block selectors, radix weights and slices of commitment-key     *)
(* rows (src/protocol/sumchecks/helpers.rs).                               *)
(*                                                                         *)
(* Positions, rows, planes and offsets count from 0, as in the code.       *)
(***************************************************************************)
EXTENDS Integers, Sequences, FiniteSets, FiniteSetsExt

CONSTANTS
    Rounds,      \* the rounds laid out: sizes of AuxSumcheckConfig
    UsizeBits    \* usize::BITS: a size or an index has so many bits

\* Arithmetic, for the powers of two a size has: numbers, each twice the one before.
TopBit == UsizeBits - 1

ASSUME BitsAssumption ==
    /\ UsizeBits \in Nat \ {0}
    /\ \A b \in 0..TopBit : 2^b \in Nat /\ 2^(b + 1) = 2 * 2^b

Trees == {"commitment", "opening", "coarse", "constantTerm", "batched"}
Levels == [chunks : Nat \ {0}, rank : 1..2^TopBit]

\* AuxSumcheckConfig.  A recursion tree is the sequence of its levels, empty for
\* a projection the round does not make; batches is the ring's NOF_BATCHES.
\* nextWidth is the number of columns the next round gives the packed vector.
\* A round that projects has rows to project (the panics of builder.rs).
RoundSizes ==
    {r \in [height : Nat \ {0}, width : Nat \ {0}, ratio : Nat \ {0}, basicRank : Nat \ {0},
             openings : Nat \ {0}, chunks : Nat \ {0}, batches : Nat \ {0},
             nextWidth : Nat \ {0}, tree : [Trees -> Seq(Levels)]] :
       r.tree["coarse"] # <<>> \/ r.tree["constantTerm"] # <<>> => r.ratio <= r.height}

ASSUME RoundsAssumption == Rounds \subseteq RoundSizes

\* Heights and widths are powers of two: the variables of a round are counted by
\* ilog2 of them, as are those of a column of projected rows.  A commitment that is
\* committed to again is cut into as many slices as it has elements, each a power of
\* two long: the assertions of Placement::slice.
IsPower(n) == \E b \in 0..TopBit : n = 2^b

ASSUME DyadicAssumption ==
    \A r \in Rounds :
      /\ IsPower(r.height) /\ IsPower(r.width)
      /\ r.tree["coarse"] # <<>> \/ r.tree["constantTerm"] # <<>> => IsPower(r.ratio)
      /\ \A t \in Trees : \A l \in 1..(Len(r.tree[t]) - 1) : IsPower(r.tree[t][l].rank)

VARIABLES
    round,       \* the round being laid out
    pc,          \* place, paste, packed or panicked
    left,        \* components still to be placed, then still to be pasted
    placement,   \* per component: the prefixes its blocks have been given
    used,        \* used_prefixes: the positions that are taken
    data         \* next_round_data, the packed vector

vars == <<round, pc, left, placement, used, data>>

-----------------------------------------------------------------------------
(***************************************************************************)
(* Powers of two and the binary decomposition of a size.                   *)
(***************************************************************************)
Log2(n) == CHOOSE b \in 0..TopBit : 2^b <= n /\ n < 2^(b + 1)
PaddedLength(n) == IF 2^Log2(n) = n THEN n ELSE 2^(Log2(n) + 1)

\* block_sizes: one block per set bit of the size, largest first.
SetBits(n) == {b \in 0..TopBit : (n \div 2^b) % 2 = 1}

WholeBlock(n) == <<PaddedLength(n)>>

BlockSizes(n) ==
    [k \in 1..Cardinality(SetBits(n)) |->
       2^(CHOOSE b \in SetBits(n) : Cardinality({a \in SetBits(n) : a > b}) = k - 1)]

\* What the blocks before one of this size cover: the larger set bits.
OffsetOf(size, n) == n - (n % (2 * size))

-----------------------------------------------------------------------------
(***************************************************************************)
(* The components of a round: collect_components.                          *)
(***************************************************************************)
TreeLevels(t) ==
    IF t = "folded" THEN <<[chunks |-> round.chunks, rank |-> 1]>> ELSE round.tree[t]

\* batched_projection_rows
BatchedRows == IF PaddedLength(round.batches) = round.batches THEN 1 ELSE round.batches

\* The rows a level lays down, each addressed by a placement of its own, and the
\* length of one of them before it is decomposed.
Rows(t, l) ==
    CASE l > 1 -> 1
      [] l = 1 /\ t = "commitment" -> round.basicRank
      [] l = 1 /\ t = "opening" -> round.openings
      [] l = 1 /\ t = "batched" -> BatchedRows
      [] OTHER -> 1

RowLen(t, l) ==
    CASE l > 1 -> PaddedLength(TreeLevels(t)[l - 1].rank)
      [] l = 1 /\ t = "folded" -> round.height
      [] l = 1 /\ t \in {"commitment", "opening"} -> round.width
      [] l = 1 /\ t = "batched" -> (round.width * round.batches) \div BatchedRows
      [] OTHER -> (round.height * round.width) \div round.ratio

Component == [tree : Trees \cup {"folded"}, level : Nat, row : Nat]

Components ==
    UNION {UNION {{[tree |-> t, level |-> l, row |-> r] : r \in 0..(Rows(t, l) - 1)}
                    : l \in 1..Len(TreeLevels(t))} : t \in Trees \cup {"folded"}}

Chunks(c) == TreeLevels(c.tree)[c.level].chunks
SizeOf(c) == RowLen(c.tree, c.level) * Chunks(c)

TotalSize == MapThenSumSet(SizeOf, Components)
ComposedLength == PaddedLength(TotalSize)

\* The order components are collected in, and, ties broken by it, placed in.
CollectRank == [folded |-> 1, commitment |-> 2, opening |-> 3, coarse |-> 4,
                constantTerm |-> 5, batched |-> 6]

CollectedBefore(c, d) ==
    \/ CollectRank[c.tree] < CollectRank[d.tree]
    \/ c.tree = d.tree /\ c.level < d.level
    \/ c.tree = d.tree /\ c.level = d.level /\ c.row < d.row

PlacedBefore(c, d) ==
    \/ SizeOf(c) > SizeOf(d)
    \/ SizeOf(c) = SizeOf(d) /\ CollectedBefore(c, d)

\* prover_round pastes the folded witness, the projection, the opening and the
\* commitment.
PasteRank == [folded |-> 1, coarse |-> 2, constantTerm |-> 3, batched |-> 4,
              opening |-> 5, commitment |-> 6]

PastedBefore(c, d) ==
    \/ PasteRank[c.tree] < PasteRank[d.tree]
    \/ c.tree = d.tree /\ CollectedBefore(c, d)

First(S, Before(_, _)) == CHOOSE c \in S : \A d \in S \ {c} : Before(c, d)

-----------------------------------------------------------------------------
(***************************************************************************)
(* Placing: the first free prefix of the block's length.                   *)
(***************************************************************************)
Run(start, size) == start..(start + size - 1)

PrefixLength(size) == Log2(ComposedLength) - Log2(size)

\* What a conflict check that forgets a block's last position would offer.
FreeButLast(size) ==
    {p \in 0..(2^PrefixLength(size) - 1) : Run(p * size, size - 1) \cap used = {}}

FreePrefixes(size) ==
    {p \in 0..(2^PrefixLength(size) - 1) : Run(p * size, size) \cap used = {}}

FirstFree(S) == {p \in S : \A q \in S : p <= q}

\* The next block of the component being placed.
Current == First(left, PlacedBefore)
NextBlock == BlockSizes(SizeOf(Current))[Len(placement[Current]) + 1]

Placed(p) ==
    /\ placement' = [placement EXCEPT ![Current] =
                        Append(@, [prefix |-> p, length |-> PrefixLength(NextBlock)])]
    /\ used' = used \cup Run(p * NextBlock, NextBlock)
    /\ left' = IF Len(placement[Current]) + 1 = Len(BlockSizes(SizeOf(Current)))
               THEN left \ {Current} ELSE left
    /\ UNCHANGED pc

\* No valid prefix is a panic.
PlaceBlock ==
    /\ pc = "place" /\ left # {}
    /\ IF FreePrefixes(NextBlock) # {}
       THEN \E p \in FirstFree(FreePrefixes(NextBlock)) : Placed(p)
       ELSE pc' = "panicked" /\ UNCHANGED <<placement, used, left>>
    /\ UNCHANGED <<round, data>>

\* usage_ratio covers the highest used index, not the number of used ones.
UsedCount == Cardinality(used)

HighestUsed == IF used = {} THEN 0 ELSE Max(used) + 1

CeilDiv(a, b) == (a + b - 1) \div b

\* Of the next round's columns those the packed vector reaches, and of the
\* vector the part the sumcheck does not skip as its zero tail.
UsedCols == CeilDiv(round.nextWidth * HighestUsed, ComposedLength)
NonZeroEnd == HighestUsed

\* The next round gives the vector as many rows as fill its columns.
NextHeight == ComposedLength \div round.nextWidth

LayoutDone ==
    /\ pc = "place" /\ left = {}
    /\ pc' = "paste"
    /\ left' = Components
    /\ UNCHANGED <<round, placement, used, data>>

-----------------------------------------------------------------------------
(***************************************************************************)
(* What a level commits to: its rows padded to a power of two of them, each *)
(* row decomposed into digit planes padded to a power of two of them, the   *)
(* padding zero.  An entry is named by its place in the level's input.      *)
(***************************************************************************)
Digit(c, plane, element) == <<c, plane, element>>
Zero == <<"zero">>

PaddedChunks(c) == PaddedLength(Chunks(c))
Segments(c) == PaddedLength(Rows(c.tree, c.level))
RowLength(c) == RowLen(c.tree, c.level)

RowStrideUnpadded(c) == RowLength(c) * Chunks(c)

RowStride(c) == RowLength(c) * PaddedChunks(c)
CommittedLength(c) == RowStride(c) * Segments(c)

\* Entry i of the vector the level of component c commits to.
CommittedEntry(c, i) ==
    LET row == i \div (RowLength(c) * PaddedChunks(c))
        plane == (i \div RowLength(c)) % PaddedChunks(c)
    IN IF row < Rows(c.tree, c.level) /\ plane < Chunks(c)
       THEN Digit([c EXCEPT !.row = row], plane, i % RowLength(c))
       ELSE Zero

\* blocks_with_offsets: the k-th block with the offset it starts at.
BlockStart(prefix) == prefix.prefix * 2^(Log2(ComposedLength) - prefix.length)

Blocks(c) ==
    [k \in DOMAIN placement[c] |->
       LET size == BlockSizes(SizeOf(c))[k]
       IN [offset |-> OffsetOf(size, SizeOf(c)), size |-> size,
           start |-> BlockStart(placement[c][k])]]

\* paste_placement of one row: each block of the row's data to its prefix.
Paste ==
    /\ pc = "paste" /\ left # {}
    /\ LET c == First(left, PastedBefore)
           blocks == Blocks(c)
           in(i) == {k \in DOMAIN blocks : i \in Run(blocks[k].start, blocks[k].size)}
           source(i, b) == c.row * RowStride(c) + b.offset + (i - b.start)
       IN /\ data' = [i \in DOMAIN data |->
                        IF in(i) = {} THEN data[i]
                        ELSE CommittedEntry(c, source(i, blocks[CHOOSE k \in in(i) : TRUE]))]
          /\ left' = left \ {c}
    /\ UNCHANGED <<round, pc, placement, used>>

Packed ==
    /\ pc = "paste" /\ left = {}
    /\ pc' = "packed"
    /\ UNCHANGED <<round, left, placement, used, data>>

Finished ==
    /\ pc \in {"packed", "panicked"}
    /\ UNCHANGED vars

\* A round whose packed vector an index can address, and has as many entries as the
\* next round's columns: the assertion of generate_config_inner, where the next round
\* has a sumcheck; the other kinds read the vector at the same width and height.
Init ==
    /\ round \in Rounds
    /\ TotalSize <= 2^TopBit
    /\ ComposedLength % round.nextWidth = 0
    /\ pc = "place"
    /\ left = Components
    /\ placement = [c \in Components |-> <<>>]
    /\ used = {}
    /\ data = [i \in 0..(ComposedLength - 1) |-> Zero]

Next == PlaceBlock \/ LayoutDone \/ Paste \/ Packed \/ Finished

Spec == Init /\ [][Next]_vars
-----------------------------------------------------------------------------
(***************************************************************************)
(* What the sumchecks read.                                                *)
(***************************************************************************)

\* block_recomposition_weights: the positions of a component that carry a
\* weight when its part-th of parts pieces is recomposed, with the plane whose
\* radix weight they carry and the place the recomposed element has.
Recomposition(c, parts, part) ==
    LET sliceLen == SizeOf(c) \div (Chunks(c) * parts)
        read(b) ==
          LET slice(i) == b.offset \div sliceLen + i \div sliceLen
          IN {[at |-> b.start + i, plane |-> slice(i) \div parts, element |-> i % sliceLen]
                : i \in {j \in 0..(b.size - 1) : slice(j) % parts = part}}
    IN UNION {read(Blocks(c)[k]) : k \in DOMAIN placement[c]}

\* The recompositions the builders make: one per component of a tree's first
\* level, a batch of the batched projection at a time, and of every deeper
\* level one element of the commitment above it at a time.
RowRecompositions ==
    {<<c, 1, 0>> : c \in {d \in Components : d.level = 1 /\ d.tree # "batched"}}

\* batch_piece
BatchRecompositions ==
    LET batched == {c \in Components : c.level = 1 /\ c.tree = "batched"}
    IN IF Cardinality(batched) = 1
       THEN {<<c, round.batches, i>> : c \in batched, i \in 0..(round.batches - 1)}
       ELSE {<<c, 1, 0>> : c \in batched}

ChildRecompositions ==
    UNION {{<<c, TreeLevels(c.tree)[c.level - 1].rank, i>>
              : i \in 0..(TreeLevels(c.tree)[c.level - 1].rank - 1)}
             : c \in {d \in Components : d.level > 1}}

Recompositions == RowRecompositions \cup BatchRecompositions \cup ChildRecompositions

\* row_committed_pieces: which slice of a commitment-key row meets a block.
PieceWithoutPadding(c, b) ==
    LET planes == b.size \div RowLength(c)
    IN [len |-> CommittedLength(c) \div ((Segments(c) * PaddedChunks(c)) \div planes),
        slice |-> (c.row * Chunks(c) + b.offset \div RowLength(c)) \div planes]

Piece(c, b) ==
    LET planes == b.size \div RowLength(c)
    IN [len |-> CommittedLength(c) \div ((Segments(c) * PaddedChunks(c)) \div planes),
        slice |-> (c.row * PaddedChunks(c) + b.offset \div RowLength(c)) \div planes]

-----------------------------------------------------------------------------
(***************************************************************************)
(* Properties.                                                             *)
(***************************************************************************)
\* The panic of generate_config_inner is unreachable: the composed length only
\* covers the sum of the sizes, yet every block finds an aligned place.  The reason
\* is that first fit keeps the free space as whole as its size allows: whatever
\* power of two the free positions still add up to fits in one aligned block.
PlacementNeverFails ==
    /\ pc # "panicked"
    /\ \A b \in 0..Log2(ComposedLength) :
         2^b <= ComposedLength - UsedCount => FreePrefixes(2^b) # {}

\* The positions of a component's placed blocks.
Cells(c) ==
    UNION {LET size == BlockSizes(SizeOf(c))[k] IN Run(placement[c][k].prefix * size, size)
             : k \in DOMAIN placement[c]}

\* Components never share a position, whatever their sizes and their order.
PlacementsDisjoint ==
    \A c \in Components : \A d \in Components : c # d => Cells(c) \cap Cells(d) = {}

\* Every digit of every plane is read once, with its own plane's radix weight and
\* at its own element.
DigitsAreRead ==
    \A recomposition \in Recompositions :
      LET c == recomposition[1]
          parts == recomposition[2]
          part == recomposition[3]
          reads == Recomposition(c, parts, part)
          len == RowLength(c) \div parts
      IN /\ Cardinality(reads) = Chunks(c) * len
         /\ {<<data[x.at], x.plane, x.element>> : x \in reads} =
              {<<Digit(c, j, part * len + e), j, e>> : j \in 0..(Chunks(c) - 1), e \in 0..(len - 1)}

\* The next round commits, folds and sums over its used columns only, and the
\* sumcheck skips the tail of the vector: nothing that was pasted lies beyond.
NothingBeyondTheCut ==
    \A i \in DOMAIN data :
      data[i] # Zero => i < NonZeroEnd /\ i \div NextHeight < UsedCols

\* What paste_placement lays down and what the recompositions read are the same
\* digits (the comments on block_recomposition_weights), and none of them is lost
\* where the next round cuts its columns or the sumcheck its zero tail.
RecompositionReadsDigits == pc = "packed" => DigitsAreRead /\ NothingBeyondTheCut

\* Every nonzero entry a level commits to is met by the entry of the key row it
\* was committed under, through the one block it was placed in (the comments on
\* row_committed_pieces): padding rows and planes may be left out, nothing else.
KeyMeetsItsInput ==
    pc = "packed" =>
      \A c \in Components :
        LET blocks == Blocks(c)
            met == UNION {LET piece == Piece(c, blocks[k])
                          IN {<<piece.slice * piece.len + i, data[blocks[k].start + i]>>
                                : i \in 0..(piece.len - 1)} : k \in DOMAIN blocks}
        IN c.tree # "folded" =>
             met = {<<i, CommittedEntry(c, i)>> : i \in
                      {j \in 0..(CommittedLength(c) - 1) :
                         CommittedEntry(c, j) # Zero /\ CommittedEntry(c, j)[1] = c}}
=============================================================================

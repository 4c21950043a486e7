---------------------------- MODULE Constraints ----------------------------
(***************************************************************************)
(* The constraint system of a sumcheck round over the packed witness of    *)
(* Layout: which gadgets it is made of (src/protocol/sumchecks/builder.rs, *)
(* helpers.rs), what their tables are loaded with (loader.rs), what an     *)
(* honest prover commits to and claims, and what the verifier evaluates in *)
(* the tables' place (builder_verifier.rs, loader_verifier.rs).            *)
(*                                                                         *)
(* The ring is modelled by one slot of degree one: an element is a field   *)
(* element and a coefficient embedding the identity.  Conjugation permutes *)
(* the slots, so what it leaves in one slot is a value of its own: it is   *)
(* negation, which tells the witness from its conjugate.                   *)
(***************************************************************************)
EXTENDS Layout, Gadgets

Lists == INSTANCE SequencesExt

CONSTANTS
    BaseLog,            \* decomposition_base_log, of every level
    ProjectionHeight,   \* projection_height
    Seeds,              \* what the random oracle, the key and the witness depend on
    Draw(_, _, _, _)    \* a random field element, by seed, label and two indices

ASSUME RadixAssumption == BaseLog \in Nat \ {0, 1} /\ ProjectionHeight \in Nat \ {0}

VARIABLE options        \* the build and config choices that change a round's system

\* flat: the feature unsafe-sumcheck.  exact: exact_projection_norm.
Options == [flat : BOOLEAN, exact : BOOLEAN, seed : Seeds]

Drawn(label, i, j) == Draw(options.seed, label, i, j)

TotalVars == Log2(ComposedLength)

\* The components of the trees a round has, in the order they are verified in.
TreeOrder == SelectSeq(<<"commitment", "opening", "coarse", "constantTerm", "batched">>,
                       LAMBDA t : round.tree[t] # <<>>)
HasTree(t) == round.tree[t] # <<>>

At1(t, row) == [tree |-> t, level |-> 1, row |-> row]
AtLevel(t, l, row) == [tree |-> t, level |-> l, row |-> row]
RankOf(t, l) == round.tree[t][l].rank

FieldSum(S, f(_)) == MapThenSumSet(f, S) % Modulus

-----------------------------------------------------------------------------
(***************************************************************************)
(* Tensor rows: entry x is the product of layer or 1 - layer by the bits   *)
(* of x, the first layer being the most significant.                       *)
(***************************************************************************)
Bit(layers, b, x) == (x \div 2^(Len(layers) - b)) % 2

TensorAt(layers, x) ==
    ProductOver(DOMAIN layers,
                LAMBDA b : IF Bit(layers, b, x) = 1 THEN layers[b] ELSE (1 - layers[b]) % Modulus)

TensorRow(layers) == [x \in 1..2^Len(layers) |-> TensorAt(layers, x - 1)]

Layers(label, i, size) == [b \in 1..Log2(size) |-> Drawn(label, i, b)]

\* Keys for shorter vectors are the tails of the longest key's rows.
KeyLayers(i, size) == [b \in 1..Log2(size) |-> Drawn("key", i, Log2(size) - b)]

-----------------------------------------------------------------------------
(***************************************************************************)
(* What the honest prover holds: the witness and its images.               *)
(***************************************************************************)
WitnessAt(row, col) == Drawn("witness", row, col)
FoldingAt(col) == Drawn("folding", col, 0)
MatrixAt(k, x) == (Drawn("matrix", k, x) % 3) - 1

ImageHeight == round.height \div round.ratio
BlockWidth == round.ratio * ProjectionHeight      \* inner_width
BlockCount == round.height \div BlockWidth        \* blocks

ColumnOver(layers, col) ==
    FieldSum(0..(round.height - 1), LAMBDA r : TensorAt(layers, r) * WitnessAt(r, col))

\* Column-major, the blocks of a column below each other.
ImageAt(x) ==
    LET col == x \div ImageHeight
        block == (x % ImageHeight) \div ProjectionHeight
        k == x % ProjectionHeight
    IN FieldSum(0..(BlockWidth - 1), LAMBDA i : MatrixAt(k, i) * WitnessAt(block * BlockWidth + i, col))

\* A column of the image batched by c_0 over its blocks and c_1 within them.
BatchLayers(batch) ==
    Layers("c0", batch, BlockCount) \o Layers("c1", batch, ProjectionHeight)
BatchedAt(batch, col) ==
    FieldSum(0..(ImageHeight - 1),
             LAMBDA y : TensorAt(BatchLayers(batch), y) * ImageAt(col * ImageHeight + y))

FirstLevelAt(c, e) ==
    CASE c.tree = "folded" -> FieldSum(0..(round.width - 1), LAMBDA j : FoldingAt(j) * WitnessAt(e, j))
      [] c.tree = "commitment" -> ColumnOver(KeyLayers(c.row, round.height), e)
      [] c.tree = "opening" -> ColumnOver(Layers("inner", c.row, round.height), e)
      [] c.tree = "batched" -> BatchedAt(IF BatchedRows = 1 THEN e \div round.width ELSE c.row,
                                         e % round.width)
      [] OTHER -> ImageAt(e)

\* decompose: balanced digits of the centered representative; the last one takes
\* whatever is above it, so that a value outside the window is still recomposed.
HalfRadix == 2^(BaseLog - 1)
Centered(v) == IF v > Modulus \div 2 THEN v - Modulus ELSE v

DigitOf(v, plane, chunks) ==
    LET shift == HalfRadix * MapThenSumSet(LAMBDA j : 2^(BaseLog * j), 0..(chunks - 1))
        above == (Centered(v) + shift) \div 2^(BaseLog * plane)
    IN ((IF plane < chunks - 1 THEN above % 2^BaseLog ELSE above) - HalfRadix) % Modulus

\* An element of a level's input; below the first level, of the commitment above.
RECURSIVE ElementAt(_, _)
CommitmentAt(t, l, i) ==
    LET c == AtLevel(t, l, 0)
        entry(x) == CommittedEntry(c, x)
        digit(d) == DigitOf(ElementAt(d[1], d[3]), d[2], Chunks(d[1]))
        placed == {x \in 0..(CommittedLength(c) - 1) : entry(x) # Zero}
    IN FieldSum(placed, LAMBDA x : TensorAt(KeyLayers(i, CommittedLength(c)), x) * digit(entry(x)))

ElementAt(c, e) ==
    IF c.level = 1 THEN FirstLevelAt(c, e)
    ELSE IF e < RankOf(c.tree, c.level - 1) THEN CommitmentAt(c.tree, c.level - 1, e) ELSE 0

PackedWitness ==
    [i \in 1..ComposedLength |->
       LET d == data[i - 1]
       IN IF d = Zero THEN 0 ELSE DigitOf(ElementAt(d[1], d[3]), d[2], Chunks(d[1]))]

Conjugate(v) == (-v) % Modulus
Conjugated(w) == [i \in DOMAIN w |-> Conjugate(w[i])]

-----------------------------------------------------------------------------
(***************************************************************************)
(* The leaves of the system, by name.                                      *)
(***************************************************************************)
W == TableOf(<<"witness">>)
Conj == TableOf(<<"conjugate">>)

\* A recomposition of Layout and how often its radix is squared.
Squared == 2
RecompositionNames(r, scale) == {<<r, scale, k>> : k \in DOMAIN placement[r[1]]}

\* projection_norm_scope
NormScope ==
    IF options.exact THEN {t \in {"coarse", "constantTerm"} : HasTree(t)} ELSE {}

RecompositionParts ==
    UNION {RecompositionNames(r, 1) : r \in Recompositions}
      \cup UNION {RecompositionNames(<<At1(t, 0), 1, 0>>, Squared) : t \in NormScope}

\* The pieces of a level's input: its rows' blocks, row by row.
PieceCount(t, l) == Len(placement[AtLevel(t, l, 0)])
PiecesOf(t, l) ==
    [n \in 1..(Rows(t, l) * PieceCount(t, l)) |->
       [component |-> AtLevel(t, l, (n - 1) \div PieceCount(t, l)),
        block |-> ((n - 1) % PieceCount(t, l)) + 1]]

PieceNames ==
    UNION {UNION {{<<t, l, PiecesOf(t, l)[n]>> : n \in DOMAIN PiecesOf(t, l)}
                    : l \in DOMAIN round.tree[t]} : t \in Trees}

MostInnerNames == {x \in PieceNames : x[2] = Len(round.tree[x[1]])}

SliceNames == {<<"slice", x, i>> : <<x, i>> \in
                 {y \in PieceNames \X (0..7) : y[2] < RankOf(y[1][1], y[1][2])}}

TableNames ==
    {<<"witness">>, <<"conjugate">>, <<"folding">>}
      \cup {<<"key", i>> : i \in 0..(round.basicRank - 1)}
      \cup {<<label, o>> : label \in {"inner", "outer"}, o \in 0..(round.openings - 1)}
      \cup (IF HasTree("coarse")
            THEN {<<"flatter0">>, <<"flatter1">>, <<"imageFolding">>, <<"flatter">>} ELSE {})
      \cup (IF HasTree("batched")
            THEN {<<"fineFolding">>, <<"one">>} \cup
                 {<<label, i>> : label \in {"c0", "c1J", "lhsFlat", "rhsFlat", "e"},
                                 i \in 0..(round.batches - 1)} ELSE {})
      \cup {<<"weights", x>> : x \in RecompositionParts}
      \cup SliceNames

SelectorNames ==
    {<<"block", x>> : x \in RecompositionParts}
      \cup {<<"piece", x>> : x \in PieceNames}
      \cup {<<"mostInner", x>> : x \in MostInnerNames}

\* The tables that are tensor rows, which the verifier has by their layers, and
\* how many trailing variables a table does not depend on.
LayersOf(name) ==
    LET i == name[2]
    IN CASE name[1] = "key" -> KeyLayers(i, round.height)
         [] name[1] = "inner" -> Layers("inner", i, round.height)
         [] name[1] = "outer" -> Layers("outer", i, round.width)
         [] name[1] = "flatter0" -> SubSeq(Layers("flatter", 0, ImageHeight), 1, Log2(BlockCount))
         [] name[1] = "flatter" -> Layers("flatter", 0, ImageHeight)
         [] name[1] = "c0" -> Layers("c0", i, BlockCount)
         [] name[1] = "lhsFlat" -> Layers("c2", i, round.width)
         [] name[1] = "rhsFlat" -> Layers("c2", i, round.width) \o BatchLayers(i)

IsTensor(name) ==
    name[1] \in {"key", "inner", "outer", "flatter0", "flatter", "c0", "lhsFlat", "rhsFlat"}

SuffixOf(name) ==
    CASE name[1] \in {"flatter0", "c0"} -> Log2(BlockWidth)
      [] name[1] = "imageFolding" -> Log2(ImageHeight)
      [] name[1] = "weights" ->
           LET c == name[2][1][1]
               parts == name[2][1][2]
           IN Log2(SizeOf(c) \div (Chunks(c) * parts))
      [] OTHER -> 0

\* projection_flatter_1_times_matrix and j_batched: the matrix's rows weighted.
RowsWeighted(layers) ==
    [i \in 1..BlockWidth |->
       FieldSum(0..(ProjectionHeight - 1), LAMBDA k : TensorAt(layers, k) * MatrixAt(k, i - 1))]

\* block_recomposition_weights: the radix weights of the slices a block holds.
WeightsOf(r, scale, k) ==
    LET c == r[1]
        sliceLen == SizeOf(c) \div (Chunks(c) * r[2])
        block == Blocks(c)[k]
        slice(n) == block.offset \div sliceLen + n - 1
    IN [n \in 1..(block.size \div sliceLen) |->
          IF slice(n) % r[2] = r[3] THEN 2^(BaseLog * scale * (slice(n) \div r[2])) % Modulus ELSE 0]

\* ck_segment_sumcheck: the slice of a key row a piece meets.
SliceOf(x, i) ==
    LET c == x[3].component
        piece == Piece(c, Blocks(c)[x[3].block])
    IN [n \in 1..piece.len |->
          TensorAt(KeyLayers(i, CommittedLength(c)), piece.slice * piece.len + n - 1)]

EntriesOf(name) ==
    CASE IsTensor(name) -> TensorRow(LayersOf(name))
      [] name[1] = "witness" -> PackedWitness
      [] name[1] = "conjugate" -> Conjugated(PackedWitness)
      [] name[1] \in {"folding", "imageFolding", "fineFolding"} -> [j \in 1..round.width |-> FoldingAt(j - 1)]
      [] name[1] = "flatter1" ->
           RowsWeighted(SubSeq(Layers("flatter", 0, ImageHeight), Log2(BlockCount) + 1, Log2(ImageHeight)))
      [] name[1] = "c1J" -> RowsWeighted(Layers("c1", name[2], ProjectionHeight))
      [] name[1] \in {"one", "e"} -> <<1>>
      [] name[1] = "weights" -> WeightsOf(name[2][1], name[2][2], name[2][3])
      [] name[1] = "slice" -> SliceOf(name[2], name[3])

\* Only the witness and its conjugate are loaded with a zero tail.
EndOf(name) ==
    IF name[1] \in {"witness", "conjugate"} THEN NonZeroEnd ELSE Len(EntriesOf(name))

PrefixOf(name) ==
    LET x == name[2]
    IN IF name[1] = "block" THEN placement[x[1][1]][x[3]] ELSE placement[x[3].component][x[3].block]

LoadedTable(name) == Table(EntriesOf(name), TotalVars, SuffixOf(name), EndOf(name))
LoadedSelector(name) == Selector(PrefixOf(name).prefix, PrefixOf(name).length, TotalVars)

\* Every leaf init_sumcheck creates, loaded.
LoadedLeaves ==
    [name \in TableNames \cup SelectorNames |->
       IF name \in TableNames THEN LoadedTable(name) ELSE LoadedSelector(name)]

-----------------------------------------------------------------------------
(***************************************************************************)
(* init_sumcheck: the outputs of the constraint system.                    *)
(***************************************************************************)
RECURSIVE SumOf(_)
SumOf(nodes) ==
    IF Len(nodes) = 1 THEN nodes[1]
    ELSE Sum(SumOf(SubSeq(nodes, 1, Len(nodes) - 1)), nodes[Len(nodes)])

\* FoldedLeaves::recomposition
Recomposed(r, scale) ==
    SumOf([k \in DOMAIN placement[r[1]] |->
             Product(SelectorOf(<<"block", <<r, scale, k>>>>), TableOf(<<"weights", <<r, scale, k>>>>))])

Whole(t, row) == Recomposed(<<At1(t, row), 1, 0>>, 1)

BatchPiece(i) ==
    IF BatchedRows = 1 THEN Recomposed(<<At1("batched", 0), round.batches, i>>, 1)
    ELSE Whole("batched", i)

Upto(n, f(_)) == [i \in 1..n |-> f(i - 1)]

FoldedWitness == Whole("folded", 0)
WitnessFolding == Product(W, TableOf(<<"folding">>))

CommitmentFold(i) ==
    Diff(Product(FoldedWitness, Product(W, TableOf(<<"key", i>>))),
         Product(Whole("commitment", i), WitnessFolding))

InnerEvalFold(o) ==
    Diff(Product(FoldedWitness, Product(W, TableOf(<<"inner", o>>))),
         Product(Whole("opening", o), WitnessFolding))

OuterEvalClaim(o) == Product(Whole("opening", o), Product(W, TableOf(<<"outer", o>>)))

CoarseProjection ==
    Diff(Product(FoldedWitness, Product(W, Product(TableOf(<<"flatter0">>), TableOf(<<"flatter1">>)))),
         Product(Whole("coarse", 0), Product(W, Product(TableOf(<<"imageFolding">>), TableOf(<<"flatter">>)))))

FineProjection(i) ==
    Diff(Product(FoldedWitness, Product(W, Product(TableOf(<<"c0", i>>), TableOf(<<"c1J", i>>)))),
         Product(BatchPiece(i), Product(W, TableOf(<<"fineFolding">>))))

FineConsistency(i) ==
    Diff(Product(TableOf(<<"one">>), Product(BatchPiece(i), Product(TableOf(<<"lhsFlat", i>>), W))),
         Product(TableOf(<<"e", i>>), Product(Whole("constantTerm", 0), Product(TableOf(<<"rhsFlat", i>>), W))))

\* ck_over_pieces: key row i over the pieces of a level.
KeyOverPieces(t, l, i) ==
    SumOf([n \in DOMAIN PiecesOf(t, l) |->
             LET x == <<t, l, PiecesOf(t, l)[n]>>
             IN Product(TableOf(<<"slice", x, i>>), Product(SelectorOf(<<"piece", x>>), W))])

\* The child's input is this level's commitment, element i of it at part i.
ComVerifyOutput(t, l, i) ==
    IF l < Len(round.tree[t])
    THEN Diff(KeyOverPieces(t, l, i),
              Product(Recomposed(<<AtLevel(t, l + 1, 0), RankOf(t, l), i>>, 1), W))
    ELSE KeyOverPieces(t, l, i)

RECURSIVE ComVerify(_, _)
ComVerify(t, l) ==
    IF l = 0 THEN <<>> ELSE ComVerify(t, l - 1) \o Upto(RankOf(t, l), LAMBDA i : ComVerifyOutput(t, l, i))

Concatenated(n, f(_)) == Lists!FlattenSeq(Upto(n, f))
OverTrees(f(_)) == Lists!FlattenSeq([n \in DOMAIN TreeOrder |-> f(TreeOrder[n])])

MostInnerSelectors ==
    OverTrees(LAMBDA t :
      LET l == Len(round.tree[t])
      IN [n \in DOMAIN PiecesOf(t, l) |-> SelectorOf(<<"mostInner", <<t, l, PiecesOf(t, l)[n]>>>>)])

Norm == Product(W, Conj)
MostInnerNorm == Product(SumOf(MostInnerSelectors), Norm)
ProjectionNorm(t) == Product(Recomposed(<<At1(t, 0), 1, 0>>, Squared), Norm)

FineOutputs(i) == <<FineProjection(i), FineConsistency(i)>>

Outputs ==
    Upto(round.basicRank, CommitmentFold) \o Upto(round.openings, InnerEvalFold)
      \o Upto(round.openings, OuterEvalClaim)
      \o (IF HasTree("coarse") THEN <<CoarseProjection>> ELSE <<>>)
      \o (IF HasTree("batched") THEN Concatenated(round.batches, FineOutputs) ELSE <<>>)
      \o OverTrees(LAMBDA t : ComVerify(t, Len(round.tree[t])))
      \o <<Norm, MostInnerNorm>>
      \o (IF NormScope = {} THEN <<>> ELSE <<ProjectionNorm(CHOOSE t \in NormScope : TRUE)>>)

-----------------------------------------------------------------------------
(***************************************************************************)
(* batch_claims: the verifier walks the outputs and weighs the claim of    *)
(* each with the challenge at the index it has come to.                    *)
(***************************************************************************)
Zeros(n) == [i \in 1..n |-> 0]

EvaluationClaim(o) ==
    FieldSum(0..(round.width - 1),
             LAMBDA j : TensorAt(Layers("outer", o, round.width), j) * FirstLevelAt(At1("opening", o), j))

TreeClaims(t) ==
    LET last == Len(round.tree[t])
        inner == MapThenSumSet(LAMBDA l : RankOf(t, l), 1..(last - 1))
    IN Zeros(inner) \o Upto(RankOf(t, last), LAMBDA i : CommitmentAt(t, last, i))

ClaimWalk(constantTermClaims, normClaims) ==
    Zeros(round.basicRank) \o Zeros(round.openings) \o Upto(round.openings, EvaluationClaim)
      \o (IF HasTree("coarse") THEN Zeros(1) ELSE <<>>)
      \o (IF HasTree("batched")
          THEN Concatenated(round.batches, LAMBDA i : <<0, constantTermClaims[i + 1]>>) ELSE <<>>)
      \o OverTrees(TreeClaims)
      \o normClaims

-----------------------------------------------------------------------------
(***************************************************************************)
(* The verifier's leaves at a point, whose first coordinate is the first   *)
(* challenge: suffix variables, the table's own, then its prefix.          *)
(***************************************************************************)
\* BasicEvaluationLinearSumcheck, and the radix weights of FieldBlocksEvaluation:
\* halves are folded with the coordinates in reverse.
RECURSIVE HalvesFolded(_, _)
HalvesFolded(entries, point) ==
    IF Len(entries) = 1 THEN entries[1]
    ELSE LET half == Len(entries) \div 2
             r == point[Len(point)]
         IN HalvesFolded([i \in 1..half |-> (entries[i] + r * (entries[half + i] - entries[i])) % Modulus],
                         SubSeq(point, 1, Len(point) - 1))

\* StructuredRowEvaluationLinearSumcheck: layers, LS-first, against coordinates.
EqFactor(layer, r) == (1 - r) + layer * (2 * r - 1)
LayersAgainst(lsFirst, point) ==
    ProductOver(DOMAIN lsFirst, LAMBDA k : EqFactor(lsFirst[k], point[k]))

LsFirst(layers) == [k \in DOMAIN layers |-> layers[Len(layers) + 1 - k]]

\* The selector's bits against the coordinates above its block.
SelectorAgainst(prefix, point) ==
    ProductOver(1..prefix.length, LAMBDA b :
      LET r == point[Len(point) - prefix.length + b]
      IN IF (prefix.prefix \div 2^(b - 1)) % 2 = 1 THEN r ELSE 1 - r)

\* KeyRowProducts: the key rows a round reads, each registered with the layers
\* below its segment and sharing a row it agrees with; a row grows to the longest.
KeyReads ==
    Upto(round.basicRank, LAMBDA i : <<"key", i>>)
      \o OverTrees(LAMBDA t :
           Concatenated(Len(round.tree[t]), LAMBDA l :
             Concatenated(RankOf(t, l + 1), LAMBDA i :
               [n \in DOMAIN PiecesOf(t, l + 1) |-> <<"slice", <<t, l + 1, PiecesOf(t, l + 1)[n]>>, i>>])))

KeyRowLayers(name) ==
    IF name[1] = "key" THEN KeyLayers(name[2], round.height)
    ELSE KeyLayers(name[3], CommittedLength(name[2][3].component))

Fixed(name) ==
    IF name[1] = "key" THEN 0
    ELSE LET c == name[2][3].component
         IN Log2(CommittedLength(c) \div Piece(c, Blocks(c)[name[2][3].block]).len)

Registered(name) ==
    LET layers == KeyRowLayers(name) IN LsFirst(SubSeq(layers, Fixed(name) + 1, Len(layers)))

Agrees(row, layers) == \A k \in DOMAIN row \cap DOMAIN layers : row[k] = layers[k]

\* The rows as KeyReads have been registered, and the row the n-th is given.
FirstRow(rows, layers) == 1

RowFor(rows, layers) == Min({j \in DOMAIN rows : Agrees(rows[j], layers)} \cup {Len(rows) + 1})

RECURSIVE KeyRows(_)
KeyRows(n) ==
    IF n = 0 THEN <<>>
    ELSE LET rows == KeyRows(n - 1)
             layers == Registered(KeyReads[n])
             j == RowFor(rows, layers)
         IN IF j > Len(rows) THEN Append(rows, layers)
            ELSE [rows EXCEPT ![j] = IF Len(layers) > Len(@) THEN layers ELSE @]

\* A key row's slice off the products, times what its leading layers contribute.
KeyRowValue(name, rows, point) ==
    LET n == CHOOSE k \in DOMAIN KeyReads : KeyReads[k] = name
        layers == Registered(name)
        row == rows[RowFor(KeyRows(n - 1), layers)]
        segment == IF name[1] = "key" THEN 0
                   ELSE Piece(name[2][3].component, Blocks(name[2][3].component)[name[2][3].block]).slice
        scale == TensorAt(SubSeq(KeyRowLayers(name), 1, Fixed(name)), segment)
    IN (scale * LayersAgainst(SubSeq(row, 1, Len(layers)), point)) % Modulus

\* The two evaluations of the witness are the prover's claims.
LeafValue(name, claims, rows, point) ==
    LET own == SubSeq(point, SuffixOf(name) + 1, Len(point))
    IN CASE name = <<"witness">> -> claims[1]
         [] name = <<"conjugate">> -> claims[2]
         [] name[1] \in {"key", "slice"} -> KeyRowValue(name, rows, point)
         [] name \in SelectorNames -> SelectorAgainst(PrefixOf(name), point)
         [] IsTensor(name) /\ name[1] # "key" -> LayersAgainst(LsFirst(LayersOf(name)), own)
         [] OTHER -> HalvesFolded(EntriesOf(name), SubSeq(own, 1, Log2(Len(EntriesOf(name)))))

RECURSIVE NodeValue(_, _, _, _)
NodeValue(n, claims, rows, point) ==
    LET side(s) == NodeValue(s, claims, rows, point)
    IN CASE n.op \in {"table", "selector"} -> LeafValue(n.name, claims, rows, point) % Modulus
         [] n.op = "product" -> (side(n.lhs) * side(n.rhs)) % Modulus
         [] n.op = "sum" -> (side(n.lhs) + side(n.rhs)) % Modulus
         [] n.op = "diff" -> (side(n.lhs) - side(n.rhs)) % Modulus
=============================================================================

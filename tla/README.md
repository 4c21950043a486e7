# Rokoko verification models

Rokoko is a lattice-based polynomial commitment and argument system. A prover
convinces a verifier of evaluations of a committed witness by a **chain of
rounds**: each round folds the witness, packs everything the next round has to
prove into one new vector, and reduces its constraints on that vector to two
evaluation claims by a sumcheck. The last round sends a witness in the clear.

This directory holds TLA+ models of the protocol code in `src/src/protocol`, of
the kernels under it (`src/src/common`, `src/incomplete-rexl`), the TLC
configurations that check them, and proofs checked by TLAPS.

| module | models | checked by |
|---|---|---|
| `Transcript` | the Fiat-Shamir transcript (`common/hash.rs`) | all chain runs |
| `RoundConfig` | chains of round configs, the fields of a round proof | all chain runs |
| `RoundItems` | items, honest proofs, shapes, structural checks | all chain runs, `MCWire` |
| `Prover`, `Verifier` | the two parties' walk down a chain | all chain runs |
| `RoundChain` | a session of both, with altered proofs, cuts and reused contexts | `MCRoundChain*`, `MCBoundaryClaims` |
| `RoundArgument` | what a chain promises, abstractly | refined by `RoundChain` |
| `Layout` | how a round's witness is laid out, pasted and read | `MCLayout`, `MCSumcheckRun` |
| `Gadgets` | the sumcheck gadgets and the flat evaluation of first rounds | `MCSumcheckRun`, `MCClaimRun` |
| `Constraints` | a round's constraint system, both parties' versions | `MCSumcheckRun` |
| `SumcheckRun` | one sumcheck, variable by variable | `MCSumcheckRun` |
| `WireFormat`, `Wire` | a proof as a stream of fields; the decoder's walk and its allowance | `MCWire` |
| `BitStream` | the bit writer and reader under the wire format | `MCWire` |
| `Octaves` | the entropy coder of cells: histograms, two rANS lanes, raw fields | `MCWire` |
| `Words`, `NumberTheory` | machine words and lazy reductions; powers, inverses, roots | `MCLibrary`, `MCProducts` |
| `RootSearch` | each party's search for its root of unity | `MCLibrary` |
| `Ntt` | the negacyclic transform, pass by pass, on every integer path | `MCLibrary` |
| `SlotProduct` | products of ring elements in slots, and unreduced sums of them | `MCLibrary` |
| `Eltwise` | elementwise sums, products and reductions on vectors with a scalar head | `MCLibrary`, `MCProducts` |
| `GroupedRows`, `ProjectRows` | the coarse projection's kernels in sixteen-bit registers | `MCProjectRows` |
| `TableViews` | tables that borrow the witness, and the conjugate as a view of it | `MCTableViews` |
| `ClaimLanguage` | regions, weights, claim expressions and what they sum to | `MCClaimRun`, `MCClaimFlags` |
| `ClaimLowering` | canonical form, degree rule, pooled tables, the verifier's evaluation | `MCClaimRun`, `MCClaimFlags` |
| `ClaimRun` | statements made and their sumcheck between both parties | `MCClaimRun`, `MCClaimFlags` |
| `RoundItems_proofs`, `RoundChain_proofs`, `Wire_proofs`, `WireFaithful_proofs`, `Layout_proofs`, `ProjectRows_proofs`, `TableViews_proofs`, `Eltwise_proofs` | theorems | TLAPS |

## The system

| component | state | operations | talks to |
|---|---|---|---|
| transcript `common/hash.rs` | a running hash | absorb, draw | both parties |
| config `config.rs`, `config_generator.rs` | the round configs, the free positions while a layout is made | generate a layout from sizes | everything |
| prover `parties/prover.rs` | witness, evaluation points, pending commitment, boundary slot | `prover_round`, `..._intermediate`, `..._simple` | sumcheck, transcript, itself one round down |
| verifier `parties/verifier.rs` | statement, position in the proof, boundary slot | `check_*_round_shape`, `verifier_round`, `..._intermediate`, `..._simple` | sumcheck verifier, transcript |
| boundary `boundary.rs` | a countdown and a slot | `advance` | both walks |
| sumcheck contexts `sumchecks/context*.rs` | shared gadget cells, `consumed` flags | build, load, run, fold | runner, builder, loader |
| gadgets `sumcheck_utils/` | a table or selector each, caches and flags | polynomial at a point, of a round; fold | each other through shared cells |
| commitments `commitment.rs` | placements, recursive commitments | commit, paste, read back | prover, sumchecks |
| wire `wire.rs` | a decoder's allowance and rounds left; bit accumulators; coder lanes | encode, decode | callers of both parties |
| SNARK front end `snark/` | a witness builder's cursor, claim expressions, pooled leaves | build, lower claims to a sumcheck, batch, then a chain | gadgets, chain, boundary |
| projection kernels `common/arithmetic.rs` | partial and widened sums per row, cursors into sorted lists | grouped, tiled and scalar rows | prover |
| transform library `incomplete-rexl` | none between calls but tables of roots | find a root, transform, multiply slots, elementwise operations | ring elements everywhere |
| sampling, norms, estimator | none | pure functions | everything |
| tracing `tracing/` | spans, counters | instrument | everything |

What is hard about it is not threads; the parties are sequential programs. It is
that **two programs written separately must agree at every step**, over a
heterogeneous, recursive structure:

* they must absorb and draw in the same order, with optional fields, in three kinds of round;
* every optional or variable-length field must be pinned by a structural check, since the transcript sees only entries;
* a proof may end early, or at a cut either party asked for;
* sumcheck contexts are mutable, shared and consumed, and must not be reused;
* a layout made at generation time is read back by four other modules with different indexing;
* encoder and decoder list the fields of a proof twice, by hand, and what a decoder may allocate is computed a third time;
* kernels leave residues unreduced and sums unwidened as long as a bound allows, and the bound is an argument in a comment;
* a statement goes through an expression, a canonical form, gadgets over shared tables, and a separate evaluation, which must all mean the same sum;
* the sumcheck takes many shortcuts (skipped ranges, cached flags, zero tails, values carried from one round to the next, products shared between key rows), each a fact about the data it relies on.

What makes a component correct:

* **transcript**: every challenge is drawn after what it randomises; all that is read is bound.
* **parties**: an honest proof is accepted; an accepted proof was checked in every round it should have, with the shapes the configuration asks for; both hand the same statement downwards.
* **layout**: components never overlap; each finds a place; what is read back is what was pasted; nothing lies beyond the used length.
* **sumcheck**: a round's polynomial is the partial sum of the constraint system; leaves are folded once each; the last value is the verifier's own evaluation; shortcuts are exact.
* **contexts**: each serves one proof.
* **wire**: what is encoded is decoded; a proof has one encoding; nothing is allocated beyond an allowance that every honest proof exactly spends.
* **coder**: both sides' accumulators and lanes stay in step; each list of cells has one stream.
* **library**: on every path the exact residues, no intermediate beyond the word it is in, no access past a table; both parties find one root.
* **projection kernels**: the matrix applied to the digits, however long the runs of one sign and wherever the fast kernel gives up.
* **SNARK front end**: a true statement is accepted, a wrong one rejected, neither panics; the chain is handed true claims.

`PROJECT.json` lists each hazard at its line, with the property that would show it.

## How the models follow the code

### The chain (`RoundConfig`, `Transcript`, `Prover`, `Verifier`, `RoundChain`)

An item of a proof is its shape and its entries. An entry is named by the round
and field an honest prover puts it in, and only shapes, names, zeroness and a
foreign value are told apart. A transcript is the sequence of what was
absorbed and, per challenge, how much had been absorbed when it was drawn: two
challenges are equal if and only if their labels and prefixes are (an ideal
hash). An equation the verifier checks is an outcome: it
holds while everything read so far, the statement and the challenges are the
prover's, and otherwise it may or may not hold (what soundness makes unlikely is
allowed here, so acceptance can only rest on the structure).

`Prover` follows `prover_round` and its siblings by phases: open and project,
fold and commit the next witness, state the claims, one polynomial a variable,
close, then descend, be cut, or finish. `Verifier` first passes the structural
checks of a round (`CheckShape`), then replays the same phases in its own
order as in `sumcheck_verifier`, and recurses, accepts or rejects. `RoundChain`
composes them into sessions. Its `Deliver` hands the proof to the verifier either
unchanged or with one fault: one element of
a field replaced, removed or added, a matrix transposed, an optional group left
out or supplied unasked, an optional claim moved into the vector absorbed after
it, a round polynomial that counts too many or too few of its coefficients (whose whole
array is absorbed; in `Items` it adds a dimension to the shape), the proof cut short, a
round of another kind, or an altered statement. The
kinds are those the repository's tests list, in every field and every round.
Each party asks for a cut, and for fresh or used contexts.

| action | code |
|---|---|
| `Prove`, `Deliver` | `executor.rs` `run`, `execute_to_boundary` |
| `SumcheckOpen`, `SumcheckFold`, `ProverClaims`, `RoundPoly`, `CloseSumcheck` | `prover_round` up to its sumcheck, `runner.rs` |
| `BasicOpen`, `IntermediateFold`, `SimpleFold` | `prover_round_intermediate`, `prover_round_simple` |
| `CaptureBoundary`, `BoundaryRefused`, `Descend`, `FinishChain` | the end of `prover_round` |
| `CheckShape` | `check_*_round_shape` |
| `VSumcheck*`, `VBasic*`, `VRoundPoly`, `VClose*`, `VSimple*` | `runner_verifier.rs`, `verifier_round*` |
| `VCaptureBoundary`, `VDescend`, `VAcceptChain`, `VChainRefused` | the end of `verifier_round` |

`RoundArgument` is the abstract promise: a session verifies rounds one after the
other up to a target, is accepted there and nowhere else, and only a session
that is not intact can be rejected. `ImplementsArgument` is the refinement.

### The layout (`Layout`)

State is the list of placements, the packed vector and what has been placed.
`PlaceBlock` is one turn of the first-fit loop of `generate_config_inner`, block
by block of a component (sizes that are not powers of two are split into the
blocks of their set bits), in the generator's order of sizes. `LayoutDone` is the
rest of the generator. `Paste` and `Packed` are what `prover_round` then does:
the components' digits go to their placements in the prover's own order, which
is not the generator's. The properties compare that with the *readers*: the
recomposition weights of `sumchecks/helpers.rs` and the key slices of
`builder.rs`. `Init` admits only rounds whose packed vector has whole columns for the next
round, as the generator asserts (`config_generator.rs` 83-95).

### The sumcheck (`Gadgets`, `Constraints`, `SumcheckRun`)

`Gadgets` has every gadget's answers to the questions the others ask of it (its
polynomial at a point, its range of points that are not zero, whether it is
constant there, its dependence window), the sweep that combines them, the
folding of a table or selector by a challenge, and the flat rounds
(`sumcheck_utils/flat.rs`) which compute the first polynomials from a list of
products instead. `Option` is a set with at most one value, and an `unwrap` of
`None` leads to the phase `panicked`.

`Constraints` gives, for the layout at hand, the leaves and what they are
loaded with; the outputs in the order `builder.rs` pushes them; the data of an
honest round (digits, folded witness, opening, projection images, commitments
as key rows applied to what is placed); the order in which the verifier's
`batch_claims` walks the claims; and the verifier's evaluation of every leaf,
with the running products shared between key rows.

`SumcheckRun` puts a layout, its data, its sumcheck and the verifier's checks in
one behaviour: `LayOut`, `LoadData`, `StateClaims`, then `SendPolynomial` and
`TakeChallenge` for every variable, then `FinalCheck`. What is folded after a challenge is
what the context's lists hold (`FoldingLists`, in the order of `partial_evaluate_all`), while
the leaves are those the outputs are built of; `LeavesInStep` compares the two.

Abstractions, named: a ring element is one slot, of degree one, modulo 13, and
field extensions are that field; conjugation is negation; the sampled data, the
keys and batching challenges are a fixed mixture of their indices (`Draw`)
by a seed, while the variables' challenges are free; `Chunk` is 4 for the code's
32, so that flat rounds end while variables are left; the verifier takes each
message when it is sent and not from a finished proof, which it cannot tell
apart. Buffers that only save time are left out, the product's cache per point
among them (the runner's sweeps never fill it).

### The wire (`WireFormat`, `Wire`)

A stream has two parts: what the shape section says (kinds, flags, lengths), and
the cells, one per ring element or polynomial coefficient. `WireFormat` has the
encoder's list of a round's fields, `EncodedShape` and cells, and the allowance as
`wire.rs` computes it from the configuration. `Wire` is the decoder: `todo` is
its own list of the fields left, and each of `ReadPolys`, `ReadRing`,
`ReadSlice`, `ReadMatrix`, `ReadNextCommitment`, `ReadFinePair` and `ReadNext`
takes one, spends the allowance before allocating, and may end in
`malformed`; `Finish` is what remains to be checked at the end. The sender of the
stream is part of the environment: it encodes an honest or altered proof, and for an
honest one may depart from the encoder in one field (two, in the short chains).
`AcceptsOnlyTheEncoding` compares what was accepted with the encoding of what came
out, so an encoder and decoder wrong in the same way still have to agree with
the proof (`DecodesWhatWasEncoded`). `ShapeChecksHoldTheRest` composes the decoder
with the verifier's structural checks: what a decoder does not compare itself,
the checks after it do.

### The coder (`BitStream`, `Octaves`)

`Write` and `Read` are the accumulators of `BitWriter` and `BitReader`, with their
flushes and refills; gamma codes and lengths are built of them. The reader's
refill leaves bits above its count, as the code does, so what it ORs later has
to be the same bits. `Octaves` codes a cell as an octave under a histogram and a
raw field: `Push` makes the histograms and the two interleaved lanes backwards,
`FillCoded` and `FillRaw` decode, `FinishCells` compares the lanes' ends.
`Arrive` hands over the stream, or one that differs in a histogram, a first state, a
word or a bit. Widths are constants: two-bit bytes in an
eight-bit accumulator for 8 in 64; residues modulo 13, four octaves, scale 8,
states of eight bits, two lanes. The cost of a model, a sum of logarithms in
binary64, is a table; what the decoder recomputes from it is the choice.

### The transform library (`Words`, `NumberTheory`, `RootSearch`, `Ntt`, `SlotProduct`, `Eltwise`)

Words have 18 bits and the IFMA multiplier 12, for 64 and 52, and every bound of
the code that depends on them is computed from them as in the code. `RootSearch`
is the random draws of two parties and their walk to the least root. `Ntt` is a
call as a schedule of passes, each an action: scalar, the three vector forms
with their permutations between short strides, the recursion above the base
size in place with root tables addressed by depth and half. `SlotProduct` has the
single product and the tiled sums with chunks and blocks; `Eltwise` the vector
loops with their scalar heads. The properties say that no residue between passes
exceeds the bound the next pass relies on, that every root read lies in its table, and
that a finished call returns what the definition gives: a transform is the evaluation at
the odd powers of the root, a product the schoolbook one. Lanes of a vector are
followed together only where they share a branch.

One bound is not the code's own: the wide 52-bit reduction is exact for words
below `2^(CeilLog(q) + IfmaBits - 3)`, which covers every word for the 50-bit
moduli the code uses, and not for short moduli; `ReducibleWords` states it, and the theorem
on `Eltwise` assumes it of the operands.

### The projection kernels (`GroupedRows`, `ProjectRows`)

`GroupedRows` is the fast kernel: a budget is kept block by block (`OpenBlock`),
rows add groups of four digits with wrap-around (`AddGroup`) and are widened
when the budget runs out, a slice is emitted (`NextSlice`, `LastSlice`), or the
kernel declines (`Enter`, `DeclineBlock`). `ProjectRows` composes it with what
follows a refusal: the tiled kernel with its cursors, window by window
(`Prepare`, `ConsumeWindow`, `WriteSlice`), and the scalar one
(`ScalarRows`). `RowSumsOverflow` is the tiled kernel's own limit. A slice
stands for the 32 coefficients of a register, whose lanes do not interact.

### Tables and statements (`TableViews`, `ClaimLanguage`, `ClaimLowering`, `ClaimRun`)

`TableViews` follows who owns which memory: a table is its own, the caller's,
or a view of the table it was folded with; a read of a view conjugates.
`TakeChallenge` folds all tables of a sumcheck in the code's order. A challenge that is not
its own conjugate, or a table grown short, ends the sharing. `BorrowMin` is 2
for 1024. `ChainInputsAreTrue` looks at what the chain of rounds is then handed.

`ClaimLanguage` gives the expressions their meaning, a sum over the cube.
`ClaimLowering` has the canonical form, the degree rule, the prover's
gadgets (instances of `Gadgets`) over tables that uses share, and the
verifier's evaluation of each kind of weight at a point. `ClaimRun` builds a
witness (`Push`), states claims about it with right or wrong values
(`State`), and runs their sumcheck, flat rounds included. The polynomials' coefficients are
an honest prover's; how many of them each polynomial counts, and whether the conjugate is
opened, is free, and the verifier's checks of both decide (`malformed`). The ring
is two slots that conjugation exchanges; the sumcheck is followed in the first.

## The runs

| run | states | what it shows |
|---|---|---|
| `faults` | 17,767 | every single fault in every field of three chains; accepted proofs were checked whole, with shapes and challenges bound; the refinement of `RoundArgument` |
| `sessions` | 4,456 | two sessions, contexts fresh or reused, all pairs of cuts 0 to 3; honest proofs are accepted eventually |
| `boundary_claims` | violation | the prover's boundary claims are not those of the next round |
| `layout` | 2,720 | 128 rounds: sizes 1 to 3, one and two levels, with every projection |
| `sumcheck` | 2,036 | five rounds, flat evaluation and exact norm on and off, two values per challenge |
| `wire` | 461,205 | honest and altered proofs encoded, and streams with one or two departures, decoded within the allowance; under it, every stream of three writes with every change of a byte, and cells of two roles with streams altered |
| `library` | 247,286 | any one call of the transform library on every path |
| `products` | violation | a native product of residues for a modulus above half of the asserted range is not reduced |
| `project_rows` | 8,892 | blocks taken by the grouped, tiled and scalar kernels, refusals early and late |
| `table_views` | 2,766 | borrowed and shared tables, zero tails, one to sixteen elements |
| `claims` | 32,912 | eight lists of statements, true and wrong values, every count of coefficients, both parties |
| `claims_flags` | violation | a statement the degree rule accepts makes the prover panic |

**Bounds and why they suffice.** `MCLong` has the kinds of the shipped parameter sets in
their order: a sumcheck round with a coarse projection and exact norm, one with
a fine projection, an intermediate and a simple round. `MCShort` and
`MCSumcheckOnly` have the test configurations' three openings, a chain that ends
in a sumcheck, and no projection. Ranks differ between fields so that a length
compared with the wrong one shows. A walk treats each round alike, so depth
beyond four repeats; more than one fault does not make new comparisons, as each is
checked on its own.
A layout's sizes are numbers of twelve bits (`UsizeBits`; the code's have `usize::BITS`, and
`Init` takes the rounds whose vector an index can address), more than its vectors need.
Two sessions are needed for a reuse, and `MaxSessions` bounds them. Sizes 1 to 3
are the smallest with one block, an aligned pair and a split pair; two levels
make every parent and child case. The rounds of `sumcheck` have 16 and 32
positions: blocks split into two sizes, a zero tail, two levels, an image over
two blocks of rows, and fine batches in one row and in three. Two challenge
values for four and five variables give 32 paths, each checked step by step,
and a modulus of 13 makes an accidental agreement of one equation a one in
thirteen chance.

A decoder compares each field on its own, so one departure reaches each of its
comparisons; two (`OddBudget`) are allowed in the short chains, where one could
hide another. Three writes put a wide value over a byte and accumulator
boundary at every offset, and four or five cells use both lanes in turn and make them
refill. In `library`, degree 16 has every stride of the vector passes and degree
64 two recursions above the base; the moduli are the largest primes of the range of each
kernel and one on either side, the inputs are the extremes a lazy bound is about, and 33
terms pass two blocks with a rest. Registers of 31 and 95 for 2^15 - 1 and
2^31 - 1 put each kernel's limit among digits of six bits, and the digits
grow, fall and alternate so that a budget is exhausted in each block, halfway and
in the second slice. Sixteen elements are borrowed, shared for two folds and
then owned. Four variables hold two regions, a window in the middle, and a flat round
before the gadgets' ones.

Mutants of the code's definitions show that each property can
fail: `PROJECT.json` names one per property.

**Deadlock** is checked in every run. The ends of a behaviour are
`SessionOver`, `Finished`, `RunStopped`, `Stopped` (an end both parties know),
`Decided`, `StreamDone`, `CellsDone` (a stream accepted or refused), and for the
library `SearchFinished`, `Done`, `SlotFinished` and `EltwiseFinished` (a call returned).

**Fairness.** `FairSpec` asks weak fairness of the prover's steps, of handing over
its proof, and of the verifier's steps, each as a whole. They are sequential
programs with no lock, queue or wait, each step enabled as soon as the one before
it is done; weak fairness only says the process is not stopped. Nothing is
assumed about which fault or cut happens, nor that a session begins. `HonestProofIsAccepted`
(run `sessions`) is the liveness property; a prover that reuses
a spent context panics and promises nothing. The other modules are calls that
take finitely many steps; no liveness is stated of them.

## What is proved

For every value of the constants that satisfies the named assumptions:

| theorem | states |
|---|---|
| `RoundChain_proofs!TypeCorrect` | `Spec => []TypeOK` |
| `RoundChain_proofs!ContextsServeOneProof` | no context is loaded with a second proof |
| `RoundChain_proofs!AcceptanceRanWholeChain` | what is accepted was verified in every round up to the end or the cut, each of the configured kind |
| `RoundChain_proofs!HonestSessionsSucceed` | with fresh contexts a prover panics only over a cut the chain has no round for, and a verifier rejects only what was altered, a used context or another cut |
| `RoundChain_proofs!CapturedBoundariesAgree` | both parties' boundaries at one cut have one round, commitment, point and transcript |
| `RoundChain_proofs!ChainImplementsArgument` | the chain implements the abstract `RoundArgument`, step by step |
| `RoundChain_proofs!AcceptedProofIsAbsorbed` | every entry of a round verified, the folded witness apart, was absorbed |
| `RoundChain_proofs!ChallengesComeAfter` | a challenge is drawn after everything it randomises was absorbed |
| `RoundChain_proofs!ChallengesCountVariables` | one point challenge per variable of every round verified |
| `RoundChain_proofs!TranscriptsPinProofs` | equal transcripts leave no field of a verified round to alter, its shape included |
| `Wire_proofs!DecoderAcceptsOnlyTheEncoding` | what the decoder accepts is what the encoder writes for the proof decoded from it |
| `Wire_proofs!DecoderKeepsItsAllowance` | what is allocated and what is left make up the allowance, and neither coefficients nor rounds go below zero |
| `Wire_proofs!ShapeChecksCoverAllowance` | an accepted proof of the chain's rounds that passes their shape checks has spent the allowance exactly, coefficients and rounds |
| `WireFaithful_proofs!DecoderReturnsTheSource` | what the encoder writes is decoded to the proof it was given, and refused only where that proof is ill-formed or declares too much; an honest one leaves nothing of the allowance |
| `Layout_proofs!ComponentsNeverOverlap` | positions of the packed vector have one owner |
| `Layout_proofs!EveryBlockFindsAPlace` | no layout panics for want of a prefix; whatever power of two is left in all, one free block has it |
| `Layout_proofs!KeyRowsMeetTheirInput` | the slice of a key row taken for a block is the part of the row it was committed under, and a row's slices leave out only padding |
| `Layout_proofs!DigitsAreReadBack` | recomposition reads every digit pasted, once, at its own plane and element; none is beyond the used columns or in the skipped tail |
| `ProjectRows_proofs!BudgetIsEnough` | what is left of the sixteen-bit budget covers what any row can still add |
| `ProjectRows_proofs!GroupedKernelIsExact` | every slice the grouped kernel emits is the matrix applied to the digits |
| `ProjectRows_proofs!ProjectionIsTheMatrix` | whichever of the three kernels ran, wherever the grouped one declined, the result is the matrix applied to the digits |
| `TableViews_proofs!TablesNeverPanic` | no table is folded out of step with its view, none that borrows is folded in place, and every one ends with an entry of its own |
| `TableViews_proofs!TablesHoldFolds` | whatever is borrowed, shared or split, every entry read is the multilinear extension of the witness, or of its conjugate, at the challenges so far, and all tables agree where their zero tail begins |
| `Eltwise_proofs!ElementsComeOutExact` | every elementwise operation returns the exact remainders, on the native, plain-lane and 52-bit paths, for every width of the words, modulus, vector and operands; native products for moduli up to an eighth of the words |
| `TableViews_proofs!ChainInputsHold` | the statements the chain of rounds is handed open the committed witness to their claims, by any number of columns, at the point and at its conjugate |

Assumptions on the constants:

* of a chain, `ChainsAssumption` (chains are well formed, as the generator makes
  them), `NofBatchesAssumption`, `CutsAssumption`, `MaxSessionsAssumption`,
  `FaultsAssumption`, and `SizesAssumption`: powers of two and padded ranks are numbers,
  a fact of arithmetic the provers do not have;
* of the wire, `WireFormatAssumption` (a ring has coefficients; widths are numbers) and
  `WireAssumption` (the bound on departures is a number);
* of the layout, `RoundsAssumption` (sizes are positive, and a round that projects has rows to
  project); `DyadicAssumption`: heights, widths and the projection's ratio are powers of
  two, because the code counts their variables by `ilog2` (and `config.rs` 63 says it of the
  width), and so is the rank of every level that is committed to again, because `Placement::slice`
  (`commitment.rs` 220-235) asserts that its slices are dyadic; the last rank of a tree, the
  numbers of planes, openings and batches are free; and `BitsAssumption`, arithmetic:
  the powers of two an index holds are numbers, each twice the one before. The first two
  theorems on the layout do not use `DyadicAssumption`;
* of the kernels, `WidthsAssumption`, `KernelAssumption`, `TileAssumption` and `InputsAssumption` (the wide
  register is not narrower than the narrow one, there are rows, slices, groups and a largest window,
  digits fit sixteen bits);
* of the tables, `FieldAssumption`, `BorrowAssumption` (a table of one or two entries is
  never borrowed), `WitnessAssumption` (its length is a power of two),
  `UsesAssumption`, `ChallengesAssumption`, and `PowersAssumption`, again arithmetic: powers of two are
  numbers, each twice the one before;
* of the library, `WordsAssumption` (a word has an even number of bits, the 52-bit multiplier
  three at least and no more than a word), `PowersAssumption` (powers of two are numbers, and
  add in the exponent) and `ElementsAssumption`: the moduli are the asserted ones, from
  four to a quarter of the words, and operands are below the modulus or, to be reduced, words
  that the wide quotient has room for.

TLC evaluates each of them in the runs.

* `TypeInv` (theorem `TypeInvariant`) strengthens `TypeOK` by how far each
  party's walk has come: the prover's proof has exactly the rounds above the one
  it is in, or that one too once it is done; the verifier is in a round that was
  decoded; and neither is in a phase its round's kind does not have. Without it a
  step could read a round that does not exist. `RoundItems_proofs` has the lemmas
  on items: what an honest or altered item, proof and statement is typed as.
* `ContextInv` says that a context loaded is loaded once and spent, and that a
  verifier between opening a context and loading it has marked it spent and not
  loaded it yet. The property alone is not inductive: the step that loads has to
  know that nothing was loaded before.
* `WalkInv` says, while the verifier runs, that every round up to its own is of
  the configured kind, and that its countdown and its round add up to the caller's
  cut. Acceptance at the end of the chain and at the cut both follow.
* `CallInv` follows the calls a session is made of: the cut left and the rounds gone
  add up to the cut asked for, a prover that stopped did so where its cut or its
  chain says, and contexts are fresh until a round opens them. It gives
  that a prover goes through one determined sequence of states; inductions over rounds
  are by the least round at which a claim would fail.
* `FaithInv` relates the two parties. A **stretch** is what one round does to
  a party's transcript and statement, and it is a function of what it reads. An honest
  verifier is, at every point of its round, at a state of the prover's walk; so
  what it reads is what passes its checks (`HonestSessionsSucceed`), and
  where both capture a boundary they capture the same (`CapturedBoundariesAgree`). Rejection is
  traced to its cause by an invariant of its own, `RefusedInv`.
* The binding theorems need no honest prover. `ShapeInv` keeps that the items read passed the
  structural pass; `ReadInv`, `ChallengeInv` and `CountInv` say what of a round's items
  is in the transcript, before which draw, and how many were drawn, at each
  phase. `PinInv` compares with the prover: a verifier is beside
  a state of the prover's walk with equally many entries absorbed, and as long as
  all entries are equal nothing read was altered. That two items differ only
  if their entries differ holds because of the structural pass, which fixes every shape.
* `WireInv` says that what has been read is what the encoder would write for what has
  been decoded, so far: `Between` two fields, the fields left are the encoder's
  from some place on and each section is what it writes up to there. A fine
  projection is one field to the encoder and a flag with two roots to the
  decoder: `PairOpen` is past the flag, where the decoded proof does not show yet that there will
  be roots, and `PairHalf` past the first root. The property alone speaks only
  of the end. The lemmas under it: a section grows by a field and by a round and depends
  on nothing not read yet; a slice, a matrix or a commitment the decoder
  admits is written again as it was, which is where the comparisons that fix the choice of
  representation, the order of lengths and the padding are needed.
* `AllowanceInv` adds that the counters are numbers. That needs the
  allowance to be one: sums over finite sets of fields and rounds, by induction on
  their size.
* `SpentInv` says that what is left and what has been decoded declare the allowance
  between them, that a round read holds its fields and no others, and that the round
  being read holds none still to come (`Pending`: the two roots of a fine projection
  are, as long as their flag is). Sizes are then compared field by field: the shape
  checks fix the fields a prover may vary, the decoder those of one element, a kind
  those it does not have. Each round so declares its own allowance and the commitment
  to the next round, and the chain's sum is the same sum shifted by a round.
* `FaithfulInv` compares what is decoded with what was encoded, as long as the stream has
  not departed from the encoder's. The rounds above the one being read are the source's;
  of that one, a field no longer `Pending` is the source's as decoded (a polynomial is
  held at its degree) and a field still to be read is one the source has; a flag is still to come where
  the source has a round more. A refused stream has a source that is not
  `Transmissible`: a field of it is not what its type asks for, or all that is decoded and this field
  declare more than the allowance, hence so does the source, a proof with longer
  fields declaring no less. It needs that a sender's proof is laid out as its
  types are (`ProofOrdered`: no lone root of a fine projection, no width but a matrix's),
  which honest and altered proofs are shown to be; without that the encoder has nothing
  to write and the comparison no sense.
* `PlacementInv` says that each component has a sequence of blocks, that the used
  positions cover every block placed, and that no two components share a position.
  A block is placed on a prefix free of used positions, so its disjointness from
  the rest follows whatever the sizes and the order.
* `SpaceInv` is why first fit always finds a place, in whatever order the blocks come.
  The free space stays *whole*: of the free aligned blocks of a size all but the first
  are halves of free blocks of twice the size. Taking the first free block keeps
  that, because its sibling, if it is left alone, becomes the first of its size. In
  a whole space, of every size below a given one at most one block lies outside the
  free blocks of that size, and smaller powers of two never add up to the next; so if no
  block of a size is free, fewer positions than it has are. `SpaceIsAccounted` says
  enough is left: what is used is at most what the blocks placed have, counted as
  places, and the vector is no shorter than the places of all components. The sum
  `MapThenSumSet` folds is shown to be that count by an induction on cardinality,
  so no induction theorem of the library is needed.

* `PasteInv` adds to `SpaceInv` what has been pasted: the blocks placed of a component are
  those of its size, apart from each other and inside the vector (`BlocksFit`), nothing is
  pasted before all is placed (`PlacedFirst`), and of every component pasted each block holds
  the part of the row it stands for, and what is not zero is at a used position (`PastedSoFar`).
  Pasting a component keeps that of the others because positions have one owner. The two
  properties speak of the packed vector only, and follow from `PasteInv` by arithmetic: the blocks of a size tile it
  (`BlocksTile`); a row is a power of two long, so a block is a power of two of planes and
  starts at a multiple of twice as many (`BlockPlanes`), which is why the slice of the key
  row a builder computes by dividing is the right one; and a position of a row is one part, one
  plane and one element (`Joining`, `Splitting`), which is why every digit is read once. Without
  powers of two the division that makes a slice is not exact, and without whole columns
  the last used one could be cut short.

* `GroupedInv` has four parts: what the entry check established, that the digits are
  whole blocks and a row's sum fits the wide register (`EntryPassed`); that between blocks no
  partial exceeds the budget spent, and partial plus widened sum is the exact sum of
  the blocks done (`BetweenBlocks`); that inside a block a row has added at most the
  block's largest digit per digit (`InsideBlock`); and that slices already emitted
  are exact (`SlicesEmitted`). The two properties speak of the moments between blocks
  and after a slice; only with the bound inside a block does it follow that no
  addition wrapped.
* `ProjectInv` adds the kernels that take over. `SumsAreRows` says that the history the grouped
  kernel is compared with is the matrix's sum over the elements done. `TiledInv` says
  where the tiled kernel stands: each row's two cursors are behind the windows it has
  been through (`RowInStep`), and the row `Carries` its exact sum, split where it was last widened into a
  total and a sixteen-bit rest; windows are sized so that the rest cannot leave sixteen bits
  (`Suits`). The partial sums over the +1 and the -1 entries may each wrap; their
  difference is exact because it fits, whatever its two terms are modulo 2^16.
  A cursor is compared with the number of a row's entries before an element (`Rank`), because the
  list is sorted and stands where the counting pass said (`RowReached`); what is added between
  two positions is then the growth of the row's sum. Lists and sums are recursive functions;
  their values are compared by the least place at which they could differ.
* `ViewInv` says that all tables halve in step with the challenges, that what is borrowed is
  long, and that either no table shares memory or exactly the first of the
  witness and the first of its conjugate do, at one length and one end, the owner marked.
  Two tables that share can then always be folded together, so the assertion on a
  marked table is out of reach.
* `FoldInv` adds the values to `ViewInv`: what a table reads is the extension, its tail is zero
  from the end on, and the end is the witness's, halved with rounding up (`TablesKeep`); and
  tables that look into the same memory see the same there, or one sees the
  conjugate (`MemoryAlike`). The last is what makes the property
  inductive: a view is not folded, it moves to memory its owner folded, so it holds the right
  values only if conjugation passes through a fold, which it does because a challenge
  of the field is its own conjugate. One fold is one coordinate more of the
  extension: the sum over a cube splits into pairs, each pair's weights into the
  rest's weight times `1 - x` or `x`. Sums and products over an interval are compared
  element by element, by the smallest interval on which they could differ, and
  arithmetic modulo the prime as congruences.
  When no variable is left every table owns one entry, read as it is, so what the sumcheck
  ends with is the extension at the point. That the statements hold then is a fact about
  openings: a corner's weight is, modulo the prime, the outer row's entry of its leading bits times
  the inner row's of the rest, so the sum over the cube is a sum of columns wherever
  the point is cut; and evaluating the conjugate is conjugating the evaluation at the
  conjugate point.

* `ElementsInv` says that what a call was made with is what its operation may be given
  (`RequestServed`), that the elements left once the head is done fill whole vectors, so that
  no step writes beyond the result (`VectorsFit`), and that every element done is exact. Under it lies
  one argument used five times: a product put together from half words is the
  product; a quotient estimated with a rounded reciprocal is never too large, and short by one when
  what it multiplies is within half of the multiplier's range, by two otherwise
  (`Reciprocal`, `ShiftedReciprocal`), by one more where the high half is approximate; what is left,
  computed with wrap-around, is then a small number, because its true value is
  (`WordRemainder`, `IfmaRemainder`); and each path subtracts as often as its estimate can be short.
  Only the native product does not, for moduli above an eighth of the words: the property
  leaves these out, and the run `products` shows one. The 52-bit branch
  taken by a whole vector for one lane is exact for its neighbours because both branches are exact for every lane that can reach them.

Only model-checked: liveness (fairness is out of the prover's reach); the numeric properties of `Gadgets`,
`Constraints`, `SumcheckRun`, `ClaimLowering`, and of the library's root search, transforms
and slot products, whose trees and loops are recursive operators; and the coder, whose loops
run over streams of bits.

## Findings

* `boundary_claims`: the comment on the cut in `prover_round` calls the boundary
  statement the one any next round proves. `ProverBoundary.claims` has the claim
  at the conjugate point as sent; the next round proves its conjugate, which is
  what the verifier's boundary has.
* `claims_flags`: `ProductSumcheck::ensure_const_flags` probes one point of a
  round, while its comment says, and an unwrap relies on, "at every point". A
  statement that multiplies the witness by the sum of a weight on the leading
  variable and the witness restricted to a region is within the degree rule, the
  only check before the prover starts; the flag is wrong for it and the prover
  panics. The statements of the `claims` run have no such sum inside a product.

* `products`: `eltwise_mult_mod_native` and `barrett_reduce_128` assert a modulus
  below 2^62 and subtract it once at the end. Above 2^61 the product shifted right may be
  longer than half a word and the estimated quotient two too small: modulo
  4607890031633916163 the square of the largest residue comes out as the modulus
  plus one. The vector form subtracts twice and is exact. The
  program's own moduli have 50 bits.

Noted while modelling, with no run: at a cut the verifier ignores
`proof.next`; `config_generator.rs` speaks of `rank.next_power_of_two()`
sub-blocks where the builders divide by the rank (equal for every configured
rank); `load_combiner_evaluation_data` shifts by `1u64 << shift` where the
weights elsewhere are powers modulo the prime; the constant terms of the simple
round are summed in 64 bits and reduced once; the most-inner norm of a round also relies on
the flag of `claims_flags`: with a short most-inner block placed before a longer one it
would be wrong there, an order no shipped configuration has; the fine projection
recentres by half the modulus (`HALF_WAY_MOD_Q`), an argument about the size of its
sums that holds statistically and is not modelled.

## Not modelled

* **Floating-point and NEON kernels, the table cache** of the transform library: the
  first round in binary64, the second repeat the scalar path on another
  machine, the third is a memo of what `RootSearch` finds.
* **Fine projection's kernels, the rejection of projections** with a large image.
* **Sampling, short challenges, norms, hardness estimates, generated
  parameters**: distributions and real numbers, comparisons in binary64.
* **What the transcript absorbs for the front end's claims**, the helpers that draw a
  point (`eq_weighted_sum`, `challenge_point`) and the specialised expansions of its tables.
* **The intermediate sumcheck's constraint system** (its transcript and control
  are modelled) and the equations of the simple round: planned.
* **Shared gadget cells** as a borrow discipline: the models' actions are the runner's
  phases, in which nothing is read while it is folded.
* **Tracing, benches, scripts**: no protocol state.

## Plan

Done, in this order: the chain and its abstract argument; its type correctness
and context and acceptance theorems; honest sessions, boundaries, the refinement
and what a transcript binds, as theorems; what the decoder accepts, its allowance and that it returns what was encoded, as theorems; the layout, that its
components are disjoint, all find a place, meet their key rows and are read back, as theorems; the
sumcheck of a round; the wire format and its coder; the transform library; the
elementwise arithmetic of the transform library, as a theorem; the
projection kernels and that all three are exact, as theorems; the front end's statements and its tables,
which never panic.
Next, most important first:

1. The intermediate sumcheck in `Constraints` and `SumcheckRun`, as another
   kind of round, with its verifier context that remembers evaluations.
2. The simple round's equations (`verifier.rs`), their 64-bit sums included.
3. The transcript of the front end, composed with `Transcript`.
4. `Norms`: width and rounding of the norm and constant-term comparisons.

Abstract specifications worth stating: a sumcheck as an interactive argument
(claim, polynomial, challenge) that `SumcheckRun` and `ClaimRun` implement; a decoder as a
reader of a list of fields that `Wire` implements.

Proofs: lemmas on tensor rows and on the folding of selectors, with recursive functions in
place of recursive operators; then the coder's accumulators.

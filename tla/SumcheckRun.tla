---------------------------- MODULE SumcheckRun ----------------------------
(***************************************************************************)
(* One sumcheck of a round, honest prover and verifier: the round is laid  *)
(* out (Layout), its tables loaded, its claims stated, and variable after  *)
(* variable the prover sends the polynomial of what is left, the verifier  *)
(* checks it against its claim and both take the challenge, until the      *)
(* verifier evaluates the constraint system itself                         *)
(* (src/protocol/sumchecks/runner.rs and runner_verifier.rs).              *)
(*                                                                         *)
(* The verifier reads a finished proof; here it takes each message as it   *)
(* is sent, which it cannot tell apart.  The challenges that batch the     *)
(* outputs are drawn by the seed, those of the variables are free.         *)
(***************************************************************************)
EXTENDS Constraints

CONSTANT Challenges     \* the challenges a variable may be given

ASSUME ChallengesAssumption == Challenges \subseteq Field

VARIABLES
    phase,       \* layout, state, send, challenge, final, accepted, rejected, panicked
    outputs,     \* the outputs of the constraint system, built with its config
    points,      \* evaluation_points: the challenges so far, the first one first
    message,     \* poly_over_field: the last polynomial sent
    previous,    \* FlatRounds.previous: the polynomials of the round's terms
    flatRounds,  \* FlatRounds.rounds
    claim        \* batched_claim_over_field: what the verifier expects

runVars == <<phase, outputs, points, message, previous, flatRounds, claim>>
allVars == <<vars, options, leaf, runVars>>

-----------------------------------------------------------------------------
\* combination and fe: the challenges that batch outputs and slots.
Gamma == [o \in DOMAIN outputs |-> Drawn("gamma", o, 0)]
Slot == Drawn("slot", 0, 0)

FoldedOnce(l, r) == IF "data" \in DOMAIN l THEN FoldTable(l, r) ELSE FoldSelector(l, r)

\* partial_evaluate_com_verify: the slices of a tree's inner layers, then those of
\* its output layer, which has a field of its own.
IsOutputSlice(name) == name[2][2] = Len(round.tree[name[2][1]])

\* Mutant of OutputSlices: the layers of a tree are walked, its output layer is not.
NoOutputSlices == {}

OutputSlices == {name \in SliceNames : IsOutputSlice(name)}

\* The lists partial_evaluate_all walks.  FoldedLeaves collects the selectors and
\* the weights while the round is built; the others are fields of the context, of
\* its projection, and of its trees' layers.
FoldingLists ==
    LET indexed(label, n) == {<<label, i>> : i \in 0..(n - 1)}
        perBatch == {"c0", "c1J", "lhsFlat", "rhsFlat", "e"}
    IN << {<<"witness">>},
          {<<"block", x>> : x \in RecompositionParts} \cup {<<"piece", x>> : x \in PieceNames}
            \cup {<<"mostInner", x>> : x \in MostInnerNames},
          {<<"weights", x>> : x \in RecompositionParts},
          {<<"folding">>},
          indexed("key", round.basicRank),
          indexed("inner", round.openings),
          indexed("outer", round.openings),
          IF HasTree("coarse")
          THEN {<<"flatter0">>, <<"flatter1">>, <<"imageFolding">>, <<"flatter">>} ELSE {},
          IF HasTree("batched") THEN {<<"fineFolding">>, <<"one">>} ELSE {},
          IF HasTree("batched") THEN UNION {indexed(label, round.batches) : label \in perBatch} ELSE {},
          {name \in SliceNames : ~IsOutputSlice(name)},
          OutputSlices,
          {<<"conjugate">>} >>

\* A leaf two lists hold is folded twice, one that is in none keeps its variables.
Folded(r) ==
    Lists!FoldLeft(LAMBDA leaves, names :
                     [name \in DOMAIN leaves |->
                        IF name \in names THEN FoldedOnce(leaves[name], r) ELSE leaves[name]],
                   leaf, FoldingLists)

Stopped == phase \in {"accepted", "rejected", "panicked"}

\* Laying the round out, and pasting its witness, comes first.
LayOut ==
    /\ phase = "layout"
    /\ PlaceBlock \/ LayoutDone \/ Paste \/ Packed
    /\ UNCHANGED <<options, leaf, runVars>>

\* load_sumcheck_data, into a context init_sumcheck has built.
LoadData ==
    /\ phase = "layout" /\ pc = "packed"
    /\ leaf' = LoadedLeaves
    /\ outputs' = Outputs
    /\ phase' = "state"
    /\ UNCHANGED <<vars, options, points, message, previous, flatRounds, claim>>

\* The inner product of the witness and its conjugate is computed directly, the
\* other claims by the gadgets; a claim of the fine projection must have constant
\* term zero.
WitnessNorm ==
    LET w == leaf[<<"witness">>].data
        conj == leaf[<<"conjugate">>].data
    IN FieldSum(DOMAIN w, LAMBDA i : w[i] * conj[i])

ClaimSets ==
    [norms |-> <<{WitnessNorm}, SumClaim(MostInnerNorm)>>
                 \o (IF NormScope = {} THEN <<>>
                     ELSE <<SumClaim(ProjectionNorm(CHOOSE t \in NormScope : TRUE))>>),
     constantTerms |-> IF HasTree("batched")
                       THEN Upto(round.batches, LAMBDA i : SumClaim(FineConsistency(i))) ELSE <<>>]

Computed(claims) == \A i \in DOMAIN claims : claims[i] # {}
Unwrapped(claims) == [i \in DOMAIN claims |-> CHOOSE c \in claims[i] : TRUE]

StateClaims ==
    /\ phase = "state"
    /\ LET constantTerms == Unwrapped(ClaimSets.constantTerms)
           walk == ClaimWalk(constantTerms, Unwrapped(ClaimSets.norms))
       IN IF ~Computed(ClaimSets.norms) \/ ~Computed(ClaimSets.constantTerms)
               \/ Len(walk) # Len(outputs)
          THEN phase' = "panicked" /\ UNCHANGED <<claim, flatRounds>>
          ELSE /\ phase' = IF \A i \in DOMAIN constantTerms : constantTerms[i] = 0
                           THEN "send" ELSE "rejected"
               /\ claim' = (Slot * FieldSum(DOMAIN walk, LAMBDA o : Gamma[o] * walk[o])) % Modulus
               /\ flatRounds' = IF options.flat THEN FlatRoundCount(outputs, TotalVars) ELSE 0
    /\ UNCHANGED <<vars, options, leaf, outputs, points, message, previous>>

\* The prover sends what is left of the sum as a polynomial in its next variable;
\* the verifier checks it against what the last one came to.
InFlatRound == Len(points) < flatRounds

RoundTerms == IF InFlatRound THEN TermPolys(outputs, previous, points) ELSE <<>>

RoundPoly ==
    IF InFlatRound THEN FlatCombined(outputs, Gamma, RoundTerms) ELSE Combined(outputs, Gamma)

SendPolynomial ==
    /\ phase = "send"
    /\ IF RoundPoly = {}
       THEN phase' = "panicked" /\ UNCHANGED <<message, previous>>
       ELSE LET sent == Scaled(Slot, CHOOSE p \in RoundPoly : TRUE)
            IN /\ message' = sent
               /\ previous' = IF InFlatRound
                              THEN [i \in DOMAIN RoundTerms |-> CHOOSE p \in RoundTerms[i].poly : TRUE]
                              ELSE previous
               /\ phase' = IF (ValueAt(sent, 0) + ValueAt(sent, 1)) % Modulus = claim
                           THEN "challenge" ELSE "rejected"
    /\ UNCHANGED <<vars, options, leaf, outputs, points, flatRounds, claim>>

TakeChallenge ==
    /\ phase = "challenge"
    /\ \E r \in Challenges :
         /\ points' = Append(points, r)
         /\ leaf' = Folded(r)
         /\ claim' = ValueAt(message, r)
    /\ phase' = IF Len(points) + 1 = TotalVars THEN "final" ELSE "send"
    /\ UNCHANGED <<vars, options, outputs, message, previous, flatRounds>>

\* claim_over_witness and claim_over_witness_conjugate
WitnessClaims == <<leaf[<<"witness">>].data[1], leaf[<<"conjugate">>].data[1]>>

\* The verifier's own evaluation of the constraint system.
FinalCheck ==
    /\ phase = "final"
    /\ LET rows == KeyRows(Len(KeyReads))
           value(o) == NodeValue(outputs[o], WitnessClaims, rows, points)
           evaluation == Slot * FieldSum(DOMAIN outputs, LAMBDA o : Gamma[o] * value(o))
       IN phase' = IF claim = evaluation % Modulus THEN "accepted" ELSE "rejected"
    /\ UNCHANGED <<vars, options, leaf, outputs, points, message, previous, flatRounds, claim>>

RunStopped == Stopped /\ UNCHANGED allVars

RunInit ==
    /\ Init
    /\ options \in Options
    /\ leaf = <<>>
    /\ phase = "layout"
    /\ outputs = <<>>
    /\ points = <<>>
    /\ message = NoPoly
    /\ previous = <<>>
    /\ flatRounds = 0
    /\ claim = 0

RunNext ==
    LayOut \/ LoadData \/ StateClaims \/ SendPolynomial \/ TakeChallenge \/ FinalCheck \/ RunStopped

RunSpec == RunInit /\ [][RunNext]_allVars
-----------------------------------------------------------------------------
(***************************************************************************)
(* Properties.                                                             *)
(***************************************************************************)
\* The completeness the round's end-to-end tests look at with one parameter set:
\* what an honest prover sends is accepted, at every step, whatever the round's
\* sizes, the feature and config it is built with and the challenges it is given.
\* No unwrap of the runner or the gadgets is reached on a None either: a factor
\* taken to be constant in a round has its constant wherever the product is swept
\* (the comment on the flags of ProductSumcheck), and the walk over the claims
\* meets every output.
HonestRunIsAccepted == phase \notin {"rejected", "panicked"}

\* The value of a leaf at a point of what is left of the cube.
LeafAt(name, j) ==
    LET l == leaf[name]
    IN IF name \in TableNames THEN l.data[((j \div 2^l.suffix) % Len(l.data)) + 1]
       ELSE IF j \div 2^(l.vars - l.length) = l.prefix THEN l.claim ELSE 0

\* A tree where its next variable is x and the others those of point p.
RECURSIVE TreeAt(_, _, _)
TreeAt(n, x, p) ==
    LET side(s) == TreeAt(s, x, p)
    IN CASE n.op \in {"table", "selector"} ->
              LET at0 == LeafAt(n.name, 2 * p)
              IN at0 + x * (LeafAt(n.name, 2 * p + 1) - at0)
         [] n.op = "product" -> (side(n.lhs) * side(n.rhs)) % Modulus
         [] n.op = "sum" -> side(n.lhs) + side(n.rhs)
         [] n.op = "diff" -> side(n.lhs) - side(n.rhs)

\* Every shortcut computes the same polynomial: the one sent is the sum of the
\* batched outputs over all points of what is left of the cube, whatever ranges,
\* constant factors and zero tails were made use of, and in a flat round whatever
\* was carried over from the round before.
RoundPolynomialIsPartialSum ==
    phase \in {"challenge", "rejected"} /\ message # NoPoly =>
      LET rest == 0..(2^(TotalVars - Len(points) - 1) - 1)
          output(o, x) == FieldSum(rest, LAMBDA p : TreeAt(outputs[o], x, p))
      IN \A x \in 0..3 :
           ValueAt(message, x) =
             (Slot * FieldSum(DOMAIN outputs, LAMBDA o : Gamma[o] * output(o, x))) % Modulus

\* What is left of the witness's tables are its evaluations at the challenges taken
\* so far, so that the two claims a round ends with are the packed witness and its
\* conjugate at the point handed to the next round, zero tail and all.
ClaimsAreWitnessEvaluations ==
    phase \in {"send", "challenge", "final", "accepted"} =>
      LET row == TensorRow([b \in DOMAIN points |-> points[Len(points) + 1 - b]])
          extension(v) == [j \in 1..(Len(v) \div Len(row)) |->
                             FieldSum(DOMAIN row, LAMBDA i : row[i] * v[(j - 1) * Len(row) + i])]
      IN /\ leaf[<<"witness">>].data = extension(PackedWitness)
         /\ leaf[<<"conjugate">>].data = extension(Conjugated(PackedWitness))

\* The lists partial_evaluate_all walks reach every leaf the outputs are built of, and
\* none of them twice: after each challenge all leaves of the round, whatever its
\* trees, projection and batches, have the same variables left.
LeavesInStep ==
    phase \in {"send", "challenge", "final"} =>
      \A name \in DOMAIN leaf : leaf[name].vars = TotalVars - Len(points)
=============================================================================

------------------------------ MODULE ClaimRun ------------------------------
(***************************************************************************)
(* A witness is put together, statements about it are made, and their      *)
(* sumcheck is run between an honest prover and the verifier               *)
(* (src/protocol/snark/mod.rs and lowering.rs: WitnessBuilder,             *)
(* prove_claims, verify_claims).  A statement's value is the one it sums   *)
(* to, or a wrong one; the coefficients sent are the honest prover's, how  *)
(* many of them are counted and whether the conjugate is opened is free.   *)
(* The verifier reads a finished proof; here it takes each message as it   *)
(* is sent, which it cannot tell apart.                                    *)
(***************************************************************************)
EXTENDS ClaimLowering

CONSTANTS
    MaxPushes,       \* bound: pushes to the builder
    Entry(_),        \* the ring element pushed to an index
    Statements(_),   \* the expressions stated together, given the regions pushed
    Combination,     \* the challenges that batch the statements, drawn by the seed
    Slot,            \* the first slot's challenge of combination_to_field
    Challenges       \* the challenges a variable may be given

ASSUME ChallengesAssumption == Challenges \subseteq G!Field

VARIABLES
    builder,     \* WitnessBuilder: data and cursor
    regions,     \* what its pushes returned
    claims,      \* the statements: expressions, their canonical forms, values
    flat,        \* whether the first rounds are flat
    phase,       \* build, send, challenge, final, accepted, rejected, refused,
                 \* malformed, panicked
    outputs,     \* the prover's gadgets, one tree a statement
    points,      \* evaluation_points
    message,     \* the last polynomial sent
    previous,    \* FlatRounds.previous
    flatRounds,  \* FlatRounds.rounds
    claim        \* batched_claim_over_field

stated == <<claims, flat, outputs, flatRounds>>
vars == <<leaf, builder, regions, stated, phase, points, message, previous, claim>>

MaxCoefficients == 4     \* the coefficient array of a polynomial

FieldSum(S, f(_)) == MapThenSumSet(f, S) % Modulus

-----------------------------------------------------------------------------
Lengths == {2^k : k \in 0..TotalVars}

Push ==
    /\ phase = "build" /\ Len(regions) < MaxPushes
    /\ \E len \in Lengths :
         LET start == StartFor(builder.cursor, len)
         IN /\ start + len <= WitnessLen
            /\ builder' = Pushed(builder, [i \in 1..len |-> Entry(start + i)])
            /\ regions' = Append(regions, Region(start, len))
    /\ UNCHANGED <<leaf, stated, phase, points, message, previous, claim>>

\* The verifier's first claim: the values, batched as the outputs are.
Batched(made) ==
    (Slot * FieldSum(DOMAIN made, LAMBDA i : Combination[i] * InSlot(made[i].value))) % Modulus

\* The statements' values, the last one wrong or not, and the canonical forms.
Made(exprs, wrong) ==
    [i \in DOMAIN exprs |->
       LET sum == SumOver(exprs[i], builder.data)
       IN [expr |-> exprs[i], canon |-> Canon(exprs[i]),
           value |-> IF wrong /\ i = Len(exprs) THEN Add(sum, One) ELSE sum]]

\* FlatRounds::new
Rounds == IF flat THEN G!FlatRoundCount(outputs, TotalVars) ELSE 0

\* A proof opens the conjugate, too, exactly if some statement reads it.
NeedsConjugate(made) == \E i \in DOMAIN made : UsesConjugate(made[i].canon)

\* Both sides refuse a statement of too high a degree before anything is built, and
\* the verifier a proof that opens the conjugate unasked, or does not.
State ==
    /\ phase = "build" /\ regions # <<>>
    /\ \E exprs \in Statements(regions), wrong, withFlat, opened \in BOOLEAN :
         LET made == Made(exprs, wrong)
             asm == Assembled([i \in DOMAIN made |-> made[i].canon], builder.data)
         IN /\ claims' = made
            /\ flat' = withFlat
            /\ IF \E i \in DOMAIN made : ~Valid(made[i].canon)
               THEN phase' = "refused" /\ UNCHANGED <<leaf, outputs, claim, flatRounds>>
               ELSE /\ leaf' = asm.leaves
                    /\ outputs' = asm.outputs
                    /\ claim' = Batched(made)
                    /\ flatRounds' = Rounds'
                    /\ phase' = CASE opened # NeedsConjugate(made) -> "malformed"
                                  [] TotalVars = 0 -> "final"
                                  [] OTHER -> "send"
    /\ UNCHANGED <<builder, regions, points, message, previous>>

InFlatRound == Len(points) < flatRounds

RoundTerms == IF InFlatRound THEN G!TermPolys(outputs, previous, points) ELSE <<>>

RoundPoly ==
    IF InFlatRound THEN G!FlatCombined(outputs, Combination, RoundTerms)
    ELSE G!Combined(outputs, Combination)

\* A decoded polynomial is four coefficients, which the transcript absorbs, and a
\* count of those it is evaluated by; a larger count is past the end of the array.
Counts == 0..(MaxCoefficients + 1)
Counted(sent, count) == [i \in DOMAIN sent |-> IF i < count THEN sent[i] ELSE 0]

\* Mutant of TailIsZero: what is past the count is not looked at.
AnyTail(sent, count) == count <= MaxCoefficients

TailIsZero(sent, count) ==
    count <= MaxCoefficients /\ \A i \in DOMAIN sent : i >= count => sent[i] = 0

RoundHolds(read) == (G!ValueAt(read, 0) + G!ValueAt(read, 1)) % Modulus = claim

SendPolynomial ==
    /\ phase = "send"
    /\ IF RoundPoly = {}
       THEN phase' = "panicked" /\ UNCHANGED <<message, previous>>
       ELSE \E count \in Counts :
            LET sent == G!Scaled(Slot, CHOOSE p \in RoundPoly : TRUE)
                read == Counted(sent, count)
            IN /\ message' = read
               /\ previous' = IF InFlatRound
                              THEN [i \in DOMAIN RoundTerms |-> CHOOSE p \in RoundTerms[i].poly : TRUE]
                              ELSE previous
               /\ phase' = CASE ~TailIsZero(sent, count) -> "malformed"
                             [] RoundHolds(read) -> "challenge"
                             [] OTHER -> "rejected"
    /\ UNCHANGED <<leaf, builder, regions, stated, points, claim>>

FoldedOnce(name, r) ==
    IF "data" \in DOMAIN leaf[name] THEN G!FoldTable(leaf[name], r) ELSE G!FoldSelector(leaf[name], r)

Folded(r) == [name \in DOMAIN leaf |-> FoldedOnce(name, r)]

AfterChallenge == IF Len(points) + 1 = TotalVars THEN "final" ELSE "send"

TakeChallenge ==
    /\ phase = "challenge"
    /\ \E r \in Challenges :
         /\ points' = Append(points, r)
         /\ leaf' = Folded(r)
         /\ claim' = G!ValueAt(message, r)
    /\ phase' = AfterChallenge
    /\ UNCHANGED <<builder, regions, stated, message, previous>>

\* witness_eval and conj_witness_eval; a statement that does not read the conjugate
\* is given none.
Openings ==
    [op \in {"witness", "conjWitness"} |->
       IF FirstCell(op) \in DOMAIN leaf THEN leaf[FirstCell(op)].data[1] ELSE 0]

Evaluation ==
    (Slot * FieldSum(DOMAIN claims,
                     LAMBDA i : Combination[i] * ValueOf(claims[i].canon, Openings, points))) % Modulus

FinalCheck ==
    /\ phase = "final"
    /\ phase' = IF claim = Evaluation THEN "accepted" ELSE "rejected"
    /\ UNCHANGED <<leaf, builder, regions, stated, points, message, previous, claim>>

Stopped == phase \in {"accepted", "rejected", "refused", "malformed", "panicked"} /\ UNCHANGED vars

Init ==
    /\ leaf = <<>>
    /\ builder = [data |-> [i \in 1..WitnessLen |-> Zero], cursor |-> 0]
    /\ regions = <<>>
    /\ claims = <<>> /\ flat = FALSE /\ outputs = <<>> /\ flatRounds = 0
    /\ phase = "build"
    /\ points = <<>> /\ message = G!NoPoly /\ previous = <<>> /\ claim = 0

Next == Push \/ State \/ SendPolynomial \/ TakeChallenge \/ FinalCheck \/ Stopped
Spec == Init /\ [][Next]_vars

-----------------------------------------------------------------------------
(***************************************************************************)
(* Properties.                                                             *)
(***************************************************************************)
True(c) == c.value = SumOver(c.expr, builder.data)

\* "Each push self-aligns and returns its Region; gaps stay zero" (WitnessBuilder):
\* a region's prefix addresses what was pushed there, whatever was pushed before,
\* and the indices of no region are zero.
RegionsHoldTheirData ==
    LET addressed(region) == {i \in Indices : InPrefix(i, RegionPrefix(region))}
    IN /\ \A k \in DOMAIN regions :
            /\ addressed(regions[k]) = regions[k].start..(regions[k].start + regions[k].len - 1)
            /\ \A i \in addressed(regions[k]) : builder.data[i + 1] = Entry(i + 1)
            /\ \A l \in DOMAIN regions : l # k => addressed(regions[k]) \cap addressed(regions[l]) = {}
       /\ \A i \in Indices : (\A k \in DOMAIN regions : i \notin addressed(regions[k]))
                               => builder.data[i + 1] = Zero

\* powers is the weight ratio^i, recomposed from layers and their scales.
PowersRecompose ==
    phase = "build" =>
      \A ratio \in 1..(Modulus - 1), numVars \in 1..Min({TotalVars, 2}) :
        PowersExist(ratio, numVars) =>
          \A i \in 0..(2^numVars - 1) :
            EvalAt(WeightExpr(On(Powers(0, ratio, numVars), Low(numVars))), builder.data, i)
              = Embedded(PowMod(ratio, i))

\* conjugate() of an expression is its conjugate at every index.
ConjugateConjugates ==
    \A k \in DOMAIN claims : ~HasPublic(claims[k].expr) /\ points = <<>> =>
      \A i \in Indices : EvalAt(Conjugate(claims[k].expr), builder.data, i)
                           = Conj(EvalAt(claims[k].expr, builder.data, i))

\* "eq is 0/1 on the cube, so eq^2 = eq and the sum is unchanged" (canonicalize);
\* and what is summed is what was written, the regions' data, the powers' weights
\* and the conjugates of expressions.
CanonKeepsTheSum ==
    /\ RegionsHoldTheirData /\ PowersRecompose /\ ConjugateConjugates
    /\ points = <<>> =>
         \A k \in DOMAIN claims :
           SumOver(claims[k].canon, builder.data) = SumOver(claims[k].expr, builder.data)

\* "a cell cannot be aliased inside one product" (OraclePool): no table is a factor
\* of a product twice, in either of its sides.
RECURSIVE Factors(_), CellsApart(_)
Factors(n) == IF n.op \in {"table", "selector"} THEN {n.name} ELSE Factors(n.lhs) \cup Factors(n.rhs)
CellsApart(n) ==
    n.op \in {"table", "selector"} \/
      /\ CellsApart(n.lhs) /\ CellsApart(n.rhs)
      /\ n.op = "product" => Factors(n.lhs) \cap Factors(n.rhs) = {}

CellsAreNotAliased == points = <<>> => \A o \in DOMAIN outputs : CellsApart(outputs[o])

\* The degree of an accepted statement fits, and "closed under product, sum,
\* difference and scaling" (ClaimExpr) "factors on disjoint blocks multiply freely"
\* (validate_claims): what is not refused is proved.
ValidStatementsAreProved == phase # "panicked"

\* True statements are accepted, whatever they are built of, wherever the regions
\* lie, with flat rounds and without; a wrong value is rejected, whatever the
\* challenges are: an honest prover's polynomials are of the true sum.  Which of its
\* coefficients a polynomial counts is not absorbed, "so the prover cannot vary it
\* under one absorption" (verify_claims): no count decides a statement otherwise.
StatementsAreDecided ==
    /\ ValidStatementsAreProved
    /\ phase = "rejected" => \E k \in DOMAIN claims : ~True(claims[k])
    /\ phase = "accepted" => \A k \in DOMAIN claims : True(claims[k])
=============================================================================

--------------------------- MODULE ClaimLanguage ---------------------------
(***************************************************************************)
(* The language statements about a witness are written in                  *)
(* (src/protocol/snark/mod.rs): regions of the witness and the index       *)
(* variables that address them, public weights placed on variables,        *)
(* expressions of them, and what an expression sums to.                    *)
(*                                                                         *)
(* The ring is two slots of a prime field that conjugation exchanges; a    *)
(* field element is the same in both.  An Arc is the number of the weight  *)
(* data it points at: two weights cloned from one share it.  Witnesses and *)
(* tables are sequences, an index is counted from zero as in the code.     *)
(***************************************************************************)
EXTENDS Integers, Sequences, FiniteSetsExt

CONSTANTS
    Modulus,       \* the field of a slot, an odd prime
    TotalVars      \* the witness has 2^TotalVars elements

ASSUME VarsAssumption == TotalVars \in Nat
ASSUME PrimeAssumption == Modulus \in Nat /\ Modulus > 2

WitnessLen == 2^TotalVars
Indices == 0..(WitnessLen - 1)

Log(n) == CHOOSE k \in 0..n : 2^k = n

-----------------------------------------------------------------------------
Zero == <<0, 0>>
One == <<1, 1>>
Embedded(f) == <<f, f>>
Conj(x) == <<x[2], x[1]>>
Add(x, y) == [s \in 1..2 |-> (x[s] + y[s]) % Modulus]
Sub(x, y) == [s \in 1..2 |-> (x[s] - y[s]) % Modulus]
Mul(x, y) == [s \in 1..2 |-> (x[s] * y[s]) % Modulus]

-----------------------------------------------------------------------------
(***************************************************************************)
(* Regions of the witness, and blocks of index variables, leading first.   *)
(***************************************************************************)
Region(start, len) == [start |-> start, len |-> len]

VarBlock(skip, len) == [skip |-> skip, len |-> len]
Low(len) == VarBlock(TotalVars - len, len)
High(len) == VarBlock(0, len)
Leading(v, k) == VarBlock(v.skip, k)
Trailing(v, k) == VarBlock(v.skip + v.len - k, k)

RegionVars(region) == Low(Log(region.len))

RegionPrefix(region) ==
    [prefix |-> region.start \div region.len, length |-> TotalVars - Log(region.len)]

InPrefix(index, p) == index \div 2^(TotalVars - p.length) = p.prefix

\* WitnessBuilder.push: the next start that is aligned to the length.
StartFor(cursor, len) == ((cursor + len - 1) \div len) * len

Pushed(builder, values) ==
    LET start == StartFor(builder.cursor, Len(values))
        end == start + Len(values)
    IN [data |-> [i \in 1..WitnessLen |-> IF start < i /\ i <= end THEN values[i - start]
                                         ELSE builder.data[i]],
        cursor |-> end]

-----------------------------------------------------------------------------
(***************************************************************************)
(* Weights and the factors they are lowered to.  Options are sets.         *)
(***************************************************************************)
Weight(kind, arc, coeffs, data) ==
    [kind |-> kind, arc |-> arc, coeffs |-> coeffs, data |-> data, at |-> {}, coefficient |-> {}]

EqWeight(arc, coeffs, layers) == Weight("tensor", arc, coeffs, layers)
TableWeight(arc, coeffs, values) == Weight("dense", arc, coeffs, values)
CombinationWeight(arc, parts) == Weight("combination", arc, "ring", parts)
Part(gamma, factors) == [gamma |-> gamma, factors |-> factors]
On(w, at) == [w EXCEPT !.at = {at}]

\* weighted_layer: the pair (1, w) is 1 + w times the layer of w / (1 + w).
InverseOf(x) == CHOOSE y \in 1..(Modulus - 1) : (x * y) % Modulus = 1
LayerScale(w) == (1 + w) % Modulus
WeightedLayer(w) == (w * InverseOf(LayerScale(w))) % Modulus

PowMod(x, n) == FoldSet(LAMBDA i, power : (power * x) % Modulus, 1, 1..n)
LayerWeight(ratio, numVars, j) == PowMod(ratio, 2^(numVars - j))

\* The assertion of weighted_layer, for every layer of powers.
PowersExist(ratio, numVars) ==
    \A j \in 1..numVars : LayerScale(LayerWeight(ratio, numVars, j)) # 0

Powers(arc, ratio, numVars) ==
    LET weight(j) == LayerWeight(ratio, numVars, j)
        scale == FoldSet(LAMBDA j, acc : (acc * LayerScale(weight(j))) % Modulus, 1, 1..numVars)
    IN [EqWeight(arc, "field", [j \in 1..numVars |-> Embedded(WeightedLayer(weight(j)))])
          EXCEPT !.coefficient = {Embedded(scale)}]

PlacedFactor(w, data) ==
    [kind |-> w.kind, arc |-> w.arc, coeffs |-> w.coeffs, data |-> data,
     prefixLen |-> IF w.at = {} THEN 0 ELSE (CHOOSE at \in w.at : TRUE).skip,
     suffixLen |-> IF w.at = {} THEN 0
                   ELSE LET at == CHOOSE v \in w.at : TRUE IN TotalVars - at.skip - at.len]

\* weight_to_factor: the coefficients of a part's factors go into its gamma.
FactorOf(w) ==
    LET scaled(part) ==
          FoldSet(LAMBDA f, gamma : IF part.factors[f].coefficient = {} THEN gamma
                                    ELSE Mul(gamma, CHOOSE c \in part.factors[f].coefficient : TRUE),
                  part.gamma, DOMAIN part.factors)
        lowered(part) ==
          Part(scaled(part),
               [f \in DOMAIN part.factors |-> PlacedFactor(part.factors[f], part.factors[f].data)])
    IN PlacedFactor(w, IF w.kind = "combination" THEN [a \in DOMAIN w.data |-> lowered(w.data[a])]
                       ELSE w.data)

SelectorFactor(p) ==
    [kind |-> "selector", arc |-> 0, coeffs |-> "ring", data |-> <<p.prefix, p.length>>,
     prefixLen |-> 0, suffixLen |-> 0]

-----------------------------------------------------------------------------
(***************************************************************************)
(* Expressions.                                                            *)
(***************************************************************************)
Witness == [op |-> "witness"]
ConjWitness == [op |-> "conjWitness"]
Segment(p) == [op |-> "segment", at |-> p]
ConjSegment(p) == [op |-> "conjSegment", at |-> p]
Public(factor) == [op |-> "public", factor |-> factor]
ConstantOf(c) == [op |-> "constant", value |-> c]
ProductOf(a, b) == [op |-> "product", lhs |-> a, rhs |-> b]
SumOf(a, b) == [op |-> "sum", lhs |-> a, rhs |-> b]
DiffOf(a, b) == [op |-> "diff", lhs |-> a, rhs |-> b]
Scale(c, e) == [op |-> "scale", value |-> c, of |-> e]

WitnessIn(region) ==
    IF region.len = WitnessLen THEN Witness ELSE Segment(RegionPrefix(region))

\* From<Weight>
WeightExpr(w) ==
    IF w.coefficient = {} THEN Public(FactorOf(w))
    ELSE Scale(CHOOSE c \in w.coefficient : TRUE, Public(FactorOf(w)))

RECURSIVE Conjugate(_)

\* conjugate(); it panics at a public weight.
Conjugate(e) ==
    CASE e.op = "witness" -> ConjWitness
      [] e.op = "conjWitness" -> Witness
      [] e.op = "segment" -> ConjSegment(e.at)
      [] e.op = "conjSegment" -> Segment(e.at)
      [] e.op = "constant" -> ConstantOf(Conj(e.value))
      [] e.op = "scale" -> Scale(Conj(e.value), Conjugate(e.of))
      [] OTHER -> [e EXCEPT !.lhs = Conjugate(@), !.rhs = Conjugate(@)]

RECURSIVE HasPublic(_)
HasPublic(e) ==
    CASE e.op = "public" -> TRUE
      [] e.op \in {"product", "sum", "diff"} -> HasPublic(e.lhs) \/ HasPublic(e.rhs)
      [] e.op = "scale" -> HasPublic(e.of)
      [] OTHER -> FALSE

-----------------------------------------------------------------------------
(***************************************************************************)
(* What an expression is at an index, and over the witness.                *)
(***************************************************************************)
\* tensor_at: the first layer belongs to the leading bit.
TensorAt(layers, i) ==
    FoldSet(LAMBDA j, acc : Mul(acc, IF (i \div 2^(Len(layers) - j)) % 2 = 1 THEN layers[j]
                                     ELSE Sub(One, layers[j])),
            One, DOMAIN layers)

PlainFactorAt(factor, index) ==
    LET middle == (index \div 2^factor.suffixLen) % 2^(TotalVars - factor.prefixLen - factor.suffixLen)
    IN IF factor.kind = "tensor" THEN TensorAt(factor.data, middle) ELSE factor.data[middle + 1]

RingSum(S, f(_)) == FoldSet(LAMBDA x, acc : Add(acc, f(x)), Zero, S)
RingProduct(S, f(_), unit) == FoldSet(LAMBDA x, acc : Mul(acc, f(x)), unit, S)

\* eval_public_at
FactorAt(factor, index) ==
    CASE factor.kind = "selector" ->
           IF InPrefix(index, [prefix |-> factor.data[1], length |-> factor.data[2]]) THEN One ELSE Zero
      [] factor.kind = "combination" ->
           RingSum(DOMAIN factor.data, LAMBDA a :
             LET part == factor.data[a]
             IN RingProduct(DOMAIN part.factors,
                            LAMBDA f : PlainFactorAt(part.factors[f], index), part.gamma))
      [] OTHER -> PlainFactorAt(factor, index)

RECURSIVE EvalAt(_, _, _)
EvalAt(e, data, index) ==
    LET inside(x) == IF InPrefix(index, e.at) THEN x ELSE Zero
    IN CASE e.op = "witness" -> data[index + 1]
         [] e.op = "conjWitness" -> Conj(data[index + 1])
         [] e.op = "segment" -> inside(data[index + 1])
         [] e.op = "conjSegment" -> inside(Conj(data[index + 1]))
         [] e.op = "public" -> FactorAt(e.factor, index)
         [] e.op = "constant" -> e.value
         [] e.op = "scale" -> Mul(EvalAt(e.of, data, index), e.value)
         [] e.op = "product" -> Mul(EvalAt(e.lhs, data, index), EvalAt(e.rhs, data, index))
         [] e.op = "sum" -> Add(EvalAt(e.lhs, data, index), EvalAt(e.rhs, data, index))
         [] e.op = "diff" -> Sub(EvalAt(e.lhs, data, index), EvalAt(e.rhs, data, index))

\* ClaimExpr::sum
SumOver(e, data) == RingSum(Indices, LAMBDA i : EvalAt(e, data, i))
=============================================================================

--------------------------- MODULE ClaimLowering ---------------------------
(***************************************************************************)
(* How a statement becomes a sumcheck (src/protocol/snark/lowering.rs): it *)
(* is brought into a canonical form, its degree is checked, the prover     *)
(* builds gadgets over tables that uses of one oracle share between terms, *)
(* and the verifier evaluates the same form at the final point.            *)
(*                                                                         *)
(* The sumcheck is followed in the first slot of the ring.                 *)
(***************************************************************************)
EXTENDS ClaimLanguage

CONSTANT Chunk     \* CHUNK of the flat rounds

VARIABLE leaf      \* the leaves of the gadgets, by name

G == INSTANCE Gadgets

InSlot(x) == x[1]
SlotOf(data) == [i \in DOMAIN data |-> InSlot(data[i])]

-----------------------------------------------------------------------------
(***************************************************************************)
(* The canonical form: segments are selectors times the witness, one       *)
(* constant a product, no selector twice.                                  *)
(***************************************************************************)
\* Mutant of PushSelector: selectors of one length are taken for the same.
PushSelectorOfLength(selectors, p) ==
    IF \E i \in DOMAIN selectors : selectors[i].length = p.length THEN selectors
    ELSE Append(selectors, p)

\* push_selector
PushSelector(selectors, p) ==
    IF \E i \in DOMAIN selectors : selectors[i] = p THEN selectors ELSE Append(selectors, p)

RECURSIVE Canon(_), Gather(_, _), Products(_, _)

\* gather_product: acc holds the constant so far and whether there is one, the
\* selectors and the members.
Gather(e, acc) ==
    LET constant(c) == [acc EXCEPT !.constant = Mul(@, c), !.has = TRUE]
        member(x) == [acc EXCEPT !.members = Append(@, x)]
        selector(p) == [acc EXCEPT !.selectors = PushSelector(@, p)]
        selected(p, x) == [selector(p) EXCEPT !.members = Append(@, x)]
    IN CASE e.op = "scale" -> Gather(e.of, constant(e.value))
         [] e.op = "constant" -> constant(e.value)
         [] e.op = "product" -> Gather(e.rhs, Gather(e.lhs, acc))
         [] e.op \in {"sum", "diff"} -> member(Canon(e))
         [] e.op = "segment" -> selected(e.at, Witness)
         [] e.op = "conjSegment" -> selected(e.at, ConjWitness)
         [] e.op = "public" /\ e.factor.kind = "selector" ->
              selector([prefix |-> e.factor.data[1], length |-> e.factor.data[2]])
         [] OTHER -> member(e)

Products(parts, n) == IF n = 1 THEN parts[1] ELSE ProductOf(Products(parts, n - 1), parts[n])

\* canon and canon_product
Canon(e) ==
    IF e.op \in {"sum", "diff"} THEN [e EXCEPT !.lhs = Canon(@), !.rhs = Canon(@)]
    ELSE LET got == Gather(e, [constant |-> One, has |-> FALSE, selectors |-> <<>>, members |-> <<>>])
             parts == (IF got.has /\ got.constant # One THEN <<ConstantOf(got.constant)>> ELSE <<>>)
                        \o [i \in DOMAIN got.selectors |-> Public(SelectorFactor(got.selectors[i]))]
                        \o got.members
         IN IF parts = <<>> THEN ConstantOf(got.constant) ELSE Products(parts, Len(parts))

RECURSIVE UsesConjugate(_)
UsesConjugate(e) ==
    CASE e.op \in {"conjWitness", "conjSegment"} -> TRUE
      [] e.op \in {"product", "sum", "diff"} -> UsesConjugate(e.lhs) \/ UsesConjugate(e.rhs)
      [] e.op = "scale" -> UsesConjugate(e.of)
      [] OTHER -> FALSE

-----------------------------------------------------------------------------
(***************************************************************************)
(* validate_claims: a variable is multiplied by at most three factors.     *)
(***************************************************************************)
\* public_support: the variables, leading first, a factor depends on.
Support(factor) ==
    IF factor.kind = "selector" THEN 1..factor.data[2]
    ELSE (factor.prefixLen + 1)..(TotalVars - factor.suffixLen)

RECURSIVE Degree(_, _)
Degree(e, v) ==
    CASE e.op \in {"witness", "conjWitness"} -> 1
      [] e.op = "public" -> IF v \in Support(e.factor) THEN 1 ELSE 0
      [] e.op = "constant" -> 0
      [] e.op = "product" -> Degree(e.lhs, v) + Degree(e.rhs, v)
      [] e.op \in {"sum", "diff"} -> Max({Degree(e.lhs, v), Degree(e.rhs, v)})

MaxDegree == 3
Valid(e) == \A v \in 1..TotalVars : Degree(e, v) <= MaxDegree

-----------------------------------------------------------------------------
(***************************************************************************)
(* The prover's gadgets.  Names of leaves: those of the pools by what the  *)
(* pools are keyed with and the use in a product, the others by a count.   *)
(* An assembler is the leaves so far and the uses of the current product.  *)
(***************************************************************************)
NoUses == <<>>
Assembler(witness) == [leaves |-> <<>>, uses |-> NoUses, witness |-> witness]

With(f, key, value) == [k \in DOMAIN f \cup {key} |-> IF k = key THEN value ELSE f[k]]

\* used_length
Used(witness) == Max({0} \cup {i \in DOMAIN witness : witness[i] # Zero})

Oracle(kind, witness) ==
    LET data == IF kind = "conjWitness" THEN [i \in DOMAIN witness |-> Conj(witness[i])] ELSE witness
    IN G!Table(SlotOf(data), TotalVars, 0, Used(witness))

\* expand_combination: the parts' factors over the union window, entry by entry.
MergedEntry(factor, i) ==
    RingSum(DOMAIN factor.data, LAMBDA a :
      LET part == factor.data[a]
          entry(f) == LET sub == part.factors[f]
                          at == (i \div 2^(sub.suffixLen - factor.suffixLen))
                                  % 2^(TotalVars - sub.prefixLen - sub.suffixLen)
                      IN IF sub.kind = "tensor" THEN TensorAt(sub.data, at) ELSE sub.data[at + 1]
      IN RingProduct(DOMAIN part.factors, entry, part.gamma))

Expanded(factor) ==
    [i \in 1..2^(TotalVars - factor.prefixLen - factor.suffixLen) |->
       CASE factor.kind = "tensor" -> TensorAt(factor.data, i - 1)
         [] factor.kind = "dense" -> factor.data[i]
         [] factor.kind = "combination" -> MergedEntry(factor, i - 1)]

PublicTable(factor) ==
    LET data == Expanded(factor) IN G!Table(SlotOf(data), TotalVars, factor.suffixLen, Len(data))

Placed(factor) == factor.prefixLen # 0 \/ factor.suffixLen # 0

\* Ring weights over the whole cube, selectors and constants are not pooled.
Pooled(factor) ==
    factor.kind = "combination" \/ (factor.kind # "selector" /\ (Placed(factor) \/ factor.coeffs = "field"))

\* OraclePool.next: the use's own cell, made if no product had as many uses.
NextUse(asm, key) == IF key \in DOMAIN asm.uses THEN asm.uses[key] + 1 ELSE 1

FromPool(asm, key, table) ==
    LET name == Append(key, NextUse(asm, key))
    IN [tree |-> G!TableOf(name),
        asm |-> [asm EXCEPT !.uses = With(@, key, NextUse(asm, key)),
                            !.leaves = IF name \in DOMAIN @ THEN @ ELSE With(@, name, table)]]

Fresh(asm, made, kind) ==
    LET name == <<kind, Cardinality(DOMAIN asm.leaves), 0, 0, 0>>
    IN [tree |-> IF kind = "selector" THEN G!SelectorOf(name) ELSE G!TableOf(name),
        asm |-> [asm EXCEPT !.leaves = With(@, name, made)]]

\* leaf and constant_leaf
BuildLeaf(e, asm) ==
    CASE e.op \in {"witness", "conjWitness"} -> FromPool(asm, <<e.op, 0, 0, 0>>, Oracle(e.op, asm.witness))
      [] e.op = "constant" -> Fresh(asm, G!Table(<<InSlot(e.value)>>, TotalVars, 0, 1), "constant")
      [] e.op = "public" ->
           LET factor == e.factor
               key == <<"public", factor.arc, factor.prefixLen, factor.suffixLen>>
           IN CASE factor.kind = "selector" ->
                     Fresh(asm, G!Selector(factor.data[1], factor.data[2], TotalVars), "selector")
                [] Pooled(factor) -> FromPool(asm, key, PublicTable(factor))
                [] OTHER -> Fresh(asm, PublicTable(factor), "table")

\* Mutant of InsideProduct: the pools start over inside a product, too.
NeverInsideProduct(inProduct) == FALSE

InsideProduct(inProduct) == inProduct

RECURSIVE Build(_, _, _)

\* build and build_mult: where no product has been entered the pools start over.
Build(e, asm, inProduct) ==
    LET entered == IF e.op \in {"sum", "diff"} \/ InsideProduct(inProduct) THEN asm
                   ELSE [asm EXCEPT !.uses = NoUses]
        below == InsideProduct(inProduct) \/ e.op = "product"
        left == Build(e.lhs, entered, below)
        right == Build(e.rhs, left.asm, below)
        node == CASE e.op = "product" -> G!Product(left.tree, right.tree)
                  [] e.op = "sum" -> G!Sum(left.tree, right.tree)
                  [] e.op = "diff" -> G!Diff(left.tree, right.tree)
    IN IF e.op \in {"product", "sum", "diff"} THEN [tree |-> node, asm |-> right.asm]
       ELSE BuildLeaf(e, entered)

\* The outputs of all statements, built one after the other.
RECURSIVE BuildAll(_, _, _)
BuildAll(exprs, n, witness) ==
    IF n = 0 THEN [outputs |-> <<>>, asm |-> Assembler(witness)]
    ELSE LET before == BuildAll(exprs, n - 1, witness)
             built == Build(exprs[n], before.asm, FALSE)
         IN [outputs |-> Append(before.outputs, built.tree), asm |-> built.asm]

FirstCell(op) == <<op, 0, 0, 0, 1>>

\* The witness's first cell is there in any case: its evaluation is what the chain
\* of rounds starts from.
Assembled(exprs, witness) ==
    LET built == BuildAll(exprs, Len(exprs), witness)
        leaves == built.asm.leaves
        first == FirstCell("witness")
    IN [outputs |-> built.outputs,
        leaves |-> IF first \in DOMAIN leaves THEN leaves ELSE With(leaves, first, Oracle("witness", witness))]

-----------------------------------------------------------------------------
(***************************************************************************)
(* The verifier's evaluation of the canonical form; the first coordinate   *)
(* of the point is that of the last variable.                              *)
(***************************************************************************)
RECURSIVE HalvesFolded(_, _)
HalvesFolded(data, point) ==
    IF point = <<>> THEN data[1]
    ELSE LET half == Len(data) \div 2
             r == point[Len(point)]
         IN HalvesFolded([i \in 1..half |-> (data[i] + r * (data[half + i] - data[i])) % Modulus],
                         SubSeq(point, 1, Len(point) - 1))

LayersAgainst(layers, point) ==
    FoldSet(LAMBDA k, acc :
              LET layer == layers[Len(layers) + 1 - k]
              IN (acc * (layer * point[k] + (1 - layer) * (1 - point[k]))) % Modulus,
            1, DOMAIN layers)

SelectorAgainst(prefix, length, point) ==
    FoldSet(LAMBDA b, acc :
              LET r == point[TotalVars - length + b]
              IN (acc * (IF (prefix \div 2^(b - 1)) % 2 = 1 THEN r ELSE 1 - r)) % Modulus,
            1, 1..length)

\* Mutant of OwnPoint: the coordinates below a placed weight are not passed over.
OwnPointFromFirst(factor, point) == SubSeq(point, 1, TotalVars - factor.prefixLen - factor.suffixLen)

OwnPoint(factor, point) == SubSeq(point, factor.suffixLen + 1, TotalVars - factor.prefixLen)

\* public: a plain weight, and a combination of them.
PlainValue(factor, point) ==
    IF factor.kind = "tensor" THEN LayersAgainst(SlotOf(factor.data), OwnPoint(factor, point))
    ELSE HalvesFolded(SlotOf(factor.data), OwnPoint(factor, point))

PublicValue(factor, point) ==
    CASE factor.kind = "selector" -> SelectorAgainst(factor.data[1], factor.data[2], point)
      [] factor.kind = "combination" ->
           LET value(a) ==
                 FoldSet(LAMBDA f, acc : (acc * PlainValue(factor.data[a].factors[f], point)) % Modulus,
                         InSlot(factor.data[a].gamma), DOMAIN factor.data[a].factors)
           IN MapThenSumSet(value, DOMAIN factor.data)
      [] OTHER -> PlainValue(factor, point)

\* VerifierAssembler.build, evaluated: the two openings are the prover's.
RECURSIVE ValueOf(_, _, _)
ValueOf(e, openings, point) ==
    LET side(s) == ValueOf(s, openings, point)
    IN CASE e.op \in {"witness", "conjWitness"} -> openings[e.op]
         [] e.op = "public" -> PublicValue(e.factor, point) % Modulus
         [] e.op = "constant" -> InSlot(e.value)
         [] e.op = "product" -> (side(e.lhs) * side(e.rhs)) % Modulus
         [] e.op = "sum" -> (side(e.lhs) + side(e.rhs)) % Modulus
         [] e.op = "diff" -> (side(e.lhs) - side(e.rhs)) % Modulus
=============================================================================

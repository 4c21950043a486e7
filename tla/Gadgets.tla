------------------------------ MODULE Gadgets ------------------------------
(***************************************************************************)
(* The sumcheck gadgets (src/protocol/sumcheck_utils): tables that are     *)
(* folded one variable a round, block selectors that are folded without    *)
(* being stored, products, sums and differences of them, and the two ways  *)
(* a round polynomial is computed, by the gadgets themselves and, in the   *)
(* first rounds, from their flat terms.                                    *)
(*                                                                         *)
(* What can go wrong here is the shortcuts: ranges of points that are      *)
(* skipped as zero, polynomials taken to be constant, zero tails, a value  *)
(* carried over from the round before.  They are all here; the arithmetic  *)
(* is that of a prime field, one slot of the ring.                         *)
(*                                                                         *)
(* Rust's Option is a set of at most one value.  Where the code unwraps an *)
(* Option the model carries on with the set, so that a polynomial that is  *)
(* {} is one the program panics over.  Buffers that only save time (chunks *)
(* of slopes, the per-point cache, the shortcut for a linear factor of a   *)
(* product) compute what is computed here without them.                    *)
(***************************************************************************)
EXTENDS Integers, Sequences, FiniteSets, FiniteSetsExt

CONSTANTS
    Modulus,     \* the field of a slot
    Chunk        \* CHUNK: flat rounds stop when so few entries are left

ASSUME FieldAssumption == Modulus \in Nat /\ Modulus > 2
ASSUME ChunkAssumption == Chunk \in Nat \ {0}

VARIABLE leaf    \* the tables and selectors of the constraint system, by name

Field == 0..(Modulus - 1)

RECURSIVE FloorLog(_)
FloorLog(n) == IF n <= 1 THEN 0 ELSE 1 + FloorLog(n \div 2)

-----------------------------------------------------------------------------
(***************************************************************************)
(* Polynomials: four coefficients, those beyond num_coefficients zero.     *)
(***************************************************************************)
Linear(low, high) == [i \in 0..3 |-> IF i = 0 THEN low ELSE IF i = 1 THEN high % Modulus ELSE 0]
Constant(c) == Linear(c, 0)
NoPoly == Constant(0)

Plus(p, q) == [i \in 0..3 |-> (p[i] + q[i]) % Modulus]
Scaled(c, p) == [i \in 0..3 |-> (c * p[i]) % Modulus]
Times(p, q) ==
    [i \in 0..3 |-> MapThenSumSet(LAMBDA j : p[j] * q[i - j], 0..i) % Modulus]

ValueAt(p, x) == (p[0] + x * (p[1] + x * (p[2] + x * p[3]))) % Modulus

\* A sum over points or terms, {} if one of them is.
SumOver(S, At(_)) ==
    FoldSet(LAMBDA x, sum : {Plus(p, q) : p \in At(x), q \in sum}, {NoPoly}, S)

-----------------------------------------------------------------------------
(***************************************************************************)
(* LinearSumcheck: entries over the variables between a prefix and a       *)
(* suffix it does not depend on; entries from end on are zero.             *)
(***************************************************************************)
Table(data, vars, suffix, end) ==
    [data |-> data, vars |-> vars, suffix |-> suffix, end |-> end]

Half(t) == Len(t.data) \div 2
PairEnd(t) == (t.end + 1) \div 2

IsFolding(t) == t.suffix = 0 /\ Len(t.data) > 1
FillsCube(t) == Len(t.data) = 2^t.vars

\* The zero tail is only known of a table over the whole cube.
HasZeroTail(t) == IsFolding(t) /\ FillsCube(t) /\ PairEnd(t) < Half(t)

\* The constant a table is in a round of its suffix or its prefix.
TableAt(t, p) ==
    IF Len(t.data) = 1 THEN t.data[1]
    ELSE t.data[((p \div 2^(t.suffix - 1)) % Len(t.data)) + 1]

TableConstant(t, p) == IF IsFolding(t) THEN {} ELSE {TableAt(t, p)}

PairAt(t, p) ==
    LET even == 2 * (p % Half(t)) + 1
    IN Linear(t.data[even], t.data[even + 1] - t.data[even])

TablePoly(t, p) == IF IsFolding(t) THEN PairAt(t, p) ELSE Constant(TableAt(t, p))

TableIsZero(t, p) == HasZeroTail(t) /\ p % Half(t) >= PairEnd(t)
TableRange(t) == IF HasZeroTail(t) THEN {<<0, PairEnd(t)>>} ELSE {}

TableWindow(t) ==
    CASE t.suffix > 0 -> t.suffix - 1 + FloorLog(Len(t.data))
      [] t.suffix = 0 /\ Len(t.data) = 1 -> 0
      [] OTHER -> FloorLog(Len(t.data)) - 1

\* as_interleaved_data: a table over the whole cube, up to its zero tail.
Interleaved(t) == IF IsFolding(t) /\ FillsCube(t) THEN {SubSeq(t.data, 1, t.end)} ELSE {}

\* partial_evaluate: suffix variables first, then the data's, then the prefix's.
FoldedTo(t, r, end) ==
    CASE t.suffix > 0 -> [t EXCEPT !.vars = @ - 1, !.suffix = @ - 1]
      [] t.suffix = 0 /\ Len(t.data) = 1 -> [t EXCEPT !.vars = @ - 1]
      [] OTHER ->
           Table([i \in 1..Half(t) |-> IF i <= end THEN ValueAt(PairAt(t, i - 1), r) ELSE 0],
                 t.vars - 1, 0, end)

\* The last pair that is folded holds the end; in the first form it is left out.
FoldedWholePairs(t, r) == FoldedTo(t, r, t.end \div 2)
FoldTable(t, r) == FoldedTo(t, r, Min({PairEnd(t), Half(t)}))

-----------------------------------------------------------------------------
(***************************************************************************)
(* SelectorEq: 1 on the block whose leading bits are the selector's.       *)
(***************************************************************************)
Selector(prefix, length, vars) ==
    [prefix |-> prefix, length |-> length, vars |-> vars, claim |-> 1, unit |-> TRUE]

InSelectorRound(s) == s.length > 0 /\ s.vars <= s.length
IsUnit(s) == s.unit /\ ~InSelectorRound(s)

\* The points of a round's half cube the selector is not zero at.
SelectorRange(s) ==
    LET rest == IF InSelectorRound(s) THEN s.prefix \div 2 ELSE s.prefix
        size == IF InSelectorRound(s) THEN 2^(s.vars - s.length) ELSE 2^(s.vars - 1 - s.length)
    IN IF s.length = 0 \/ (InSelectorRound(s) /\ s.length = 1) THEN {}
       ELSE {<<rest * size, (rest + 1) * size>>}

SelectorIsZero(s, p) == \E range \in SelectorRange(s) : p < range[1] \/ range[2] <= p

SelectorConstant(s, p) ==
    IF InSelectorRound(s) \/ SelectorIsZero(s, p) THEN {} ELSE {s.claim}

SelectorPoly(s) ==
    CASE ~InSelectorRound(s) -> Constant(s.claim)
      [] InSelectorRound(s) /\ s.prefix % 2 = 1 -> Linear(0, s.claim)
      [] OTHER -> Linear(s.claim, -s.claim)

FoldSelector(s, r) ==
    IF InSelectorRound(s)
    THEN [s EXCEPT !.prefix = @ \div 2, !.length = @ - 1, !.vars = @ - 1, !.unit = FALSE,
                   !.claim = ValueAt(SelectorPoly(s), r)]
    ELSE [s EXCEPT !.vars = @ - 1]

-----------------------------------------------------------------------------
(***************************************************************************)
(* Trees of gadgets.                                                       *)
(***************************************************************************)
TableOf(name) == [op |-> "table", name |-> name]
SelectorOf(name) == [op |-> "selector", name |-> name]
Product(a, b) == [op |-> "product", lhs |-> a, rhs |-> b]
Sum(a, b) == [op |-> "sum", lhs |-> a, rhs |-> b]
Diff(a, b) == [op |-> "diff", lhs |-> a, rhs |-> b]

RECURSIVE Vars(_), Window(_), NonZeroRange(_), IsZero(_, _), UnitConstant(_)

Vars(n) == IF n.op \in {"table", "selector"} THEN leaf[n.name].vars ELSE Vars(n.lhs)

Window(n) ==
    CASE n.op = "table" -> TableWindow(leaf[n.name])
      [] n.op = "product" -> Max({Window(n.lhs), Window(n.rhs)})
      [] OTHER -> Vars(n) - 1

\* Only a product narrows the range: it is where its factors' ranges meet.
NonZeroRange(n) ==
    CASE n.op = "table" -> TableRange(leaf[n.name])
      [] n.op = "selector" -> SelectorRange(leaf[n.name])
      [] n.op = "product" ->
           LET ranges == NonZeroRange(n.lhs) \cup NonZeroRange(n.rhs)
               start == Max({r[1] : r \in ranges})
               end == Min({r[2] : r \in ranges})
           IN IF ranges = {} THEN {} ELSE IF start < end THEN {<<start, end>>} ELSE {<<0, 0>>}
      [] OTHER -> {}

IsZero(n, p) ==
    CASE n.op = "table" -> TableIsZero(leaf[n.name], p)
      [] n.op = "selector" -> SelectorIsZero(leaf[n.name], p)
      [] n.op = "product" -> IsZero(n.lhs, p) \/ IsZero(n.rhs, p)
      [] OTHER -> IsZero(n.lhs, p) /\ IsZero(n.rhs, p)

UnitConstant(n) ==
    CASE n.op = "selector" -> IsUnit(leaf[n.name])
      [] n.op = "product" -> UnitConstant(n.lhs) /\ UnitConstant(n.rhs)
      [] OTHER -> FALSE

RECURSIVE ConstantAt(_, _)
ConstantAt(n, p) ==
    CASE n.op = "table" -> TableConstant(leaf[n.name], p)
      [] n.op = "selector" -> SelectorConstant(leaf[n.name], p)
      [] OTHER ->
           LET lhs == ConstantAt(n.lhs, p)
               rhs == ConstantAt(n.rhs, p)
               leftAlone == IF rhs = {} /\ IsZero(n.rhs, p) THEN lhs ELSE {}
               rightAlone == IF lhs = {} /\ IsZero(n.lhs, p) THEN rhs ELSE {}
           IN CASE n.op = "product" -> {(a * b) % Modulus : a \in lhs, b \in rhs}
                [] n.op = "sum" -> {(a + b) % Modulus : a \in lhs, b \in rhs} \cup leftAlone \cup rightAlone
                [] n.op = "diff" -> {(a - b) % Modulus : a \in lhs, b \in rhs} \cup leftAlone

\* The point a product's constant flags are probed at, once a round.
Probe(n) == IF NonZeroRange(n) = {} THEN 0 ELSE (CHOOSE r \in NonZeroRange(n) : TRUE)[1]

TakenAsConstant(n, side) == ConstantAt(side, Probe(n)) # {}

\* univariate_polynomial_at_point_into
RECURSIVE PolyAt(_, _)
PolyAt(n, p) ==
    CASE n.op = "table" -> {TablePoly(leaf[n.name], p)}
      [] n.op = "selector" -> {SelectorPoly(leaf[n.name])}
      [] n.op = "product" ->
           LET byConstant(c, q) ==
                 IF UnitConstant(c) THEN PolyAt(q, p)
                 ELSE {Scaled(a, b) : a \in ConstantAt(c, p), b \in PolyAt(q, p)}
               left == TakenAsConstant(n, n.lhs)
               right == TakenAsConstant(n, n.rhs)
           IN CASE left /\ right ->
                     {Constant((a * b) % Modulus) : a \in ConstantAt(n.lhs, p), b \in ConstantAt(n.rhs, p)}
                [] left /\ ~right -> byConstant(n.lhs, n.rhs)
                [] ~left /\ right -> byConstant(n.rhs, n.lhs)
                [] OTHER -> {Times(a, b) : a \in PolyAt(n.lhs, p), b \in PolyAt(n.rhs, p)}
      [] OTHER ->
           LET side(s) == IF IsZero(s, p) THEN {NoPoly} ELSE PolyAt(s, p)
               sign == IF n.op = "diff" THEN -1 ELSE 1
           IN {Plus(a, Scaled(sign, b)) : a \in side(n.lhs), b \in side(n.rhs)}

\* Two tables over the whole cube are multiplied pair by pair, an odd last pair
\* ending in a zero.
PairOf(data, p) ==
    LET even == data[2 * p + 1]
        odd == IF 2 * p + 2 <= Len(data) THEN data[2 * p + 2] ELSE 0
    IN Linear(even, odd - even)

PairProducts(a, b) ==
    LET pairs == Min({(Len(a) + 1) \div 2, (Len(b) + 1) \div 2})
    IN SumOver(0..(pairs - 1), LAMBDA p : {Times(PairOf(a, p), PairOf(b, p))})

TableEntries(n) == IF n.op = "table" THEN Interleaved(leaf[n.name]) ELSE {}

\* A product is swept over the points of its range it is not zero at, within the
\* window of variables it depends on, and doubled for every variable it does not.
SweptPoints(n) ==
    LET window == Min({Window(n), Vars(n) - 1})
        inRange(p) == \A r \in NonZeroRange(n) : r[1] <= p /\ p < r[2]
    IN {p \in 0..(2^window - 1) : inRange(p) /\ ~IsZero(n, p)}

Repeats(n) == 2^(Vars(n) - 1 - Min({Window(n), Vars(n) - 1}))

Swept(n) == {Scaled(Repeats(n), q) : q \in SumOver(SweptPoints(n), LAMBDA p : PolyAt(n, p))}

\* univariate_polynomial_into
RECURSIVE Into(_)
Into(n) ==
    IF n.op \in {"sum", "diff"}
    THEN LET sign == IF n.op = "diff" THEN -1 ELSE 1
         IN {Plus(a, Scaled(sign, b)) : a \in Into(n.lhs), b \in Into(n.rhs)}
    ELSE LET entries == IF n.op = "product" THEN TableEntries(n.lhs) \X TableEntries(n.rhs) ELSE {}
         IN IF entries = {} THEN Swept(n) ELSE UNION {PairProducts(e[1], e[2]) : e \in entries}

\* claim: a gadget summed over the whole cube.
SumClaim(n) == {(ValueAt(p, 0) + ValueAt(p, 1)) % Modulus : p \in Into(n)}

\* Combiner: the outputs of the constraint system under their challenges.
Combined(outputs, gamma) ==
    SumOver(DOMAIN outputs, LAMBDA o : {Scaled(gamma[o], p) : p \in Into(outputs[o])})

-----------------------------------------------------------------------------
(***************************************************************************)
(* FlatRounds: the first rounds are computed from the outputs' terms, each *)
(* a product of tables and selectors.                                      *)
(***************************************************************************)
RECURSIVE FlatTerms(_)

\* The terms of a tree and the number of its leaves; a product that would have
\* more terms than leaves is not flattened.
FlatTerms(n) ==
    CASE n.op = "table" ->
           {[leaves |-> 1, terms |-> <<[negative |-> FALSE, tables |-> <<n.name>>, selectors |-> <<>>]>>]}
      [] n.op = "selector" ->
           {[leaves |-> 1, terms |-> <<[negative |-> FALSE, tables |-> <<>>, selectors |-> <<n.name>>]>>]}
      [] n.op = "product" ->
           LET pair(a, b) == [negative |-> a.negative # b.negative, tables |-> a.tables \o b.tables,
                              selectors |-> a.selectors \o b.selectors]
               cross(a, b) == [i \in 1..(Len(a) * Len(b)) |->
                                 pair(a[((i - 1) \div Len(b)) + 1], b[((i - 1) % Len(b)) + 1])]
           IN {[leaves |-> l.leaves + r.leaves, terms |-> cross(l.terms, r.terms)] :
                 <<l, r>> \in {s \in FlatTerms(n.lhs) \X FlatTerms(n.rhs) :
                                 Len(s[1].terms) * Len(s[2].terms) <= s[1].leaves + s[2].leaves}}
      [] OTHER ->
           LET signed(terms) == IF n.op = "sum" THEN terms
                                ELSE [i \in DOMAIN terms |-> [terms[i] EXCEPT !.negative = ~@]]
           IN {[leaves |-> l.leaves + r.leaves, terms |-> l.terms \o signed(r.terms)] :
                 l \in FlatTerms(n.lhs), r \in FlatTerms(n.rhs)}

TermsOf(n) == UNION {{f.terms[i] : i \in DOMAIN f.terms} : f \in FlatTerms(n)}

\* How many rounds are flat: none unless every term has a table over the cube.
FlatRoundCount(outputs, vars) ==
    LET terms == UNION {TermsOf(outputs[o]) : o \in DOMAIN outputs}
        full(term) == \E i \in DOMAIN term.tables :
                        LET t == leaf[term.tables[i]] IN Len(t.data) = 2^vars /\ t.suffix = 0
    IN IF terms # {} /\ \A term \in terms : full(term)
       THEN Max({0, vars - FloorLog(Chunk)}) ELSE 0

\* plan
Active(term) == {i \in DOMAIN term.tables : IsFolding(leaf[term.tables[i]])}
Inactive(term) == DOMAIN term.tables \ Active(term)
Bits(term) == {i \in DOMAIN term.selectors : InSelectorRound(leaf[term.selectors[i]])}
FoldedSelectors(term) == {i \in DOMAIN term.selectors \ Bits(term) : ~IsUnit(leaf[term.selectors[i]])}

TermRanges(term) ==
    UNION ({TableRange(leaf[term.tables[i]]) : i \in DOMAIN term.tables}
             \cup {SelectorRange(leaf[term.selectors[i]]) : i \in DOMAIN term.selectors})

TermStart(term) == Max({0} \cup {r[1] : r \in TermRanges(term)})
TermEnd(term) ==
    Min({Max({0} \cup {Half(leaf[term.tables[i]]) : i \in Active(term)})}
          \cup {r[2] : r \in TermRanges(term)})

\* The tables that are constant this round keep their value for runs of points;
\* it is read at the first point of a run (or, wrongly, of the whole range).
AnchorAtStart(term, p) == TermStart(term)

Anchor(term, p) ==
    LET suffixes == {leaf[term.tables[i]].suffix : i \in Inactive(term)} \ {0}
        run == 2^(Min(suffixes) - 1)
    IN IF suffixes = {} THEN TermStart(term) ELSE Max({TermStart(term), (p \div run) * run})

\* A factor at 0, at 1, its leading coefficient, and at 2.
TableOperand(t, k, p) ==
    LET pair == PairAt(t, p)
    IN CASE k = 2 -> pair[1] [] k = 3 -> ValueAt(pair, 2) [] OTHER -> ValueAt(pair, k)

BitOperand(s, k) ==
    s.claim * (IF s.prefix % 2 = 1 THEN <<0, 1, 1, 2>>[k + 1] ELSE <<1, 0, -1, -1>>[k + 1])

ProductOver(S, f(_)) == FoldSet(LAMBDA x, acc : (f(x) * acc) % Modulus, 1, S)

TermAt(term, k, p) ==
    LET table(i) == leaf[term.tables[i]]
        selector(i) == leaf[term.selectors[i]]
    IN (ProductOver(Active(term), LAMBDA i : TableOperand(table(i), k, p))
        * ProductOver(Inactive(term), LAMBDA i : TableAt(table(i), Anchor(term, p)))
        * ProductOver(FoldedSelectors(term), LAMBDA i : selector(i).claim)
        * ProductOver(Bits(term), LAMBDA i : BitOperand(selector(i), k))) % Modulus

TermSum(term, k) ==
    MapThenSumSet(LAMBDA p : TermAt(term, k, p), TermStart(term)..(TermEnd(term) - 1)) % Modulus

\* interpolate, from the values at 0 and 1, the leading coefficient, the value at 2
Inverse2 == (Modulus + 1) \div 2

Interpolate(degree, at0, at1, lead, at2) ==
    LET rest == at1 - at0 - lead
        square == ((at2 - at0 - 8 * lead - 2 * rest) * Inverse2) % Modulus
        c == CASE degree = 1 -> <<at0, at1 - at0, 0, 0>>
               [] degree = 2 -> <<at0, rest, lead, 0>>
               [] degree = 3 -> <<at0, rest - square, square, lead>>
    IN [i \in 0..3 |-> c[i + 1] % Modulus]

\* A round's polynomial of a term.  Once the round before is known, its value at
\* the challenge is what this round's two values add up to, and one is saved.
TermPoly(term, before) ==
    LET degree == Cardinality(Active(term)) + Cardinality(Bits(term))
        at0 == TermSum(term, 0)
        carried == {(b - at0) % Modulus : b \in before}
        at1 == IF before = {} THEN TermSum(term, 1) ELSE CHOOSE v \in carried : TRUE
    IN CASE Active(term) = {} \/ degree > 3 -> {}
         [] TermStart(term) >= TermEnd(term) -> {NoPoly}
         [] OTHER -> {Interpolate(degree, at0, at1, TermSum(term, 2), TermSum(term, 3))}

\* The terms of all outputs in order, each with the output it belongs to.
RECURSIVE Plans(_, _)
Plans(outputs, o) ==
    IF o = 0 THEN <<>>
    ELSE LET of(terms) == [i \in DOMAIN terms |-> [output |-> o, term |-> terms[i]]]
         IN Plans(outputs, o - 1) \o
              (IF FlatTerms(outputs[o]) = {} THEN <<>>
               ELSE of((CHOOSE f \in FlatTerms(outputs[o]) : TRUE).terms))

\* round_polynomial: the polynomials of the terms; previous is what the round
\* before left, and skip says that there was one and it had as many terms.
TermPolys(outputs, previous, challenges) ==
    LET plans == Plans(outputs, Len(outputs))
        skip == challenges # <<>> /\ Len(previous) = Len(plans)
    IN [i \in DOMAIN plans |->
          [output |-> plans[i].output, negative |-> plans[i].term.negative,
           poly |-> TermPoly(plans[i].term,
                      IF skip THEN {ValueAt(previous[i], challenges[Len(challenges)])} ELSE {})]]

FlatCombined(outputs, gamma, termPolys) ==
    LET ofOutput(o) ==
          SumOver({i \in DOMAIN termPolys : termPolys[i].output = o},
                  LAMBDA i : {Scaled(IF termPolys[i].negative THEN -1 ELSE 1, p) : p \in termPolys[i].poly})
        poly(o) == IF FlatTerms(outputs[o]) = {} THEN Into(outputs[o]) ELSE ofOutput(o)
    IN SumOver(DOMAIN outputs, LAMBDA o : {Scaled(gamma[o], p) : p \in poly(o)})
=============================================================================

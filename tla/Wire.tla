-------------------------------- MODULE Wire --------------------------------
(***************************************************************************)
(* The decoder of a proof (src/protocol/wire.rs): a walk over a stream,    *)
(* field by field, that spends an allowance.                               *)
(*                                                                         *)
(* The stream's sender decides each field when it is read: as the encoder  *)
(* would write it for the source proof, or, for an honest source,          *)
(* otherwise, OddBudget times: another value, or another way of coding the *)
(* same one.                                                               *)
(***************************************************************************)
EXTENDS WireFormat

CONSTANTS
    OddBudget     \* bound: how often a stream of a chain departs from the encoder's

ASSUME WireAssumption == OddBudget \in [Chains -> Nat]

VARIABLES
    source,      \* the proof the sender holds
    shape,       \* the shape section read so far
    cells,       \* the cells read so far
    odd,         \* how often the stream has departed from the encoder's
    todo,        \* the fields the decoder still reads in this round
    out,         \* the rounds decoded, the last one still being read
    left,        \* Decoder::cells, what is left of the allowance
    roundsLeft,  \* Decoder::rounds
    allocated,   \* coefficients the decoder has allocated
    status       \* "reading", "accepted" or "malformed"

wireVars == <<chain, source, shape, cells, odd, todo, out, left, roundsLeft,
              allocated, status>>

Allowance == IF source[1].kind = "Claims" THEN ClaimsAllowance ELSE AllowanceOf(chain)

-----------------------------------------------------------------------------
(***************************************************************************)
(* The proofs a sender holds.                                              *)
(***************************************************************************)
WireItem(f, item) ==
    [shape |-> item.shape,
     data |-> [i \in DOMAIN item.data |->
                 IF f = "polys" THEN Polynomial(item.data[i], 1 + (i % 4), 1 + (i % 4))
                 ELSE Element(f, item.data[i])]]

AbsentItem == WireItem("norm", Absent)
NoItems == [f \in Fields |-> AbsentItem]

HonestProof(c) ==
    [r \in DOMAIN c |-> [kind |-> c[r].kind,
                         items |-> [f \in Fields |-> WireItem(f, Sent(c, r)[f])]]]

\* The claims proof of the root's evaluations, the conjugate one optional.
ClaimsProof(conjugate) ==
    LET sent(f, n) == WireItem(f, HonestItem(1, f, <<n>>, {}))
    IN << [kind |-> "Claims",
           items |-> [NoItems EXCEPT !["polys"] = sent("polys", ClaimsVariables),
                                     !["z0"] = sent("z0", 1),
                                     !["z1"] = IF conjugate THEN sent("z1", 1) ELSE @]] >>

\* Values that stand where others should: the tampering of the tests.
Vector(data) == [shape |-> <<Len(data)>>, data |-> data]
Shorter(data) == IF data = <<>> THEN {} ELSE {Seqs!Front(data)}

AlteredPolys(item) ==
    LET first(p) == [item EXCEPT !.data[1] = p]
    IN {Vector(d) : d \in Shorter(item.data)
                          \cup {Append(item.data, Polynomial(Foreign, 2, 0))}}
       \cup (IF item.data = <<>> THEN {}
             ELSE {first([item.data[1] EXCEPT !.terms = 4]), first(Polynomial(Foreign, 0, 0))})

AlteredData(f, data) ==
    Shorter(data) \cup {Append(data, Element(f, x)) : x \in {Zero, Foreign}}
    \cup (IF data = <<>> THEN {}
          ELSE {[data EXCEPT ![1] = Element(f, x)] : x \in {Zero, Foreign}}
               \cup {[data EXCEPT ![1].held = h] :
                        h \in {"Coefficients", "IncompleteNTT"} \ {data[1].held}})

AlteredShapes(s) ==
    {[s EXCEPT ![1] = s[2], ![2] = s[1]], [s EXCEPT ![1] = 0], [s EXCEPT ![2] = @ + 1]}
    \cup (IF Len(s) = 3 THEN {[s EXCEPT ![3] = s[2] + 1], [s EXCEPT ![3] = s[2] - 1]} ELSE {})

AlteredMatrix(f, item) ==
    {[item EXCEPT !.shape = s] : s \in AlteredShapes(item.shape)}
    \cup {[item EXCEPT !.data = d] : d \in AlteredData(f, item.data)}
    \cup {[shape |-> [item.shape EXCEPT ![1] = @ + 1],
           data |-> item.data \o [i \in 1..item.shape[2] |-> Element(f, Zero)]]}

AlteredItems(kind, f, item) ==
    (IF f = "polys" THEN AlteredPolys(item)
     ELSE IF Len(item.shape) > 1 THEN AlteredMatrix(f, item)
     ELSE {Vector(d) : d \in AlteredData(f, item.data)})
    \cup (IF Optional(kind, f) /\ item.shape # NoShape THEN {AbsentItem} ELSE {})
    \cup (IF f # "next" THEN {}
          ELSE {[item EXCEPT !.shape = IF Len(@) = 1 THEN <<Len(item.data), 1>>
                                       ELSE <<Len(item.data)>>]})

\* A proof with one item altered, or with one round more than its chain.
AlteredProofs(proof) ==
    {proof} \cup {Append(proof, proof[r]) : r \in DOMAIN proof}
    \cup UNION {UNION {{[proof EXCEPT ![r].items[f] = x] :
                            x \in AlteredItems(proof[r].kind, f, proof[r].items[f])} :
                       f \in {g \in Fields : proof[r].items[g].shape # NoShape}} :
                r \in DOMAIN proof}

HonestProofs(c) == {HonestProof(c)} \cup {ClaimsProof(b) : b \in BOOLEAN}

\* An extra round is encoded only below a round that recurses.
Encodable(proof) == \A r \in 1..(Len(proof) - 1) : proof[r].kind \in {"Sumcheck", "Intermediate"}

Sources(c) == {p \in UNION {AlteredProofs(h) : h \in HonestProofs(c)} : Encodable(p)}

Budget == IF source = HonestProof(chain) THEN OddBudget[chain] ELSE 0

-----------------------------------------------------------------------------
(***************************************************************************)
(* What the stream may hold where the decoder reads a field.               *)
(***************************************************************************)
Round == out[Len(out)]
Field == Head(todo)

\* What the sender has for a field it did not mean to send.
Stray(f) ==
    CASE f \in {"folded", "image"} -> [shape |-> <<1, 1, 1>>, data |-> <<Element(f, Foreign)>>]
      [] f = "polys" -> Vector(<<>>)
      [] f \in {"batched", "opening"} /\ Round.kind # "Sumcheck" ->
           [shape |-> <<1, 1>>, data |-> <<Element(f, Foreign)>>]
      [] OTHER -> IF Optional(Round.kind, f) THEN AbsentItem
                  ELSE Vector(<<Element(f, Foreign)>>)

Held(f) ==
    LET r == Len(out)
        sent == IF r <= Len(source) /\ source[r].kind = Round.kind
                THEN source[r].items[f] ELSE AbsentItem
    IN IF sent.shape = NoShape THEN Stray(f) ELSE sent

\* The coding choices the format leaves open: the flip bit, labels one by one,
\* a polynomial with a zero on top, a count past the four coefficients.
CodingChoices(w) ==
    (IF w.slice.data = <<>> THEN {}
     ELSE {[w EXCEPT !.slice.flip = ~@], [w EXCEPT !.slice.uniform = ~@]})
    \cup (IF w.polys = <<>> THEN {}
          ELSE {[w EXCEPT !.polys[1].count = @ + 1, !.polys[1].zeroTop = TRUE],
                [w EXCEPT !.polys[1].count = 5]})

Arrivals(f) ==
    LET item == Held(f)
        altered == AlteredItems(Round.kind, f, item)
        choices(i, n) == {[written |-> c, odd |-> n] : c \in CodingChoices(Written(f, i))}
    IN {[written |-> Written(f, item), odd |-> 0]}
       \cup {[written |-> Written(f, a), odd |-> 1] : a \in altered}
       \cup choices(item, 1)
       \cup UNION {choices(a, 2) : a \in altered}

-----------------------------------------------------------------------------
(***************************************************************************)
(* Decoding.                                                               *)
(***************************************************************************)

\* Decoder::sumcheck, simple and intermediate, and initial_from_bytes_for.
DecoderFields(kind) ==
    CASE kind = "Sumcheck" ->
           <<"polys", "z0", "z1", "norm", "mostInnerNorm", "projectionNorm", "opening",
             "coarse", "fine", "constantTermClaims", "next", "descend">>
      [] kind = "Simple" -> <<"folded", "image", "batched", "opening">>
      [] kind = "Intermediate" ->
           <<"opening", "polys", "z0", "z1", "norm", "next", "image", "batched", "descend">>
      [] kind = "Claims" -> <<"polys", "z0", "z1">>

\* How a field is read.
SingleRings == {"z0", "z1", "norm", "mostInnerNorm", "projectionNorm"}
Verticals == {"folded", "image"}
Horizontals(kind) == IF kind = "Sumcheck" THEN {} ELSE {"opening", "batched"}
Slices(kind) == {"opening", "coarse", "constantTerm", "batched", "constantTermClaims"}
                \ Horizontals(kind)

\* charge: declared lengths are spent before anything is allocated.
CostOfRings(w) == Rings(Len(w.slice.data))
Cost(w) == Rings(Len(w.slice.data)) + Polys(Len(w.polys))

Charged(w) == Cost(w) <= left
Allocates(w) == Rings(Len(w.slice.data)) + Polys(Len(w.polys))

SliceAdmittedAnyCoding(f, s) ==
    s.data # <<>> => s.uniform /\ s.data[1].held = HeldAs(f)

\* ring_slice: one representation for the role, and the coding the encoder
\* would have chosen for the elements decoded.
SliceAdmitted(f, s) ==
    s.data # <<>> =>
      /\ s.uniform
      /\ s.data[1].held = HeldAs(f)
      /\ s.flip = Flips(f, s.data)

PolynomialAdmitted(p) == p.count <= 4 /\ ~p.zeroTop

\* The dimensions, width first, describe the data.
MatrixAdmitted(dims, data) ==
    /\ dims[1] * dims[2] = Len(data)
    /\ Len(dims) = 3 => dims[3] <= dims[1]

DecodedShapeWidthFirst(w) ==
    CASE Len(w.dims) = 2 -> w.dims
      [] Len(w.dims) = 3 -> w.dims
      [] OTHER -> IF w.present THEN <<Len(w.slice.data) + Len(w.polys)>> ELSE NoShape

DecodedShape(w) ==
    CASE Len(w.dims) = 2 -> <<w.dims[2], w.dims[1]>>
      [] Len(w.dims) = 3 -> <<w.dims[2], w.dims[1], w.dims[3]>>
      [] OTHER -> IF w.present THEN <<Len(w.slice.data) + Len(w.polys)>> ELSE NoShape

Decoded(f, w) ==
    [shape |-> DecodedShape(w),
     data |-> IF f = "polys"
              THEN [i \in DOMAIN w.polys |->
                      Polynomial(w.polys[i].of, w.polys[i].count,
                                 IF w.polys[i].zeroTop THEN w.polys[i].count - 1
                                 ELSE w.polys[i].count)]
              ELSE w.slice.data]

\* A field has been read as a.written; admitted says whether it is well formed.
Take(a, admitted) ==
    LET w == a.written
        charged == Charged(w)
    IN /\ odd + a.odd <= Budget
       /\ odd' = odd + a.odd
       /\ shape' = shape \o FieldTokens(Round.kind, Field, w)
       /\ cells' = cells \o FieldCells(Field, w)
       /\ left' = IF charged THEN left - Cost(w) ELSE left
       /\ allocated' = IF charged THEN allocated + Allocates(w) ELSE allocated
       /\ IF charged /\ admitted
          THEN /\ out' = [out EXCEPT ![Len(out)].items[Field] = Decoded(Field, w)]
               /\ todo' = Tail(todo)
               /\ UNCHANGED status
          ELSE /\ status' = "malformed"
               /\ UNCHANGED <<out, todo>>
       /\ UNCHANGED <<chain, source, roundsLeft>>

Reading(fields) == status = "reading" /\ todo # <<>> /\ Field \in fields

ReadPolys ==
    /\ Reading({"polys"})
    /\ \E a \in Arrivals(Field) :
         Take(a, \A i \in DOMAIN a.written.polys : PolynomialAdmitted(a.written.polys[i]))

\* ring and option_ring: a slice of exactly one element.
ReadRing ==
    /\ Reading(SingleRings)
    /\ \E a \in Arrivals(Field) :
         Take(a, /\ SliceAdmitted(Field, a.written.slice)
                 /\ a.written.present => Len(a.written.slice.data) = 1)

ReadSlice ==
    /\ Reading(Slices(Round.kind))
    /\ \E a \in Arrivals(Field) : Take(a, SliceAdmitted(Field, a.written.slice))

ReadMatrix ==
    /\ Reading(Verticals \cup Horizontals(Round.kind))
    /\ \E a \in Arrivals(Field) :
         Take(a, /\ SliceAdmitted(Field, a.written.slice)
                 /\ MatrixAdmitted(a.written.dims, a.written.slice.data))

ReadNextCommitment ==
    /\ Reading({"next"})
    /\ \E a \in Arrivals(Field) :
         Take(a, /\ SliceAdmitted(Field, a.written.slice)
                 /\ a.written.dims # <<>>
                      => MatrixAdmitted(a.written.dims, a.written.slice.data))

\* The flag of a fine projection's two roots.
ReadFinePair ==
    /\ Reading({"fine"})
    /\ \E present \in BOOLEAN :
         LET held == /\ Len(out) <= Len(source)
                     /\ source[Len(out)].items["constantTerm"].shape # NoShape
             n == IF present = held THEN 0 ELSE 1
         IN /\ odd + n <= Budget
            /\ odd' = odd + n
            /\ shape' = Append(shape, Bit(present))
            /\ todo' = IF present THEN <<"constantTerm", "batched">> \o Tail(todo)
                       ELSE Tail(todo)
    /\ UNCHANGED <<chain, source, cells, out, left, roundsLeft, allocated, status>>

\* next: the recursion is charged before the round's tag is read.
NextFlag(present, kind) ==
    <<Bit(present)>> \o (IF present /\ roundsLeft > 0 THEN <<<<"round", kind>>>> ELSE <<>>)

\* checked_sub
RoundRefused == roundsLeft = 0

ReadNext ==
    /\ Reading({"descend"})
    /\ \E present \in BOOLEAN, kind \in Kinds \cup {"none"} :
         LET r == Len(out) + 1
             n == IF r <= Len(source) THEN (IF present /\ kind = source[r].kind THEN 0 ELSE 1)
                  ELSE (IF present THEN 1 ELSE 0)
         IN /\ ~present => kind = "none"
            /\ odd + n <= Budget
            /\ odd' = odd + n
            /\ shape' = shape \o NextFlag(present, kind)
            /\ IF ~present
               THEN todo' = <<>> /\ UNCHANGED <<out, roundsLeft, status>>
               ELSE IF RoundRefused \/ kind = "none"
               THEN status' = "malformed" /\ UNCHANGED <<out, roundsLeft, todo>>
               ELSE /\ roundsLeft' = roundsLeft - 1
                    /\ out' = Append(out, [kind |-> kind, items |-> NoItems])
                    /\ todo' = DecoderFields(kind)
                    /\ UNCHANGED status
    /\ UNCHANGED <<chain, source, cells, left, allocated>>

\* finish: each section ends where the reading does.
Finish ==
    /\ status = "reading" /\ todo = <<>>
    /\ \E more \in BOOLEAN :
         LET n == IF more THEN 1 ELSE 0
         IN /\ odd + n <= Budget
            /\ odd' = odd + n
            /\ status' = IF more THEN "malformed" ELSE "accepted"
    /\ UNCHANGED <<chain, source, shape, cells, todo, out, left, roundsLeft, allocated>>

Decided == status # "reading" /\ UNCHANGED wireVars

WireInit ==
    /\ chain \in Chains
    /\ source \in Sources(chain)
    /\ shape = <<>> /\ cells = <<>> /\ odd = 0
    /\ out = <<[kind |-> source[1].kind, items |-> NoItems]>>
    /\ todo = DecoderFields(source[1].kind)
    /\ left = Allowance.cells
    /\ roundsLeft = Allowance.rounds - 1
    /\ allocated = 0
    /\ status = "reading"

WireNext ==
    \/ ReadPolys \/ ReadRing \/ ReadSlice \/ ReadMatrix \/ ReadNextCommitment
    \/ ReadFinePair \/ ReadNext \/ Finish \/ Decided

WireSpec == WireInit /\ [][WireNext]_wireVars

-----------------------------------------------------------------------------
\* Whatever the stream declares, the decoder allocates no more coefficients
\* than its allowance and recurses into no more rounds (charge, before any
\* allocation of ring_slice and polys; checked_sub in next).
AllowanceHolds ==
    /\ left >= 0 /\ allocated + left = Allowance.cells
    /\ roundsLeft >= 0 /\ Len(out) + roundsLeft = Allowance.rounds

\* from_bytes_for "accepts exactly the bytes to_bytes writes for the proof they
\* decode to": no coding choice is the sender's, so a proof has one encoding.
AcceptsOnlyTheEncoding ==
    status = "accepted" => Encode(out) = [shape |-> shape, cells |-> cells]

\* A proof as it is decoded: polynomials are held at their degree.
Normalised(proof) ==
    [r \in DOMAIN proof |->
       [proof[r] EXCEPT !.items["polys"].data =
          [i \in DOMAIN @ |-> [@[i] EXCEPT !.terms = proof[r].items["polys"].data[i].degree]]]]

\* What a proof declares, and whether its parts are what their fields ask for.
Declared(proof) ==
    Seqs!MapThenSumSet(LAMBDA r :
        Seqs!MapThenSumSet(LAMBDA f :
            IF f = "polys" THEN Polys(Len(proof[r].items[f].data))
            ELSE Rings(Len(proof[r].items[f].data)), Fields), DOMAIN proof)

WellHeld(kind, f, item) ==
    /\ f # "polys" => \A i \in DOMAIN item.data : item.data[i].held = HeldAs(f)
    /\ f \in SingleRings /\ item.shape # NoShape => Len(item.data) = 1
    /\ Entries(item.shape) = Len(item.data)
    /\ Len(item.shape) = 3 => item.shape[3] <= item.shape[2]

Transmissible(proof) ==
    /\ \A r \in DOMAIN proof : \A f \in Fields : WellHeld(proof[r].kind, f, proof[r].items[f])
    /\ Declared(proof) <= Allowance.cells
    /\ Len(proof) <= Allowance.rounds

\* What the encoder writes decodes to the proof it was given, up to leading
\* zeros of polynomials, and is refused only where the proof is ill-formed or
\* declares more than the configuration does; and the allowance is "exactly
\* what an honest proof of config declares" (Allowance::of): decoding the proof
\* a prover of the chain sends leaves nothing of it.
DecodesWhatWasEncoded ==
    odd = 0 /\ status # "reading" =>
      /\ (status = "accepted") = Transmissible(source)
      /\ status = "accepted" => out = Normalised(source)
      /\ source = HonestProof(chain) => left = 0 /\ roundsLeft = 0

\* The statement the verifier checks a round's shape with.
StatementOf(r) ==
    LET plain(item) == [shape |-> item.shape,
                        data |-> [i \in DOMAIN item.data |-> item.data[i].of]]
    IN [claims |-> [i \in 1..chain[r].openings |-> <<>>],
        point |-> [i \in 1..(chain[r].rows + chain[r].cols) |-> 0],
        commitment |-> IF r = 1 THEN RootCommitment(chain) ELSE plain(out[r - 1].items["next"])]

DecodedItems(r) ==
    [f \in Fields |-> [shape |-> out[r].items[f].shape,
                       data |-> [i \in DOMAIN out[r].items[f].data |->
                                   out[r].items[f].data[i].of]]]

\* "The verifier's shape checks then hold each field to its own size": what the
\* decoder accepts and check_*_round_shape pass for every round of the chain
\* declares what an honest proof does, field by field and in total.
ShapeChecksHoldTheRest ==
    /\ status = "accepted"
    /\ source[1].kind # "Claims"
    /\ Len(out) = Len(chain)
    /\ \A r \in DOMAIN chain :
         /\ out[r].kind = chain[r].kind
         /\ ShapePasses(chain, r, DecodedItems(r), StatementOf(r))
    => left = 0 /\ roundsLeft = 0
=============================================================================

----------------------------- MODULE WireFormat -----------------------------
(***************************************************************************)
(* The wire format of a proof (src/protocol/wire.rs): the encoder's walk   *)
(* over a chain of round proofs, field by field, and the allowance a       *)
(* decoder is given.                                                       *)
(*                                                                         *)
(* A stream has two parts, what the shape section says and the cells the   *)
(* other sections carry.  A cell stands for the coefficients of one ring   *)
(* element, or of one polynomial coefficient; Octaves codes them.          *)
(***************************************************************************)
EXTENDS RoundItems

Seqs == INSTANCE SequencesExt

CONSTANTS
    Degree, SlotDegree,  \* coefficients of a ring element, of a field element
    ResidueBits,         \* residue_bits: the bits of a residue
    ShortBits,           \* the bits of a coefficient of a short element
    ClaimsVariables      \* variables of the claims proof's sumcheck

ASSUME WireFormatAssumption ==
    /\ Degree \in Nat \ {0} /\ SlotDegree \in Nat \ {0}
    /\ ResidueBits \in Nat /\ ShortBits \in Nat
    /\ ClaimsVariables \in Nat

-----------------------------------------------------------------------------
(***************************************************************************)
(* Elements, roles and the choice of the coded representation.             *)
(***************************************************************************)
Representations ==
    <<"Coefficients", "StridedCoefficients", "IncompleteNTT", "HomogenizedFieldExtensions">>

\* The fields whose elements have short coefficients in a proof.
ShortFields == {"norm", "mostInnerNorm", "projectionNorm", "folded", "image"}

ProofKinds == Kinds \cup {"Claims"}

\* Role::representation, of a field in place of its role: only the projection
\* image is held as coefficients.
HeldAs(f) == IF f = "image" THEN "Coefficients" ELSE "IncompleteNTT"

\* A ring element carries the label of its representation, a round polynomial
\* the number of coefficients it is held with and the number up to its top one.
Element(f, e) == [of |-> e, held |-> HeldAs(f)]
Polynomial(e, terms, degree) == [of |-> e, terms |-> terms, degree |-> degree]

\* octave, summed by cost: the bits of a coefficient of an element.
CodedBits(x, f, form) ==
    CASE x.of = Zero -> 0
      [] x.of # Zero /\ f = "image" -> ShortBits
      [] x.of # Zero /\ f # "image" ->
           IF form = "coefficients" /\ x.of[2] \in ShortFields THEN ShortBits
           ELSE ResidueBits - 1

RingCost(data, f, form) ==
    Seqs!MapThenSumSet(LAMBDA i : Degree * CodedBits(data[i], f, form), DOMAIN data)

\* flips: elements are coded as coefficients where that saves more than a bit
\* for each coefficient.
Flips(f, data) ==
    LET coefficients == Len(data) * Degree
        resident == RingCost(data, f, "resident")
    IN /\ data # <<>>
       /\ data[1].held # "Coefficients"
       /\ resident > coefficients * (ResidueBits - 4)
       /\ RingCost(data, f, "coefficients") + coefficients < resident

-----------------------------------------------------------------------------
(***************************************************************************)
(* Encoding.  A field as written: whether it is there, the dimensions of a *)
(* matrix, a slice of ring elements, or round polynomials.                 *)
(***************************************************************************)
Uniform(data) == \A i \in DOMAIN data : data[i].held = data[1].held

Labels(s) ==
    IF s.uniform THEN <<s.data[1].held>> ELSE [i \in DOMAIN s.data |-> s.data[i].held]

\* ring_slice: what it decides about the elements it is given.
WrittenSlice(f, data) ==
    [uniform |-> Uniform(data), flip |-> Flips(f, data), data |-> data]

\* polys: a polynomial is written up to its top coefficient that is not zero.
WrittenPolynomial(p) == [of |-> p.of, count |-> p.degree, zeroTop |-> FALSE]

\* matrix_v and matrix_h: the width comes first.
Dimensions(itemShape) ==
    CASE Len(itemShape) = 2 -> <<itemShape[2], itemShape[1]>>
      [] Len(itemShape) = 3 -> <<itemShape[2], itemShape[1], itemShape[3]>>
      [] OTHER -> <<>>

Written(f, item) ==
    [present |-> item.shape # NoShape,
     dims |-> Dimensions(item.shape),
     slice |-> IF f = "polys" THEN WrittenSlice(f, <<>>) ELSE WrittenSlice(f, item.data),
     polys |-> IF f = "polys" THEN [i \in DOMAIN item.data |-> WrittenPolynomial(item.data[i])]
               ELSE <<>>]

Bit(b) == <<"bit", b>>

\* put_varint, the uniform bit, the labels, the flip bit.
SliceTokens(s) ==
    <<<<"len", Len(s.data)>>>> \o
    (IF s.data = <<>> THEN <<>> ELSE <<Bit(s.uniform)>> \o Labels(s) \o <<Bit(s.flip)>>)

SliceCells(f, s) ==
    [i \in DOMAIN s.data |->
        <<f, s.data[i].of, IF s.flip THEN "coefficients" ELSE "resident">>]

Lengths(numbers) == [i \in DOMAIN numbers |-> <<"len", numbers[i]>>]

\* The fields that travel under a flag.  Both roots of a fine projection share
\* the flag "fine".
Optional(kind, f) ==
    \/ f \in {"projectionNorm", "coarse", "constantTermClaims", "next"}
    \/ kind = "Claims" /\ f = "z1"

FieldTokens(kind, f, w) ==
    CASE f = "polys" ->
           <<<<"len", Len(w.polys)>>>> \o [i \in DOMAIN w.polys |-> <<"degree", w.polys[i].count>>]
      [] f # "polys" /\ Optional(kind, f) ->
           <<Bit(w.present)>> \o
           (IF ~w.present THEN <<>>
            ELSE (IF f = "next" THEN <<Bit(w.dims # <<>>)>> ELSE <<>>)
                 \o Lengths(w.dims) \o SliceTokens(w.slice))
      [] OTHER -> Lengths(w.dims) \o SliceTokens(w.slice)

PolynomialCells(p) ==
    [i \in 1..p.count |-> <<"polys", p.of, IF p.zeroTop /\ i = p.count THEN 0 ELSE i>>]

FieldCells(f, w) ==
    IF f = "polys" THEN Seqs!FlattenSeq([i \in DOMAIN w.polys |-> PolynomialCells(w.polys[i])])
    ELSE IF w.present THEN SliceCells(f, w.slice) ELSE <<>>

\* Encoder::sumcheck, simple and intermediate, and initial_to_bytes.  "descend"
\* is next.
EncoderFields(kind) ==
    CASE kind = "Sumcheck" ->
           <<"polys", "z0", "z1", "norm", "mostInnerNorm", "projectionNorm", "opening",
             "coarse", "fine", "constantTermClaims", "next", "descend">>
      [] kind = "Simple" -> <<"folded", "image", "batched", "opening">>
      [] kind = "Intermediate" ->
           <<"opening", "polys", "z0", "z1", "norm", "next", "image", "batched", "descend">>
      [] kind = "Claims" -> <<"polys", "z0", "z1">>

\* The part of the stream a field of round r of a proof becomes.
FieldOf(proof, r, f) ==
    LET round == proof[r]
        written(g) == Written(g, round.items[g])
        both == <<"constantTerm", "batched">>
    IN CASE f = "fine" ->
              IF written("constantTerm").present
              THEN [shape |-> <<Bit(TRUE)>> \o
                      Seqs!FlattenSeq([i \in 1..2 |->
                          FieldTokens(round.kind, both[i], written(both[i]))]),
                    cells |-> Seqs!FlattenSeq([i \in 1..2 |->
                                  FieldCells(both[i], written(both[i]))])]
              ELSE [shape |-> <<Bit(FALSE)>>, cells |-> <<>>]
         [] f = "descend" ->
              [shape |-> IF r = Len(proof) THEN <<Bit(FALSE)>>
                         ELSE <<Bit(TRUE), <<"round", proof[r + 1].kind>>>>,
               cells |-> <<>>]
         [] OTHER -> [shape |-> FieldTokens(round.kind, f, written(f)),
                      cells |-> FieldCells(f, written(f))]

\* to_bytes, initial_to_bytes.
Encode(proof) ==
    LET fields(r) == EncoderFields(proof[r].kind)
        section(s) ==
          Seqs!FlattenSeq([r \in DOMAIN proof |->
              Seqs!FlattenSeq([i \in DOMAIN fields(r) |-> FieldOf(proof, r, fields(r)[i])[s]])])
    IN [shape |-> section("shape"), cells |-> section("cells")]

-----------------------------------------------------------------------------
(***************************************************************************)
(* Allowance: what a decoder may allocate, in coefficients, and how many   *)
(* rounds it may recurse into.                                             *)
(***************************************************************************)
Rings(count) == count * Degree
Polys(count) == count * 4 * SlotDegree
Images(cfg) == Rings((cfg.image + NofBatches) * Width(cfg))

\* A round of a chain, the commitment it sends left out.
RoundAllowance(cfg) ==
    CASE cfg.kind = "Sumcheck" ->
           Polys(cfg.vars)
           + Rings(4 + (IF HasProjectionNorm(cfg) THEN 1 ELSE 0))
           + Rings(cfg.rank["opening"])
           + (CASE cfg.projection = "Coarse" -> Rings(cfg.rank["coarse"])
                [] cfg.projection = "Fine" ->
                     Rings(cfg.rank["constantTerm"] + cfg.rank["batched"] + NofBatches)
                [] OTHER -> 0)
      [] cfg.kind = "Intermediate" ->
           Rings(2 * Width(cfg)) + Polys(cfg.vars) + Rings(3) + Images(cfg)
      [] cfg.kind = "Simple" ->
           Rings(Height(cfg) + 2 * Width(cfg)) + Images(cfg)

\* Allowance::next: the commitment the round before sends for the next one.
CommitmentAllowance(cfg) ==
    IF cfg.kind = "Sumcheck" THEN Rings(cfg.rank["commitment"])
    ELSE Rings(NextPowerOfTwo(cfg.rank["commitment"]) * Width(cfg))

\* Allowance::of.
AllowanceOf(c) ==
    [cells |-> Seqs!MapThenSumSet(LAMBDA r : RoundAllowance(c[r]), DOMAIN c)
               + Seqs!MapThenSumSet(LAMBDA r : CommitmentAllowance(c[r]), 2..Len(c)),
     rounds |-> Len(c)]

\* Allowance::claims: a polynomial for each variable and the two openings.
ClaimsAllowance == [cells |-> Polys(ClaimsVariables) + Rings(2), rounds |-> 1]
=============================================================================
